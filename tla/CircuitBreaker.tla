--------------------------- MODULE CircuitBreaker ---------------------------
(***************************************************************************)
(* The circuit breaker of core/src/upstream/circuit_breaker.rs, one atomic *)
(* memory access per step.  Threads call it without any lock: between two  *)
(* accesses of one call any other thread may run, and the clock may tick.  *)
(*                                                                         *)
(* A thread serves one request at a time: can_execute() admits it or       *)
(* refuses it, and an admitted request reports its outcome later, in       *)
(* whatever state the breaker is by then, or is dropped without a report.  *)
(* The Operators may also call reset() and force_open().                   *)
(***************************************************************************)
EXTENDS Breaker

CONSTANTS Threads,
          Operators,   \* the threads that call reset() and force_open()
          MaxTime      \* bound: the clock stops here

ASSUME ThreadsAssumption ==
    /\ Operators \subseteq Threads
    /\ MaxTime \in Nat

VARIABLES state, failures, successes, lastChange,  \* the atomics
          now,    \* now_ms(), a monotonic clock
          pc,     \* the next access of each thread
          op,     \* the method it is in
          local   \* the value it last loaded, counted or read off the clock

atomics == <<state, failures, successes, lastChange>>
threads == <<pc, op, local>>
vars == <<atomics, now, threads>>

Ops == {"check", "success", "failure", "reset", "force_open"}

\* "idle": no request.  "inflight": admitted, outcome not reported yet.
Resting == {"idle", "inflight"}

PCs == Resting \cup {"last", "elapsed", "cas", "reread", "add", "load",
                     "swap", "clock", "stamp", "zero_failures", "zero_successes",
                     "reset_failures", "reset_successes"}

TypeOK ==
    /\ state \in States
    /\ failures \in 0..CountCap
    /\ successes \in 0..CountCap
    /\ lastChange \in 0..MaxTime
    /\ now \in 0..MaxTime
    /\ pc \in [Threads -> PCs]
    /\ op \in [Threads -> Ops]
    /\ local \in [Threads -> Nat]

Init ==
    /\ state = "closed"
    /\ failures = 0
    /\ successes = 0
    /\ lastChange = 0
    /\ now = 0
    /\ pc = [t \in Threads |-> "idle"]
    /\ op = [t \in Threads |-> "check"]
    /\ local = [t \in Threads |-> 0]

Goto(t, label) == pc' = [pc EXCEPT ![t] = label]

\* The state a call moves the breaker to.
Target(o) ==
    CASE o = "check" -> "half_open"
      [] o \in {"success", "reset"} -> "closed"
      [] o \in {"failure", "force_open"} -> "open"

\* Where a call goes on once its transition is over: an admitted check
\* leaves a request in flight, reset() zeroes the counters once more.
AfterTransition(o) ==
    CASE o = "check" -> "inflight"
      [] o = "reset" -> "reset_failures"
      [] OTHER -> "idle"
----------------------------------------------------------------------------
(* can_execute(): check_and_update_state_returning.                        *)

LoadState(t) ==
    /\ pc[t] = "idle"
    /\ op' = [op EXCEPT ![t] = "check"]
    /\ Goto(t, IF state = "open" THEN "last" ELSE "inflight")
    /\ UNCHANGED <<atomics, now, local>>

LoadLastChange(t) ==
    /\ pc[t] = "last"
    /\ local' = [local EXCEPT ![t] = lastChange]
    /\ Goto(t, "elapsed")
    /\ UNCHANGED <<atomics, now, op>>

TestElapsed(t) ==
    /\ pc[t] = "elapsed"
    /\ Goto(t, IF Elapsed(now, local[t]) THEN "cas" ELSE "idle")
    /\ UNCHANGED <<atomics, now, op, local>>

\* Mutant: the winner of the exchange leaves the old counters in place.
CompareExchangeKeepsCounters(t) ==
    /\ pc[t] = "cas"
    /\ IF state = "open"
       THEN state' = "half_open" /\ Goto(t, "inflight")
       ELSE UNCHANGED state /\ Goto(t, "reread")
    /\ UNCHANGED <<failures, successes, lastChange, now, op, local>>

CompareExchange(t) ==
    /\ pc[t] = "cas"
    /\ IF state = "open"
       THEN state' = "half_open" /\ Goto(t, "clock")
       ELSE UNCHANGED state /\ Goto(t, "reread")
    /\ UNCHANGED <<failures, successes, lastChange, now, op, local>>

Reread(t) ==
    /\ pc[t] = "reread"
    /\ Goto(t, IF state = "open" THEN "idle" ELSE "inflight")
    /\ UNCHANGED <<atomics, now, op, local>>
----------------------------------------------------------------------------
(* record_success() and record_failure().                                  *)

\* Mutant: a success does not end a run of failures.
BeginRecordKeepsFailures(t, outcome) ==
    /\ pc[t] = "inflight"
    /\ op' = [op EXCEPT ![t] = outcome]
    /\ IF outcome = "success"
       THEN UNCHANGED <<failures, successes>>
       ELSE successes' = 0 /\ UNCHANGED failures
    /\ Goto(t, "add")
    /\ UNCHANGED <<state, lastChange, now, local>>

\* The first store: each outcome ends the other's run.
BeginRecord(t, outcome) ==
    /\ pc[t] = "inflight"
    /\ op' = [op EXCEPT ![t] = outcome]
    /\ IF outcome = "success"
       THEN failures' = 0 /\ UNCHANGED successes
       ELSE successes' = 0 /\ UNCHANGED failures
    /\ Goto(t, "add")
    /\ UNCHANGED <<state, lastChange, now, local>>

\* fetch_add(1) + 1 on the outcome's own counter.
FetchAdd(t) ==
    /\ pc[t] = "add"
    /\ IF op[t] = "success"
       THEN /\ successes' = Inc(successes)
            /\ local' = [local EXCEPT ![t] = Inc(successes)]
            /\ UNCHANGED failures
       ELSE /\ failures' = Inc(failures)
            /\ local' = [local EXCEPT ![t] = Inc(failures)]
            /\ UNCHANGED successes
    /\ Goto(t, "load")
    /\ UNCHANGED <<state, lastChange, now, op>>

\* Mutant: the thresholds are compared with > instead of >=.
MovesLate(o, n, s) ==
    \/ o = "success" /\ s = "half_open" /\ n >= SuccessThreshold
    \/ o = "failure" /\ s = "closed" /\ n > FailureThreshold
    \/ o = "failure" /\ s = "half_open"

\* Whether an outcome that counted n moves a breaker it finds in state s.
Moves(o, n, s) ==
    \/ o = "success" /\ s = "half_open" /\ n >= SuccessThreshold
    \/ o = "failure" /\ s = "closed" /\ n >= FailureThreshold
    \/ o = "failure" /\ s = "half_open"

LoadForOutcome(t) ==
    /\ pc[t] = "load"
    /\ Goto(t, IF Moves(op[t], local[t], state) THEN "swap" ELSE "idle")
    /\ UNCHANGED <<atomics, now, op, local>>

\* Looked at and not chosen, or its client is gone: no outcome is reported.
Drop(t) ==
    /\ pc[t] = "inflight"
    /\ Goto(t, "idle")
    /\ UNCHANGED <<atomics, now, op, local>>
----------------------------------------------------------------------------
(* reset(), force_open() and transition_to().                              *)

Intervene(t, method) ==
    /\ t \in Operators
    /\ pc[t] = "idle"
    /\ op' = [op EXCEPT ![t] = method]
    /\ Goto(t, "swap")
    /\ UNCHANGED <<atomics, now, local>>

\* An unconditional swap: whatever the caller saw may be gone by now.
Swap(t) ==
    /\ pc[t] = "swap"
    /\ state' = Target(op[t])
    /\ Goto(t, IF state # Target(op[t]) THEN "clock" ELSE AfterTransition(op[t]))
    /\ UNCHANGED <<failures, successes, lastChange, now, op, local>>

\* Mutant: the time the breaker may be probed again is stored instead.
ReadClockDeadline(t) ==
    /\ pc[t] = "clock"
    /\ local' = [local EXCEPT ![t] = now + Timeout]
    /\ Goto(t, "stamp")
    /\ UNCHANGED <<atomics, now, op>>

\* now_ms() is read after the state has been published ...
ReadClock(t) ==
    /\ pc[t] = "clock"
    /\ local' = [local EXCEPT ![t] = now]
    /\ Goto(t, "stamp")
    /\ UNCHANGED <<atomics, now, op>>

\* Mutant: a breaker that opens keeps the time of its change before.
StoreLastChangeUnlessOpen(t) ==
    /\ pc[t] = "stamp"
    /\ lastChange' = IF Target(op[t]) = "open" THEN lastChange ELSE local[t]
    /\ Goto(t, IF Target(op[t]) = "open" THEN "zero_successes" ELSE "zero_failures")
    /\ UNCHANGED <<state, failures, successes, now, op, local>>

\* ... and stored later still.
StoreLastChange(t) ==
    /\ pc[t] = "stamp"
    /\ lastChange' = local[t]
    /\ Goto(t, IF Target(op[t]) = "open" THEN "zero_successes" ELSE "zero_failures")
    /\ UNCHANGED <<state, failures, successes, now, op, local>>

\* Mutant: the successes are not zeroed on the way to half-open or closed.
ZeroFailuresOnly(t) ==
    /\ pc[t] = "zero_failures"
    /\ failures' = 0
    /\ Goto(t, AfterTransition(op[t]))
    /\ UNCHANGED <<state, successes, lastChange, now, op, local>>

ZeroFailures(t) ==
    /\ pc[t] = "zero_failures"
    /\ failures' = 0
    /\ Goto(t, "zero_successes")
    /\ UNCHANGED <<state, successes, lastChange, now, op, local>>

ZeroSuccesses(t) ==
    /\ pc[t] = "zero_successes"
    /\ successes' = 0
    /\ Goto(t, AfterTransition(op[t]))
    /\ UNCHANGED <<state, failures, lastChange, now, op, local>>

ResetFailures(t) ==
    /\ pc[t] = "reset_failures"
    /\ failures' = 0
    /\ Goto(t, "reset_successes")
    /\ UNCHANGED <<state, successes, lastChange, now, op, local>>

ResetSuccesses(t) ==
    /\ pc[t] = "reset_successes"
    /\ successes' = 0
    /\ Goto(t, "idle")
    /\ UNCHANGED <<state, failures, lastChange, now, op, local>>
----------------------------------------------------------------------------
Step(t) ==
    \/ LoadState(t)
    \/ LoadLastChange(t)
    \/ TestElapsed(t)
    \/ CompareExchange(t)
    \/ Reread(t)
    \/ \E outcome \in {"success", "failure"} : BeginRecord(t, outcome)
    \/ FetchAdd(t)
    \/ LoadForOutcome(t)
    \/ Drop(t)
    \/ \E method \in {"reset", "force_open"} : Intervene(t, method)
    \/ Swap(t)
    \/ ReadClock(t)
    \/ StoreLastChange(t)
    \/ ZeroFailures(t)
    \/ ZeroSuccesses(t)
    \/ ResetFailures(t)
    \/ ResetSuccesses(t)

Tick ==
    /\ now < MaxTime
    /\ now' = now + 1
    /\ UNCHANGED <<atomics, threads>>

Next == Tick \/ \E t \in Threads : Step(t)

Spec == Init /\ [][Next]_vars
----------------------------------------------------------------------------
(* What survives the races.                                                *)

\* Thread t has counted a failure the closed breaker must open on, or is
\* about to swap in "open" already.
WillOpen(t) ==
    \/ pc[t] = "load" /\ op[t] = "failure" /\ Moves("failure", local[t], state)
    \/ pc[t] = "swap" /\ Target(op[t]) = "open"

\* Likewise for the success that closes a half-open breaker.
WillClose(t) ==
    \/ pc[t] = "load" /\ op[t] = "success" /\ Moves("success", local[t], state)
    \/ pc[t] = "swap" /\ Target(op[t]) = "closed"

\* Thread t has left a state behind it and still has to zero the counters.
WillZeroFailures(t) ==
    pc[t] \in {"clock", "stamp", "zero_failures"} /\ Target(op[t]) # "open"

WillZeroSuccesses(t) ==
    pc[t] \in {"clock", "stamp", "zero_failures", "zero_successes"}

\* A closed breaker never rests at its failure threshold: however the
\* accesses of concurrent record_failure(), record_success(), can_execute()
\* and reset() calls interleave, some call that is still running opens it
\* or zeroes the count.
NoLostOpening ==
    state = "closed" /\ failures >= FailureThreshold =>
        \E t \in Threads : WillOpen(t) \/ WillZeroFailures(t)

\* A half-open breaker never rests at its success threshold: some running
\* call closes it or zeroes the count, so recovery is never stuck waiting
\* for a success that was recorded already.
NoLostClosing ==
    state = "half_open" /\ successes >= SuccessThreshold =>
        \E t \in Threads : WillClose(t) \/ WillZeroSuccesses(t)

\* A failed probe is never forgotten: a half-open breaker with a failure on
\* record is about to reopen, or the failure is one from before the probe
\* that the thread which started the probe is about to zero.
NoLostProbeFailure ==
    state = "half_open" /\ failures > 0 =>
        \E t \in Threads : WillOpen(t) \/ WillZeroFailures(t)

\* The three facts above as an observer between calls sees them.
RestsBelowThresholds ==
    (\A t \in Threads : pc[t] \in Resting) =>
        /\ state = "closed" => failures < FailureThreshold
        /\ state = "half_open" => failures = 0 /\ successes < SuccessThreshold
=============================================================================
