------------------------ MODULE CircuitBreakerProofs ------------------------
(***************************************************************************)
(* For every set of threads, every threshold and every bound: the type     *)
(* invariant of CircuitBreaker, that no race between the calls loses an    *)
(* opening, a closing or a failed probe, that a call no other overlaps     *)
(* does what module Breaker says its method does, and who may let a probe  *)
(* through too early.                                                      *)
(***************************************************************************)
EXTENDS CircuitBreakerHistory, TLAPS

USE DEF States

\* Inc keeps a counter within the cap, and counts up from below it.
LEMMA IncType ==
    ASSUME NEW n \in 0..CountCap
    PROVE  /\ Inc(n) \in 0..CountCap
           /\ Inc(n) \in Nat
           /\ Inc(n) > 0
  BY BreakerAssumption DEF Inc

\* The time of the last change is never in the future, nor is one that a thread
\* is about to store.
LastChangeIsPast ==
    /\ lastChange <= now
    /\ \A t \in Threads : pc[t] = "stamp" => local[t] <= now

\* Every variable keeps its type: counters stay within the cap and the stored
\* time within the clock's range, whatever the interleaving of the calls.
\* LastChangeIsPast is what bounds the stored time.
THEOREM TypeCorrect == Spec => [](TypeOK /\ LastChangeIsPast)
<1> USE DEF Resting, PCs, Ops, atomics, threads
<1>1. Init => TypeOK /\ LastChangeIsPast
  BY BreakerAssumption, ThreadsAssumption DEF Init, TypeOK, LastChangeIsPast
<1>2. TypeOK /\ LastChangeIsPast /\ [Next]_vars => (TypeOK /\ LastChangeIsPast)'
  <2> SUFFICES ASSUME TypeOK, LastChangeIsPast, [Next]_vars
               PROVE  (TypeOK /\ LastChangeIsPast)'
    OBVIOUS
  <2> USE DEF TypeOK, LastChangeIsPast
  <2>1. CASE Tick
    BY <2>1, ThreadsAssumption DEF Tick
  <2>2. ASSUME NEW t \in Threads, Step(t)
        PROVE  (TypeOK /\ LastChangeIsPast)'
    <3> USE DEF Goto
    <3>1. CASE LoadState(t)
      BY <3>1 DEF LoadState
    <3>2. CASE LoadLastChange(t)
      BY <3>2 DEF LoadLastChange
    <3>3. CASE TestElapsed(t)
      BY <3>3 DEF TestElapsed
    <3>4. CASE CompareExchange(t)
      BY <3>4 DEF CompareExchange
    <3>5. CASE Reread(t)
      BY <3>5 DEF Reread
    <3>6. ASSUME NEW outcome \in {"success", "failure"}, BeginRecord(t, outcome)
          PROVE  (TypeOK /\ LastChangeIsPast)'
      BY <3>6, BreakerAssumption DEF BeginRecord
    <3>7. CASE FetchAdd(t)
      BY <3>7, IncType DEF FetchAdd
    <3>8. CASE LoadForOutcome(t)
      BY <3>8 DEF LoadForOutcome
    <3>9. CASE Drop(t)
      BY <3>9 DEF Drop
    <3>10. ASSUME NEW method \in {"reset", "force_open"}, Intervene(t, method)
           PROVE  (TypeOK /\ LastChangeIsPast)'
      BY <3>10 DEF Intervene
    <3>11. CASE Swap(t)
      BY <3>11 DEF Swap, Target, AfterTransition
    <3>12. CASE ReadClock(t)
      BY <3>12, ThreadsAssumption DEF ReadClock
    <3>13. CASE StoreLastChange(t)
      BY <3>13, ThreadsAssumption DEF StoreLastChange
    <3>14. CASE ZeroFailures(t)
      BY <3>14, BreakerAssumption DEF ZeroFailures
    <3>15. CASE ZeroSuccesses(t)
      BY <3>15, BreakerAssumption DEF ZeroSuccesses, AfterTransition
    <3>16. CASE ResetFailures(t)
      BY <3>16, BreakerAssumption DEF ResetFailures
    <3>17. CASE ResetSuccesses(t)
      BY <3>17, BreakerAssumption DEF ResetSuccesses
    <3> QED
      BY <2>2, <3>1, <3>2, <3>3, <3>4, <3>5, <3>6, <3>7, <3>8, <3>9, <3>10, <3>11,
         <3>12, <3>13, <3>14, <3>15, <3>16, <3>17 DEF Step
  <2>3. CASE UNCHANGED vars
    BY <2>3 DEF vars
  <2> QED
    BY <2>1, <2>2, <2>3 DEF Next
<1> QED
  BY <1>1, <1>2, PTL DEF Spec
----------------------------------------------------------------------------
(* The three coverage invariants are inductive together with TypeOK: a step *)
(* of t leaves the other threads where they are, so a covering thread other *)
(* than t still covers; and when t itself stops covering, it has just made  *)
(* the state or the counter harmless.                                       *)

Covered == NoLostOpening /\ NoLostClosing /\ NoLostProbeFailure

\* Which method a thread is in, as far as its next access tells.
ControlOK ==
    \A t \in Threads :
        /\ pc[t] \in {"last", "elapsed", "cas", "reread"} => op[t] = "check"
        /\ pc[t] \in {"add", "load"} => op[t] \in {"success", "failure"}

LEMMA StepKeepsControl ==
    ASSUME TypeOK, ControlOK, NEW t \in Threads, Step(t)
    PROVE  ControlOK'
  BY DEF ControlOK, Step, TypeOK, Resting, PCs, Ops, Goto, Target, AfterTransition,
     LoadState, LoadLastChange, TestElapsed, CompareExchange, Reread, BeginRecord,
     FetchAdd, LoadForOutcome, Drop, Intervene, Swap, ReadClock, StoreLastChange,
     ZeroFailures, ZeroSuccesses, ResetFailures, ResetSuccesses

LEMMA StepKeepsCovered ==
    ASSUME TypeOK, ControlOK, Covered, NEW t \in Threads, Step(t)
    PROVE  Covered'
<1> USE BreakerAssumption
    DEF TypeOK, ControlOK, Covered, NoLostOpening, NoLostClosing, NoLostProbeFailure,
        WillOpen, WillClose, WillZeroFailures, WillZeroSuccesses, Moves,
        Resting, PCs, Ops, atomics, threads, Goto, Target, AfterTransition
<1>1. CASE LoadState(t)
  BY <1>1 DEF LoadState
<1>2. CASE LoadLastChange(t)
  BY <1>2 DEF LoadLastChange
<1>3. CASE TestElapsed(t)
  BY <1>3 DEF TestElapsed
<1>4. CASE CompareExchange(t)
  BY <1>4 DEF CompareExchange
<1>5. CASE Reread(t)
  BY <1>5 DEF Reread
<1>6. ASSUME NEW outcome \in {"success", "failure"}, BeginRecord(t, outcome)
      PROVE  Covered'
  BY <1>6 DEF BeginRecord
<1>7. CASE FetchAdd(t)
  BY <1>7, IncType DEF FetchAdd
<1>8. CASE LoadForOutcome(t)
  BY <1>8 DEF LoadForOutcome
<1>9. CASE Drop(t)
  BY <1>9 DEF Drop
<1>10. ASSUME NEW method \in {"reset", "force_open"}, Intervene(t, method)
       PROVE  Covered'
  BY <1>10 DEF Intervene
<1>11. CASE Swap(t)
  BY <1>11 DEF Swap
<1>12. CASE ReadClock(t)
  BY <1>12 DEF ReadClock
<1>13. CASE StoreLastChange(t)
  BY <1>13 DEF StoreLastChange
<1>14. CASE ZeroFailures(t)
  BY <1>14 DEF ZeroFailures
<1>15. CASE ZeroSuccesses(t)
  BY <1>15 DEF ZeroSuccesses
<1>16. CASE ResetFailures(t)
  BY <1>16 DEF ResetFailures
<1>17. CASE ResetSuccesses(t)
  BY <1>17 DEF ResetSuccesses
<1> QED
  BY <1>1, <1>2, <1>3, <1>4, <1>5, <1>6, <1>7, <1>8, <1>9, <1>10, <1>11,
     <1>12, <1>13, <1>14, <1>15, <1>16, <1>17 DEF Step

\* No interleaving of the calls loses an opening, a closing or a failed
\* probe: NoLostOpening, NoLostClosing and NoLostProbeFailure are invariants
\* for any number of threads and any thresholds.
THEOREM NothingLost ==
    Spec => [](NoLostOpening /\ NoLostClosing /\ NoLostProbeFailure)
<1>1. Init => ControlOK /\ Covered
  BY BreakerAssumption
  DEF Init, ControlOK, Covered, NoLostOpening, NoLostClosing, NoLostProbeFailure
<1>2. TypeOK /\ ControlOK /\ Covered /\ [Next]_vars => (ControlOK /\ Covered)'
  <2> SUFFICES ASSUME TypeOK, ControlOK, Covered, [Next]_vars
               PROVE  (ControlOK /\ Covered)'
    OBVIOUS
  <2>1. CASE Tick
    BY <2>1 DEF Tick, atomics, threads, ControlOK, Covered, NoLostOpening,
       NoLostClosing, NoLostProbeFailure, WillOpen, WillClose, WillZeroFailures,
       WillZeroSuccesses
  <2>2. ASSUME NEW t \in Threads, Step(t)
        PROVE  (ControlOK /\ Covered)'
    BY <2>2, StepKeepsControl, StepKeepsCovered
  <2>3. CASE UNCHANGED vars
    BY <2>3 DEF vars, atomics, threads, ControlOK, Covered, NoLostOpening,
       NoLostClosing, NoLostProbeFailure, WillOpen, WillClose, WillZeroFailures,
       WillZeroSuccesses
  <2> QED
    BY <2>1, <2>2, <2>3 DEF Next
<1> QED
  BY <1>1, <1>2, TypeCorrect, PTL DEF Spec, Covered

\* Between calls, then, a closed breaker is below its failure threshold, and a
\* half-open one has no failure on record and is below its success threshold.
THEOREM RestIsSettled == Spec => []RestsBelowThresholds
<1>1. /\ TypeOK
      /\ NoLostOpening /\ NoLostClosing /\ NoLostProbeFailure
      => RestsBelowThresholds
  BY BreakerAssumption
  DEF TypeOK, RestsBelowThresholds, NoLostOpening, NoLostClosing,
      NoLostProbeFailure, WillOpen, WillClose, WillZeroFailures,
      WillZeroSuccesses, Resting
<1> QED
  BY <1>1, TypeCorrect, NothingLost, PTL

\* No interleaving of the calls loses a closing: a half-open breaker at its
\* success threshold always has a call on its way to close it.
THEOREM ClosingIsNotLost == Spec => []NoLostClosing
  BY NothingLost, PTL

\* No interleaving of the calls loses a failed probe: a half-open breaker that
\* counts a failure is about to open again.
THEOREM ProbeFailureIsNotLost == Spec => []NoLostProbeFailure
  BY NothingLost, PTL
----------------------------------------------------------------------------
(* A call that runs alone, access by access: how far the breaker is on the *)
(* way from what the call found to what the method-level step makes of it. *)

\* What a report counts before it looks at the state.
Counted(o, b) ==
    CASE o = "success" -> [b EXCEPT !.failures = 0, !.successes = Inc(@)]
      [] o = "failure" -> [b EXCEPT !.successes = 0, !.failures = Inc(@)]
      [] OTHER -> b

Count(o, b) == IF o = "success" THEN Inc(b.successes) ELSE Inc(b.failures)

\* Whether the call gets to its transition.
GetsThere(o, b) ==
    \/ o = "check" /\ b.state = "open" /\ Elapsed(now, b.since)
    \/ o \in {"success", "failure"} /\ Moves(o, Count(o, b), b.state)
    \/ o \in {"reset", "force_open"}

\* The breaker is b, but for the new state, the time of its change and the
\* counters that are given.
Is(b, s, f, n, when) ==
    state = s /\ failures = f /\ successes = n /\ lastChange = when

Underway(t, b) ==
    LET o == op[t]
        c == Counted(o, b)
        to == Target(o)
        kept == IF to = "open" THEN c.failures ELSE 0
        changing == GetsThere(o, b) /\ b.state # to
    IN  CASE pc[t] \in {"last", "elapsed", "cas"} ->
               /\ o = "check" /\ b.state = "open"
               /\ Is(b, b.state, b.failures, b.successes, b.since)
               /\ pc[t] = "elapsed" => local[t] = b.since
               /\ pc[t] = "cas" => GetsThere(o, b)
          [] pc[t] = "add" ->
               /\ o \in {"success", "failure"}
               /\ Is(b, b.state, IF o = "success" THEN 0 ELSE b.failures,
                     IF o = "success" THEN b.successes ELSE 0, b.since)
          [] pc[t] = "load" ->
               /\ o \in {"success", "failure"} /\ local[t] = Count(o, b)
               /\ Is(b, b.state, c.failures, c.successes, b.since)
          [] pc[t] = "swap" ->
               /\ o # "check" /\ GetsThere(o, b)
               /\ Is(b, b.state, c.failures, c.successes, b.since)
          [] pc[t] \in {"clock", "stamp"} ->
               /\ changing
               /\ Is(b, to, c.failures, c.successes, b.since)
               /\ pc[t] = "stamp" => local[t] = now
          [] pc[t] = "zero_failures" ->
               /\ changing /\ to # "open"
               /\ Is(b, to, c.failures, c.successes, now)
          [] pc[t] = "zero_successes" ->
               /\ changing
               /\ Is(b, to, kept, c.successes, now)
          [] pc[t] \in {"reset_failures", "reset_successes"} ->
               /\ o = "reset"
               /\ IF b.state = to
                  THEN state = to /\ lastChange = b.since
                  ELSE state = to /\ lastChange = now
               /\ pc[t] = "reset_successes" => failures = 0
          [] OTHER -> FALSE

SoloInv ==
    solo # None =>
        /\ solo.thread \in Threads
        /\ solo.before \in BreakerType
        /\ \A u \in Threads : u # solo.thread => pc[u] \in Resting
        /\ pc[solo.thread] \notin Resting => Underway(solo.thread, solo.before)

\* The fields of what a report counts.
LEMMA CountedIs ==
    ASSUME NEW b \in BreakerType, NEW o \in Ops
    PROVE  /\ Counted(o, b).state = b.state
           /\ Counted(o, b).since = b.since
           /\ Counted(o, b).failures = CASE o = "success" -> 0
                                         [] o = "failure" -> Inc(b.failures)
                                         [] OTHER -> b.failures
           /\ Counted(o, b).successes = CASE o = "success" -> Inc(b.successes)
                                          [] o = "failure" -> 0
                                          [] OTHER -> b.successes
           /\ Counted(o, b) \in BreakerType
<1>0. /\ 0 \in 0..CountCap
      /\ b.failures \in 0..CountCap /\ b.successes \in 0..CountCap
      /\ Inc(b.failures) \in 0..CountCap /\ Inc(b.successes) \in 0..CountCap
  <2>1. b.failures \in 0..CountCap /\ b.successes \in 0..CountCap
    BY DEF BreakerType
  <2> QED
    BY <2>1, IncType, BreakerAssumption
<1>1. CASE o = "success"
  BY <1>0, <1>1 DEF Counted, BreakerType
<1>2. CASE o = "failure"
  BY <1>0, <1>2 DEF Counted, BreakerType
<1>3. CASE o \in {"check", "reset", "force_open"}
  BY <1>3 DEF Counted, BreakerType
<1> QED
  BY <1>1, <1>2, <1>3 DEF Ops

\* A method is its count, its transition if it gets there, and for reset()
\* the counters zeroed once more.
LEMMA EffectIs ==
    ASSUME NEW b \in BreakerType, NEW o \in Ops
    PROVE  Effect(o, b) =
             LET c == Counted(o, b)
                 moved == IF GetsThere(o, b) THEN TransitionTo(c, Target(o), now) ELSE c
             IN  IF o = "reset" THEN [moved EXCEPT !.failures = 0, !.successes = 0]
                 ELSE moved
<1>1. CASE o = "check"
  BY <1>1 DEF Effect, Counted, GetsThere, Target, CheckAndUpdate
<1>2. CASE o = "success"
  <2>1. [b EXCEPT !.failures = 0, !.successes = Inc(@)].state = b.state
        /\ [b EXCEPT !.failures = 0, !.successes = Inc(@)].successes = Inc(b.successes)
    BY DEF BreakerType
  <2> QED
    BY <1>2, <2>1 DEF Effect, Counted, GetsThere, Moves, Count, Target, RecordSuccess
<1>3. CASE o = "failure"
  <2>1. [b EXCEPT !.successes = 0, !.failures = Inc(@)].state = b.state
        /\ [b EXCEPT !.successes = 0, !.failures = Inc(@)].failures = Inc(b.failures)
    BY DEF BreakerType
  <2> QED
    BY <1>3, <2>1 DEF Effect, Counted, GetsThere, Moves, Count, Target, RecordFailure
<1>4. CASE o = "reset"
  BY <1>4 DEF Effect, Counted, GetsThere, Target, Reset
<1>5. CASE o = "force_open"
  BY <1>5 DEF Effect, Counted, GetsThere, Target, ForceOpen
<1> QED
  BY <1>1, <1>2, <1>3, <1>4, <1>5 DEF Ops

\* Field by field.
LEMMA EffectFields ==
    ASSUME NEW b \in BreakerType, NEW o \in Ops, NEW r,
           r \in [state : States, failures : Nat, successes : Nat, since : Nat],
           LET c == Counted(o, b)
               to == Target(o)
               changing == GetsThere(o, b) /\ b.state # to
           IN  /\ r.state = IF changing THEN to ELSE b.state
               /\ r.failures = IF o = "reset" \/ (changing /\ to # "open") THEN 0
                               ELSE c.failures
               /\ r.successes = IF o = "reset" \/ changing THEN 0 ELSE c.successes
               /\ r.since = IF changing THEN now ELSE b.since
    PROVE  r = Effect(o, b)
<1> DEFINE c == Counted(o, b)
           to == Target(o)
           e == Effect(o, b)
           moved == IF GetsThere(o, b) THEN TransitionTo(c, to, now) ELSE c
<1>1. c \in BreakerType /\ c.state = b.state /\ c.since = b.since
  BY CountedIs
<1>2. e = IF o = "reset" THEN [moved EXCEPT !.failures = 0, !.successes = 0] ELSE moved
  BY EffectIs
<1> HIDE DEF c, e, to
<1>3. r = [state |-> r.state, failures |-> r.failures,
           successes |-> r.successes, since |-> r.since]
  OBVIOUS
<1>4. c = [state |-> c.state, failures |-> c.failures,
           successes |-> c.successes, since |-> c.since]
  BY <1>1 DEF BreakerType
<1>5. moved = [state |-> IF GetsThere(o, b) /\ b.state # to THEN to ELSE b.state,
               failures |-> IF GetsThere(o, b) /\ b.state # to /\ to # "open"
                            THEN 0 ELSE c.failures,
               successes |-> IF GetsThere(o, b) /\ b.state # to
                             THEN 0 ELSE c.successes,
               since |-> IF GetsThere(o, b) /\ b.state # to THEN now ELSE b.since]
  <2>1. CASE GetsThere(o, b) /\ b.state # to
    BY <1>1, <2>1 DEF TransitionTo
  <2>2. CASE ~ (GetsThere(o, b) /\ b.state # to)
    <3>1. moved = c
      BY <1>1, <2>2 DEF TransitionTo
    <3> QED
      BY <1>1, <1>4, <2>2, <3>1
  <2> QED
    BY <2>1, <2>2
<1>6. PICK m : m = moved
  OBVIOUS
<1>7. CASE o = "reset"
  <2>1. e = [state |-> m.state, failures |-> 0, successes |-> 0, since |-> m.since]
    BY <1>2, <1>5, <1>6, <1>7
  <2>2. r.failures = 0 /\ r.successes = 0 /\ r.state = m.state /\ r.since = m.since
    BY <1>5, <1>6, <1>7 DEF c, to
  <2> QED
    BY <1>3, <2>1, <2>2 DEF e
<1>8. CASE o # "reset"
  <2>1. e = m
    BY <1>2, <1>6, <1>8
  <2>2. /\ r.failures = m.failures /\ r.successes = m.successes
        /\ r.state = m.state /\ r.since = m.since
    BY <1>5, <1>6, <1>8 DEF c, to
  <2>3. m = [state |-> m.state, failures |-> m.failures,
             successes |-> m.successes, since |-> m.since]
    BY <1>5, <1>6
  <2> QED
    BY <1>3, <2>1, <2>2, <2>3 DEF e
<1> QED
  BY <1>7, <1>8

LEMMA CurrentType ==
    ASSUME TypeOK
    PROVE  Current \in BreakerType
  BY ThreadsAssumption DEF TypeOK, Current, BreakerType

\* The first access of a call.
LEMMA CallBegins ==
    ASSUME TypeOK, NEW t \in Threads, Step(t), pc[t] \in Resting,
           NEW b \in BreakerType, b = Current
    PROVE  \/ pc'[t] \in Resting
           \/ Underway(t, b)'
<1>1. Is(b, b.state, b.failures, b.successes, b.since)
  BY DEF Is, Current
<1>2. CASE LoadState(t)
  <2>1. CASE state = "open"
    <3>1. /\ pc'[t] = "last" /\ op'[t] = "check"
          /\ UNCHANGED atomics
      BY <1>2, <2>1 DEF LoadState, Goto, TypeOK
    <3> QED
      BY <1>1, <2>1, <3>1 DEF Underway, Is, atomics
  <2>2. CASE state # "open"
    BY <1>2, <2>2 DEF LoadState, Goto, TypeOK, Resting
  <2> QED
    BY <2>1, <2>2
<1>3. ASSUME NEW outcome \in {"success", "failure"}, BeginRecord(t, outcome)
      PROVE  Underway(t, b)'
  <2>1. /\ pc'[t] = "add" /\ op'[t] = outcome
        /\ UNCHANGED <<state, lastChange>>
    BY <1>3 DEF BeginRecord, Goto, TypeOK
  <2>2. /\ failures' = IF outcome = "success" THEN 0 ELSE failures
        /\ successes' = IF outcome = "success" THEN successes ELSE 0
    BY <1>3 DEF BeginRecord
  <2> QED
    BY <1>1, <2>1, <2>2 DEF Underway, Is
<1>4. CASE Drop(t)
  BY <1>4 DEF Drop, Goto, TypeOK, Resting
<1>5. ASSUME NEW method \in {"reset", "force_open"}, Intervene(t, method)
      PROVE  Underway(t, b)'
  <2>1. pc'[t] = "swap" /\ op'[t] = method /\ UNCHANGED atomics
    BY <1>5 DEF Intervene, Goto, TypeOK
  <2> QED
    BY <1>1, <2>1 DEF Underway, Is, atomics, GetsThere, Counted
<1> QED
  BY <1>2, <1>3, <1>4, <1>5 DEF Step, Resting, LoadLastChange, TestElapsed,
     CompareExchange, Reread, FetchAdd, LoadForOutcome, Swap, ReadClock,
     StoreLastChange, ZeroFailures, ZeroSuccesses, ResetFailures, ResetSuccesses

\* What the call has found does not change under it.
LEMMA FoundStays ==
    ASSUME NEW b, NEW o, now' = now
    PROVE  GetsThere(o, b)' <=> GetsThere(o, b)
  BY DEF GetsThere

\* Every further access, but the last, brings it on its way.
LEMMA CallContinues ==
    ASSUME TypeOK, NEW t \in Threads, Step(t), pc[t] \notin Resting,
           NEW b \in BreakerType, Underway(t, b)
    PROVE  /\ now' = now /\ op' = op
           /\ \/ pc'[t] \in Resting
              \/ Underway(t, b)'
<1>1. now' = now /\ op' = op
  BY DEF Step, Resting, LoadState, LoadLastChange, TestElapsed,
     CompareExchange, Reread, BeginRecord, FetchAdd, LoadForOutcome, Drop, Intervene,
     Swap, ReadClock, StoreLastChange, ZeroFailures, ZeroSuccesses, ResetFailures,
     ResetSuccesses
<1>2. PICK o \in Ops : o = op[t] /\ o = op'[t]
  BY <1>1 DEF TypeOK
<1>3. GetsThere(o, b)' <=> GetsThere(o, b)
  BY <1>1, FoundStays
<1>4. /\ Counted(o, b).state = b.state
      /\ Counted(o, b).failures = CASE o = "success" -> 0
                                    [] o = "failure" -> Inc(b.failures)
                                    [] OTHER -> b.failures
      /\ Counted(o, b).successes = CASE o = "success" -> Inc(b.successes)
                                     [] o = "failure" -> 0
                                     [] OTHER -> b.successes
  BY CountedIs
<1> USE DEF Goto, Underway, Is, TypeOK
<1>5. CASE LoadLastChange(t)
  BY <1>1, <1>2, <1>5 DEF LoadLastChange, atomics
<1>6. CASE TestElapsed(t)
  BY <1>1, <1>2, <1>6 DEF TestElapsed, atomics, GetsThere, Resting
<1>7. CASE CompareExchange(t)
  BY <1>1, <1>2, <1>3, <1>4, <1>7 DEF CompareExchange, Target
<1>8. CASE FetchAdd(t)
  BY <1>1, <1>2, <1>4, <1>8 DEF FetchAdd, Count
<1>9. CASE LoadForOutcome(t)
  BY <1>1, <1>2, <1>4, <1>9 DEF LoadForOutcome, atomics, GetsThere, Resting
<1>10. CASE Swap(t)
  BY <1>1, <1>2, <1>3, <1>4, <1>10 DEF Swap, AfterTransition, Target, Resting
<1>11. CASE ReadClock(t)
  BY <1>1, <1>2, <1>3, <1>11 DEF ReadClock, atomics
<1>12. CASE StoreLastChange(t)
  BY <1>1, <1>2, <1>3, <1>12 DEF StoreLastChange, Target
<1>13. CASE ZeroFailures(t)
  BY <1>1, <1>2, <1>3, <1>13 DEF ZeroFailures, Target
<1>14. CASE ZeroSuccesses(t)
  BY <1>1, <1>2, <1>3, <1>14 DEF ZeroSuccesses, AfterTransition, Target, Resting
<1>15. CASE ResetFailures(t)
  BY <1>1, <1>2, <1>3, <1>15 DEF ResetFailures, Target
<1>16. CASE ResetSuccesses(t)
  BY <1>16 DEF ResetSuccesses, Resting
<1>17. CASE Reread(t)
  BY <1>17 DEF Reread
<1> QED
  BY <1>1, <1>5, <1>6, <1>7, <1>8, <1>9, <1>10, <1>11, <1>12, <1>13, <1>14,
     <1>15, <1>16, <1>17 DEF Step, Resting, LoadState, BeginRecord, Drop, Intervene

\* Its last access leaves what the method-level step leaves.
LEMMA CallEnds ==
    ASSUME TypeOK, TypeOK', NEW t \in Threads, Step(t), pc[t] \notin Resting,
           pc'[t] \in Resting, NEW b \in BreakerType, Underway(t, b)
    PROVE  /\ Current' = Effect(op'[t], b)
           /\ op'[t] = "check" => (pc'[t] = "inflight" <=> CanExecute(b, now))
<1>1. now' = now /\ op' = op
  BY CallContinues
<1>2. PICK o \in Ops : o = op[t] /\ o = op'[t]
  BY <1>1 DEF TypeOK
<1>3. PICK r : r = Current'
  OBVIOUS
<1>4. /\ r.state = state' /\ r.failures = failures'
      /\ r.successes = successes' /\ r.since = lastChange'
      /\ r \in [state : States, failures : Nat, successes : Nat, since : Nat]
  <2>1. /\ state' \in States /\ failures' \in Nat /\ successes' \in Nat
        /\ lastChange' \in Nat
    BY BreakerAssumption, ThreadsAssumption DEF TypeOK
  <2> QED
    BY <1>3, <2>1 DEF Current
<1> DEFINE c == Counted(o, b)
           to == Target(o)
           changing == GetsThere(o, b) /\ b.state # to
<1>5. SUFFICES
        /\ state' = IF changing THEN to ELSE b.state
        /\ failures' = IF o = "reset" \/ (changing /\ to # "open") THEN 0
                       ELSE c.failures
        /\ successes' = IF o = "reset" \/ changing THEN 0 ELSE c.successes
        /\ lastChange' = IF changing THEN now ELSE b.since
        /\ o = "check" => (pc'[t] = "inflight" <=> CanExecute(b, now))
  <2> HIDE DEF c, to
  <2>1. ASSUME r.state = IF changing THEN to ELSE b.state,
               r.failures = IF o = "reset" \/ (changing /\ to # "open") THEN 0
                            ELSE c.failures,
               r.successes = IF o = "reset" \/ changing THEN 0 ELSE c.successes,
               r.since = IF changing THEN now ELSE b.since
        PROVE  r = Effect(o, b)
    BY <1>4, <2>1, EffectFields DEF c, to
  <2> QED
    BY <1>2, <1>3, <1>4, <2>1
<1>6. /\ c.state = b.state
      /\ c.failures = CASE o = "success" -> 0
                        [] o = "failure" -> Inc(b.failures)
                        [] OTHER -> b.failures
      /\ c.successes = CASE o = "success" -> Inc(b.successes)
                         [] o = "failure" -> 0
                         [] OTHER -> b.successes
  BY CountedIs
<1>7. CanExecute(b, now) <=> (b.state = "open" => Elapsed(now, b.since))
  BY DEF CanExecute, CheckAndUpdate, TransitionTo
<1> USE DEF Goto, Underway, Is, TypeOK
<1>8. CASE TestElapsed(t)
  BY <1>1, <1>2, <1>6, <1>7, <1>8 DEF TestElapsed, atomics, GetsThere, Resting
<1>9. CASE LoadForOutcome(t)
  BY <1>1, <1>2, <1>6, <1>9 DEF LoadForOutcome, atomics, GetsThere, Resting
<1>10. CASE Swap(t)
  BY <1>1, <1>2, <1>6, <1>10 DEF Swap, AfterTransition, Target, Resting
<1>11. CASE ZeroSuccesses(t)
  BY <1>1, <1>2, <1>6, <1>7, <1>11
     DEF ZeroSuccesses, AfterTransition, Target, Resting, GetsThere
<1>12. CASE ResetSuccesses(t)
  BY <1>1, <1>2, <1>6, <1>12 DEF ResetSuccesses, Target, GetsThere
<1>13. CASE Reread(t)
  BY <1>13 DEF Reread
<1> QED
  BY <1>8, <1>9, <1>10, <1>11, <1>12, <1>13
     DEF Step, Resting, LoadState, LoadLastChange, CompareExchange, BeginRecord,
         FetchAdd, Drop, Intervene, ReadClock, StoreLastChange, ZeroFailures,
         ResetFailures

\* A call of one access is a check of a breaker that is not open.
LEMMA ShortCall ==
    ASSUME TypeOK, NEW t \in Threads, Step(t), pc[t] \in Resting,
           pc'[t] \in Resting, pc[t] # "inflight" \/ pc'[t] # "idle"
    PROVE  /\ Current' = Effect(op'[t], Current)
           /\ op'[t] = "check" => (pc'[t] = "inflight" <=> CanExecute(Current, now))
<1>1. LoadState(t) /\ state # "open"
  BY DEF Step, Resting, LoadState, LoadLastChange, TestElapsed, TypeOK, Goto,
     CompareExchange, Reread, BeginRecord, FetchAdd, LoadForOutcome, Drop, Intervene,
     Swap, ReadClock, StoreLastChange, ZeroFailures, ZeroSuccesses, ResetFailures,
     ResetSuccesses
<1>2. op'[t] = "check" /\ pc'[t] = "inflight" /\ UNCHANGED atomics
  BY <1>1 DEF LoadState, Goto, TypeOK
<1>3. Current' = Current
  BY <1>2 DEF Current, atomics
<1>4. CheckAndUpdate(Current, now) = Current /\ Current.state = state
  BY <1>1 DEF CheckAndUpdate, Current
<1> QED
  BY <1>1, <1>2, <1>3, <1>4 DEF Effect, CanExecute

LEMMA SoloStep ==
    ASSUME TypeOK, SoloInv, NEW t \in Threads, HStep(t)
    PROVE  SoloInv'
<1>1. SUFFICES ASSUME solo' # None
               PROVE  /\ solo'.thread \in Threads
                      /\ solo'.before \in BreakerType
                      /\ \A u \in Threads : u # solo'.thread => pc'[u] \in Resting
                      /\ pc'[solo'.thread] \notin Resting
                           => Underway(solo.thread, solo.before)'
  BY DEF SoloInv
<1>2. Step(t) /\ solo' = SoloAfter(t)
  BY DEF HStep
<1>3. \A u \in Threads : u # t => pc'[u] = pc[u]
  BY <1>2 DEF TypeOK, Step, Goto, LoadState, LoadLastChange, TestElapsed,
     CompareExchange, Reread, BeginRecord, FetchAdd, LoadForOutcome, Drop, Intervene,
     Swap, ReadClock, StoreLastChange, ZeroFailures, ZeroSuccesses, ResetFailures,
     ResetSuccesses
<1>4. CASE pc[t] \in Resting
  <2>1. /\ \A u \in Threads : pc[u] \in Resting
        /\ solo' = [thread |-> t, before |-> Current]
    BY <1>1, <1>2, <1>4 DEF SoloAfter
  <2>2. PICK b \in BreakerType : b = Current
    BY CurrentType
  <2>3. solo'.thread = t /\ solo'.before = b
    BY <2>1, <2>2
  <2>4. pc'[t] \in Resting \/ Underway(t, b)'
    BY <1>2, <1>4, <2>2, CallBegins
  <2>5. Underway(solo.thread, solo.before)' <=> Underway(t, b)'
    BY <2>3 DEF Underway, Is, GetsThere, Counted
  <2> QED
    BY <1>3, <2>1, <2>3, <2>4, <2>5
<1>5. CASE pc[t] \notin Resting
  <2>1. solo' = solo /\ solo.thread = t
    BY <1>1, <1>2, <1>5 DEF SoloAfter, SoloInv
  <2>2. PICK b \in BreakerType : b = solo.before
    BY <1>1, <2>1 DEF SoloInv
  <2>3. /\ \A u \in Threads : u # t => pc[u] \in Resting
        /\ Underway(t, b)
    BY <1>1, <1>5, <2>1, <2>2 DEF SoloInv
  <2>4. pc'[t] \in Resting \/ Underway(t, b)'
    BY <1>2, <1>5, <2>3, CallContinues
  <2>5. solo'.thread = t /\ solo'.before = b
    BY <2>1, <2>2
  <2>6. Underway(solo.thread, solo.before)' <=> Underway(t, b)'
    BY <2>5 DEF Underway, Is, GetsThere, Counted
  <2> QED
    BY <1>3, <2>3, <2>4, <2>5, <2>6
<1> QED
  BY <1>4, <1>5

LEMMA SoloInvariant == HSpec => [](TypeOK /\ SoloInv)
<1>1. HInit => Init /\ SoloInv
  BY DEF HInit, SoloInv
<1>2. [HNext]_hvars => [Next]_vars
  BY DEF HNext, HTick, HStep, Next, hvars
<1>3. TypeOK /\ SoloInv /\ [HNext]_hvars => SoloInv'
  <2> SUFFICES ASSUME TypeOK, SoloInv, [HNext]_hvars PROVE SoloInv'
    OBVIOUS
  <2>1. CASE HTick
    BY <2>1 DEF HTick, SoloInv
  <2>2. ASSUME NEW t \in Threads, HStep(t) PROVE SoloInv'
    BY <2>2, SoloStep
  <2>3. CASE UNCHANGED hvars
    BY <2>3 DEF hvars, vars, atomics, threads, SoloInv, Underway, Is, GetsThere
  <2> QED
    BY <2>1, <2>2, <2>3 DEF HNext
<1>4. HSpec => Spec
  BY <1>1, <1>2, PTL DEF HSpec, Spec
<1> QED
  BY <1>1, <1>3, <1>4, TypeCorrect, PTL DEF HSpec

\* A call that runs alone does what module Breaker says of its method, access
\* by access, and an admission is what CanExecute says: the breaker of the code
\* implements the method-level breaker that the other modules use, as far as
\* calls do not overlap.
THEOREM SoloCallsAreAtomicHolds == HSpec => SoloCallsAreAtomic
<1>1. ASSUME TypeOK, TypeOK', SoloInv, NEW t \in Threads, HStep(t),
             pc'[t] \in Resting, solo' # None, solo'.thread = t,
             pc[t] # "inflight" \/ pc'[t] # "idle"
      PROVE  /\ Current' = Effect(op'[t], solo'.before)
             /\ op'[t] = "check" =>
                  (pc'[t] = "inflight" <=> CanExecute(solo'.before, now))
  <2>1. Step(t) /\ solo' = SoloAfter(t)
    BY <1>1 DEF HStep
  <2>2. CASE pc[t] \in Resting
    <3>1. solo' = [thread |-> t, before |-> Current]
      BY <1>1, <2>1, <2>2 DEF SoloAfter
    <3>2. PICK b : b = Current
      OBVIOUS
    <3>3. solo'.before = b
      BY <3>1, <3>2
    <3>4. /\ Current' = Effect(op'[t], Current)
          /\ op'[t] = "check" => (pc'[t] = "inflight" <=> CanExecute(Current, now))
      BY <1>1, <2>1, <2>2, ShortCall
    <3> QED
      BY <3>2, <3>3, <3>4
  <2>3. CASE pc[t] \notin Resting
    <3>1. solo' = solo
      BY <2>1, <2>3 DEF SoloAfter
    <3>2. PICK b \in BreakerType : b = solo.before
      BY <1>1, <3>1 DEF SoloInv
    <3>3. Underway(t, b)
      BY <1>1, <2>3, <3>1, <3>2 DEF SoloInv
    <3>4. /\ Current' = Effect(op'[t], b)
          /\ op'[t] = "check" => (pc'[t] = "inflight" <=> CanExecute(b, now))
      BY <1>1, <2>1, <2>3, <3>3, CallEnds
    <3> QED
      BY <3>1, <3>2, <3>4
  <2> QED
    BY <2>2, <2>3
<1> DEFINE Done ==
      \A t \in Threads :
         /\ HStep(t)
         /\ pc'[t] \in Resting
         /\ solo' # None
         /\ solo'.thread = t
         /\ pc[t] # "inflight" \/ pc'[t] # "idle"
         => /\ Current' = Effect(op'[t], solo'.before)
            /\ op'[t] = "check" =>
                 (pc'[t] = "inflight" <=> CanExecute(solo'.before, now))
<1>2. TypeOK /\ SoloInv /\ (TypeOK /\ SoloInv)' /\ [HNext]_hvars => [Done]_hvars
  BY <1>1
<1> QED
  BY <1>2, SoloInvariant, PTL DEF HSpec, SoloCallsAreAtomic
----------------------------------------------------------------------------
(* What an open breaker is timed from.                                     *)

\* A time that is not before the opening, as far as the times that could be
\* stored for it go.
Late(x) == \E since \in opened.times : since <= x

\* The timeout is over.
Waited == \E since \in opened.times : now - since >= Timeout

\* The inductive invariant.  The time of the opening, and any that a thread is
\* about to store, is late; so is what is stored once the opening thread has
\* done so, and what a check that is not stale has read.
OpenedInv ==
    state = "open" =>
        /\ opened.by \in Threads
        /\ opened.times \in SUBSET Nat
        /\ Late(now)
        /\ \A u \in Threads : pc[u] = "stamp" => Late(local[u])
        /\ Stamping(opened.by) \/ Late(lastChange)
        /\ \A u \in Threads \ stale : pc[u] = "elapsed" => Late(local[u])
        /\ \A u \in Threads \ stale : pc[u] = "cas" => Waited

\* What a step does to the times, and where it may lead.
Timed(t) ==
    /\ now' = now
    /\ \A u \in Threads : u # t => pc'[u] = pc[u] /\ local'[u] = local[u]
    /\ lastChange' = lastChange \/ (pc[t] = "stamp" /\ lastChange' = local[t])
    /\ pc'[t] = "stamp" => local'[t] = now
    /\ pc'[t] = "elapsed" => pc[t] = "last" /\ local'[t] = lastChange
    /\ pc'[t] = "cas" =>
          pc[t] = "elapsed" /\ local'[t] = local[t] /\ Elapsed(now, local[t])
    /\ Stamping(t) => Stamping(t)' \/ (pc[t] = "stamp" /\ lastChange' = local[t])
    /\ state # "open" /\ state' = "open" => pc'[t] = "clock"

LEMMA StepTimes ==
    ASSUME TypeOK, NEW t \in Threads, Step(t)
    PROVE  Timed(t)
<1> USE DEF TypeOK, Goto, Timed, Stamping, atomics, threads
<1>1. CASE LoadState(t) \/ LoadLastChange(t) \/ TestElapsed(t)
  BY <1>1 DEF LoadState, LoadLastChange, TestElapsed
<1>2. CASE CompareExchange(t) \/ Reread(t)
  BY <1>2 DEF CompareExchange, Reread
<1>3. ASSUME NEW outcome \in {"success", "failure"}, BeginRecord(t, outcome)
      PROVE  Timed(t)
  BY <1>3 DEF BeginRecord
<1>4. CASE FetchAdd(t) \/ LoadForOutcome(t) \/ Drop(t)
  BY <1>4 DEF FetchAdd, LoadForOutcome, Drop
<1>5. ASSUME NEW method \in {"reset", "force_open"}, Intervene(t, method)
      PROVE  Timed(t)
  BY <1>5 DEF Intervene
<1>6. CASE Swap(t)
  BY <1>6 DEF Swap, Target, AfterTransition, Ops
<1>7. CASE ReadClock(t) \/ StoreLastChange(t)
  BY <1>7 DEF ReadClock, StoreLastChange
<1>8. CASE ZeroFailures(t) \/ ZeroSuccesses(t) \/ ResetFailures(t) \/ ResetSuccesses(t)
  BY <1>8 DEF ZeroFailures, ZeroSuccesses, ResetFailures, ResetSuccesses, AfterTransition
<1> QED
  BY <1>1, <1>2, <1>3, <1>4, <1>5, <1>6, <1>7, <1>8 DEF Step

\* A breaker that opens.
LEMMA OpeningStep ==
    ASSUME TypeOK, NEW t \in Threads, HStep(t), state # "open", state' = "open"
    PROVE  OpenedInv'
<1>1. Timed(t)
  BY StepTimes DEF HStep
<1>2. /\ opened'.by = t
      /\ opened'.times = {now} \cup {local[u] : u \in {v \in Threads : pc[v] = "stamp"}}
  BY DEF HStep, OpenedAfter
<1>3. \A u \in Threads : pc'[u] \in {"elapsed", "cas"} => u \in stale'
  BY DEF HStep, StaleAfter
<1>4. /\ now' = now /\ now \in Nat /\ pc'[t] = "clock"
      /\ \A u \in Threads : local[u] \in Nat
      /\ \A u \in Threads : u # t => pc'[u] = pc[u] /\ local'[u] = local[u]
  BY <1>1, ThreadsAssumption DEF Timed, TypeOK
<1>5. opened'.times \in SUBSET Nat /\ now' \in opened'.times
  BY <1>2, <1>4
<1>6. \A u \in Threads : pc'[u] = "stamp" =>
          local'[u] \in opened'.times /\ local'[u] <= local'[u]
  BY <1>2, <1>4
<1>7. now' <= now'
  BY <1>4
<1>8. /\ Late(now)'
      /\ \A u \in Threads : pc'[u] = "stamp" => Late(local[u])'
  BY <1>5, <1>6, <1>7 DEF Late
<1> QED
  BY <1>2, <1>3, <1>4, <1>5, <1>8 DEF OpenedInv, Stamping

\* A step while it is open.
LEMMA OpenStep ==
    ASSUME TypeOK, OpenedInv, NEW t \in Threads, HStep(t), state = "open", state' = "open"
    PROVE  OpenedInv'
<1>1. Timed(t)
  BY StepTimes DEF HStep
<1>2. opened' = opened
  BY DEF HStep, OpenedAfter
<1>3. /\ opened.by \in Threads /\ opened.times \in SUBSET Nat /\ Late(now)
      /\ now' = now /\ now \in Nat /\ \A u \in Threads : local[u] \in Nat
  BY <1>1, ThreadsAssumption DEF OpenedInv, Timed, TypeOK
<1>4. \A x : Late(x)' <=> \E since \in opened.times : since <= x'
  BY <1>2 DEF Late
<1>5. Late(now)' /\ (Waited' <=> Waited)
  BY <1>2, <1>3 DEF Late, Waited
<1>6. \A u \in Threads : pc'[u] = "stamp" => Late(local[u])'
  <2> SUFFICES ASSUME NEW u \in Threads, pc'[u] = "stamp" PROVE Late(local[u])'
    OBVIOUS
  <2>1. CASE u = t
    BY <1>1, <1>2, <1>3, <2>1 DEF Timed, Late
  <2>2. CASE u # t
    BY <1>1, <1>2, <2>2 DEF Timed, Late, OpenedInv
  <2> QED
    BY <2>1, <2>2
<1>7. Stamping(opened.by)' \/ Late(lastChange)'
  <2>1. CASE lastChange' = local[t] /\ pc[t] = "stamp"
    BY <1>2, <2>1 DEF Late, OpenedInv
  <2>2. CASE lastChange' = lastChange /\ Late(lastChange)
    BY <1>2, <2>2 DEF Late
  <2>3. CASE ~ Late(lastChange) /\ ~ (lastChange' = local[t] /\ pc[t] = "stamp")
    <3>1. Stamping(opened.by)
      BY <2>3 DEF OpenedInv
    <3>2. PICK u \in Threads : u = opened.by
      BY <1>3
    <3>3. pc'[u] \in {"clock", "stamp"}
      BY <1>1, <2>3, <3>1, <3>2 DEF Timed, Stamping
    <3> QED
      BY <1>2, <3>2, <3>3 DEF Stamping
  <2> QED
    BY <1>1, <2>1, <2>2, <2>3 DEF Timed
<1>8. \A u \in Threads \ stale' : u # t /\ pc[u] \in {"elapsed", "cas"} => u \notin stale
  BY <1>1 DEF HStep, StaleAfter, Timed
<1>9. \A u \in Threads \ stale' : pc'[u] = "elapsed" => Late(local[u])'
  <2> SUFFICES ASSUME NEW u \in Threads \ stale', pc'[u] = "elapsed" PROVE Late(local[u])'
    OBVIOUS
  <2>1. CASE u = t
    <3>1. pc[t] = "last" /\ local'[t] = lastChange
      BY <1>1, <2>1 DEF Timed
    <3>2. ~ Stamping(opened.by)
      BY <2>1, <3>1 DEF HStep, StaleAfter
    <3> QED
      BY <1>2, <2>1, <3>1, <3>2 DEF OpenedInv, Late
  <2>2. CASE u # t
    BY <1>1, <1>2, <1>8, <2>2 DEF Timed, Late, OpenedInv
  <2> QED
    BY <2>1, <2>2
<1>10. \A u \in Threads \ stale' : pc'[u] = "cas" => Waited
  <2> SUFFICES ASSUME NEW u \in Threads \ stale', pc'[u] = "cas" PROVE Waited
    OBVIOUS
  <2>1. CASE u = t
    <3>1. pc[t] = "elapsed" /\ Elapsed(now, local[t])
      BY <1>1, <2>1 DEF Timed
    <3>2. t \notin stale
      BY <2>1 DEF HStep, StaleAfter
    <3>3. Late(local[t])
      BY <3>1, <3>2 DEF OpenedInv
    <3>4. CASE now >= local[t]
      <4>1. now - local[t] >= Timeout
        BY <3>1, <3>4 DEF Elapsed
      <4>2. PICK since \in opened.times : since <= local[t]
        BY <3>3 DEF Late
      <4>3. since \in Nat /\ Timeout \in Nat
        BY <1>3, BreakerAssumption
      <4>4. now - since >= Timeout
        BY <1>3, <4>1, <4>2, <4>3
      <4> QED
        BY <4>4 DEF Waited
    <3>5. CASE ~ (now >= local[t])
      <4>1. 0 >= Timeout
        BY <3>1, <3>5 DEF Elapsed
      <4>2. PICK since \in opened.times : since <= now
        BY <1>3 DEF Late
      <4>3. since \in Nat /\ Timeout \in Nat
        BY <1>3, BreakerAssumption
      <4>4. now - since >= Timeout
        BY <1>3, <4>1, <4>2, <4>3
      <4> QED
        BY <4>4 DEF Waited
    <3> QED
      BY <3>4, <3>5
  <2>2. CASE u # t
    BY <1>1, <1>8, <2>2 DEF Timed, OpenedInv
  <2> QED
    BY <2>1, <2>2
<1> QED
  BY <1>2, <1>3, <1>5, <1>6, <1>7, <1>9, <1>10 DEF OpenedInv

\* Time only brings the timeout closer.
LEMMA OpenTick ==
    ASSUME TypeOK, OpenedInv, HTick
    PROVE  OpenedInv'
<1>1. /\ UNCHANGED <<state, lastChange, pc, local, opened, stale>>
      /\ now' = now + 1 /\ now \in Nat
  BY ThreadsAssumption DEF HTick, Tick, atomics, threads, TypeOK
<1>2. ASSUME state = "open"
      PROVE  Late(now)' /\ (Waited => Waited')
  <2>1. opened.times \in SUBSET Nat /\ Late(now) /\ Timeout \in Nat
    BY <1>2, BreakerAssumption DEF OpenedInv
  <2> QED
    BY <1>1, <2>1 DEF Late, Waited
<1> QED
  BY <1>1, <1>2 DEF OpenedInv, Late, Stamping

LEMMA OpenedInvariant == HSpec => [](TypeOK /\ OpenedInv)
<1>1. HInit => Init /\ OpenedInv
  BY DEF HInit, Init, OpenedInv
<1>2. [HNext]_hvars => [Next]_vars
  BY DEF HNext, HTick, HStep, Next, hvars
<1>3. TypeOK /\ OpenedInv /\ [HNext]_hvars => OpenedInv'
  <2> SUFFICES ASSUME TypeOK, OpenedInv, [HNext]_hvars PROVE OpenedInv'
    OBVIOUS
  <2>1. CASE HTick
    BY <2>1, OpenTick
  <2>2. ASSUME NEW t \in Threads, HStep(t) PROVE OpenedInv'
    <3>1. CASE state' # "open"
      BY <3>1 DEF OpenedInv
    <3> QED
      BY <2>2, <3>1, OpeningStep, OpenStep
  <2>3. CASE UNCHANGED hvars
    BY <2>3 DEF hvars, vars, atomics, threads, OpenedInv, Late, Waited, Stamping
  <2> QED
    BY <2>1, <2>2, <2>3 DEF HNext
<1>4. HSpec => Spec
  BY <1>1, <1>2, PTL DEF HSpec, Spec
<1> QED
  BY <1>1, <1>3, <1>4, TypeCorrect, PTL DEF HSpec

\* Whatever calls overlap, a check that did not read the time of an open breaker
\* before the opening thread had stored it lets nobody through early.
THEOREM ProbesWaitHolds == HSpec => ProbesWait
<1> DEFINE Wait ==
      \A t \in Threads \ stale :
         pc[t] = "cas" /\ pc'[t] = "clock" =>
             \E since \in opened.times : now - since >= Timeout
<1>1. ASSUME TypeOK, OpenedInv, [HNext]_hvars, NEW t \in Threads \ stale,
             pc[t] = "cas", pc'[t] = "clock"
      PROVE  \E since \in opened.times : now - since >= Timeout
  <2>1. PICK u \in Threads : Step(u)
    BY <1>1 DEF HNext, HTick, Tick, HStep, hvars, vars, threads
  <2>2. u = t
    BY <1>1, <2>1, StepTimes DEF Timed
  <2>3. state = "open"
    BY <1>1, <2>1, <2>2 DEF TypeOK, Step, Goto, LoadState, LoadLastChange, TestElapsed,
       CompareExchange, Reread, BeginRecord, FetchAdd, LoadForOutcome, Drop, Intervene,
       Swap, ReadClock, StoreLastChange, ZeroFailures, ZeroSuccesses, ResetFailures,
       ResetSuccesses
  <2> QED
    BY <1>1, <2>3 DEF OpenedInv, Waited
<1>2. TypeOK /\ OpenedInv /\ [HNext]_hvars => [Wait]_hvars
  BY <1>1
<1> QED
  BY <1>2, OpenedInvariant, PTL DEF HSpec, ProbesWait
=============================================================================
