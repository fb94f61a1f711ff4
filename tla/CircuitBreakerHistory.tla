----------------------- MODULE CircuitBreakerHistory -----------------------
(***************************************************************************)
(* CircuitBreaker with history variables, which no action of the program   *)
(* reads: the call that has been running alone, if there is one, with the  *)
(* breaker as it found it; and, while the breaker is open, who opened it   *)
(* and which checks judge it by a time from before that.                   *)
(***************************************************************************)
EXTENDS CircuitBreaker

CONSTANT None

VARIABLES
    solo,    \* [thread, before]: the only call that has run, None otherwise
    opened,  \* [by, times]: the thread that opened the breaker that is open,
             \* and the times that were, or could still be, stored as that of
             \* its last change; None if the breaker is not open
    stale    \* the checks in progress that read lastChange too early: before
             \* the thread that opened the breaker has stored its time

hvars == <<vars, solo, opened, stale>>

Current == [state |-> state, failures |-> failures,
            successes |-> successes, since |-> lastChange]

HInit == Init /\ solo = None /\ opened = None /\ stale = {}

\* The history of a step of thread t.  A call begins in a resting state with
\* all others at rest, and stays solo until another one begins.
SoloAfter(t) ==
    IF pc[t] \in Resting
    THEN IF \A u \in Threads : pc[u] \in Resting
         THEN [thread |-> t, before |-> Current]
         ELSE None
    ELSE solo

\* A state has been published, its time has not been stored.
Stamping(t) == pc[t] \in {"clock", "stamp"}

\* A breaker that opens is timed from now, or from a time that another thread
\* has read off the clock before and is about to store.
OpenedAfter(t) ==
    IF state' # "open" THEN None
    ELSE IF state = "open" THEN opened
    ELSE [by |-> t,
          times |-> {now} \cup {local[u] : u \in {v \in Threads : pc[v] = "stamp"}}]

\* Whose check was under way when the breaker opened, or reads the time while
\* the opening thread has yet to store it.
StaleAfter(t) ==
    {u \in Threads :
        /\ state' = "open"
        /\ pc'[u] \in {"elapsed", "cas"}
        /\ \/ state # "open"
           \/ u \in stale
           \/ u = t /\ pc[t] = "last" /\ Stamping(opened.by)}

HStep(t) ==
    /\ Step(t)
    /\ solo' = SoloAfter(t)
    /\ opened' = OpenedAfter(t)
    /\ stale' = StaleAfter(t)

\* A tick ends a solo call, whose effect is stated for one reading of the clock.
HTick ==
    /\ Tick
    /\ solo' = None
    /\ UNCHANGED <<opened, stale>>

HNext == HTick \/ \E t \in Threads : HStep(t)

HSpec == HInit /\ [][HNext]_hvars
----------------------------------------------------------------------------
Effect(o, b) ==
    CASE o = "check"      -> CheckAndUpdate(b, now)
      [] o = "success"    -> RecordSuccess(b, now)
      [] o = "failure"    -> RecordFailure(b, now)
      [] o = "reset"      -> Reset(b, now)
      [] o = "force_open" -> ForceOpen(b, now)

\* A call that runs alone is the one atomic step that module Breaker gives
\* for its method, and an admission is what CanExecute says: the fine-grained
\* code implements the method-level breaker whenever calls do not overlap.
SoloCallsAreAtomic ==
    [][\A t \in Threads :
         /\ HStep(t)
         /\ pc'[t] \in Resting
         /\ solo' # None
         /\ solo'.thread = t
         /\ pc[t] # "inflight" \/ pc'[t] # "idle"  \* not a Drop
         => /\ Current' = Effect(op'[t], solo'.before)
            /\ op'[t] = "check" =>
                 (pc'[t] = "inflight" <=> CanExecute(solo'.before, now))
      ]_hvars

\* An open breaker lets nobody through before its timeout.  The state is
\* published before the time of its change, so a check that reads the time in
\* between, or has read it before, judges by an older one and may cut the
\* opening short.  Nothing else may: whatever calls overlap, any other check
\* finds the breaker timed from its opening, or at worst from a change that
\* another thread had read the clock for and not yet stored by then.
ProbesWait ==
    [][\A t \in Threads \ stale :
         pc[t] = "cas" /\ pc'[t] = "clock" =>
             \E since \in opened.times : now - since >= Timeout
      ]_hvars
=============================================================================
