------------------------- MODULE MC_CircuitBreaker -------------------------
EXTENDS CircuitBreakerHistory, FiniteSetsExt, TLC

\* The threads that only serve requests are interchangeable.
Symmetry == Permutations(Threads \ Operators)

\* The locals a later step may still read.
LiveLocal(t) == IF pc[t] \in {"elapsed", "load", "stamp"} THEN local[t] ELSE 0
LiveOp(t) == IF pc[t] \in Resting THEN "none" ELSE op[t]

\* Who opened the breaker counts until it has stored the time, and of the times
\* the oldest one.
LiveOpened ==
    IF opened = None THEN "none"
    ELSE <<IF Stamping(opened.by) THEN opened.by ELSE "stamped", Min(opened.times)>>

View == <<atomics, now, pc, solo, LiveOpened, stale,
          [t \in Threads |-> <<LiveOp(t), LiveLocal(t)>>]>>

=============================================================================
