----------------------- MODULE MC_MemoryRateLimiter -----------------------
EXTENDS MemoryRateLimiter, TLC

CONSTANTS rpm, tpm   \* a bucket of each map

LimitValue == [b \in Buckets |-> 2]

Symmetry == Permutations(Callers) \cup Permutations(Windows)

\* The times of s in the window that ends now.
Young(s) == SelectSeq(s, LAMBDA at : at > now - WindowLength)

\* Forgets the admissions that are too old to share a window with a later one,
\* and the windows nothing refers to.
View ==
    <<now, entry, mutex, caller,
      IF cleaner.todo = {} THEN cleaner.due ELSE <<cleaner.todo, cleaner.cutoff>>,
      [w \in Windows \ FreeWindows |-> deque[w]],
      [b \in RpmBuckets |-> <<Young(granted[b]), caught[b] - Len(stray[b])>>],
      [b \in TpmBuckets |-> caught[b] = 0]>>
=============================================================================
