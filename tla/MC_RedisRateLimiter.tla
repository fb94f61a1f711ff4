------------------------ MODULE MC_RedisRateLimiter ------------------------
EXTENDS RedisRateLimiter, TLC

CONSTANTS rpm, tpm,   \* a key of either kind
          c1, c2      \* requests in two gateways

LimitValue == [b \in Buckets |-> IF b = tpm THEN 2 ELSE 1]
AheadValue == [c \in Callers |-> IF c = c2 THEN 1 ELSE 0]

\* Forgets uuids, the units that are too old to matter to anybody, decisions,
\* and the locals of a call that is over.
Alike(S) ==
    LET key(u) == <<u.at, u.score>>
        young == {u \in S : u.at > now - Window - Slack}
    IN  [k \in {key(u) : u \in young} |-> Cardinality({u \in young : key(u) = k})]

View ==
    <<now, calls,
      [c \in Callers |-> IF caller[c].pc \in {"idle", "owing"} THEN caller[c].pc
                         ELSE caller[c]],
      [b \in Buckets |-> <<Alike(log[b]), Alike(Stored(b)),
                           IF Stored(b) = {} THEN 0 ELSE expires[b]>>]>>
=============================================================================
