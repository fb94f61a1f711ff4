--------------------------- MODULE SlidingWindow ---------------------------
(***************************************************************************)
(* What a rate limiter promises its callers: buckets of units (requests,   *)
(* or tokens) that count for a window of time, a caller that asks about    *)
(* one bucket and is let through or denied.  The clocks that stamp a unit  *)
(* may be off by Slack, so a unit surely counts while it is younger than   *)
(* Window - Slack, and surely no more once it is as old as Window + Slack; *)
(* a limiter that cannot tell lets the caller through.                     *)
(*                                                                         *)
(* A request bucket counts a request as it lets it through; a token bucket *)
(* is only looked at, the tokens are recorded later.                       *)
(***************************************************************************)
EXTENDS Integers, FiniteSets

CONSTANTS RpmBuckets, TpmBuckets,
          Limit,           \* [bucket -> its limit]
          Window, Slack,
          Callers,
          None

VARIABLES now,
          used,    \* [bucket -> the units ever counted, each with its time]
          asked,   \* [caller -> the bucket it asks, or last asked, about]
          answer   \* [caller -> "none", "allow", "deny" or "unmetered"]

vars == <<now, used, asked, answer>>
Buckets == RpmBuckets \cup TpmBuckets

Init ==
    /\ now = 0
    /\ used = [b \in Buckets |-> {}]
    /\ asked = [c \in Callers |-> None]
    /\ answer = [c \in Callers |-> "none"]

Younger(b, age) == {u \in used[b] : u.at > now - age}
HasRoom(b) == Cardinality(Younger(b, Window - Slack)) < Limit[b]
IsFull(b) == Cardinality(Younger(b, Window + Slack)) >= Limit[b]

\* Units are counted in b, now.
Counts(b) ==
    /\ used' = [used EXCEPT ![b] = used'[b]]
    /\ used[b] \subseteq used'[b]
    /\ \A u \in used'[b] \ used[b] : u.at = now

Waits(c, b) == asked[c] = b /\ answer[c] = "none"
Answers(c, a) == answer' = [answer EXCEPT ![c] = a] /\ UNCHANGED asked
----------------------------------------------------------------------------
Ask(c, b) ==
    /\ asked' = [asked EXCEPT ![c] = b]
    /\ answer' = [answer EXCEPT ![c] = "none"]
    /\ UNCHANGED <<now, used>>

\* The caller may not learn that it was counted.
Admit(c, b) ==
    /\ Waits(c, b)
    /\ HasRoom(b)
    /\ Counts(b)
    /\ Cardinality(used'[b] \ used[b]) = 1
    /\ Answers(c, "allow") \/ Answers(c, "unmetered")
    /\ UNCHANGED now

Pass(c, b) ==
    /\ Waits(c, b)
    /\ HasRoom(b)
    /\ Answers(c, "allow")
    /\ UNCHANGED <<now, used>>

Deny(c, b) ==
    /\ Waits(c, b)
    /\ IsFull(b)
    /\ Answers(c, "deny")
    /\ UNCHANGED <<now, used>>

CannotTell(c, b) ==
    /\ Waits(c, b)
    /\ Answers(c, "unmetered")
    /\ UNCHANGED <<now, used>>

Record(b) == Counts(b) /\ UNCHANGED <<now, asked, answer>>

Tick ==
    /\ now' = now + 1
    /\ UNCHANGED <<used, asked, answer>>

Next ==
    \/ Tick
    \/ \E c \in Callers :
         \/ \E b \in Buckets : Ask(c, b) \/ Deny(c, b) \/ CannotTell(c, b)
         \/ \E b \in RpmBuckets : Admit(c, b)
         \/ \E b \in TpmBuckets : Pass(c, b)
    \/ \E b \in TpmBuckets : Record(b)

Spec == Init /\ [][Next]_vars
----------------------------------------------------------------------------
\* The hard limit ("RPM: atomic check + increment", core/src/rate_limit.rs:97):
\* no stretch of Window - Slack holds more counted requests than the limit.
HardLimit ==
    \A b \in RpmBuckets : \A u \in used[b] :
        Cardinality({v \in used[b] : v.at >= u.at /\ v.at < u.at + (Window - Slack)})
            <= Limit[b]
=============================================================================
