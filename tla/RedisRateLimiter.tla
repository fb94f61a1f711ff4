-------------------------- MODULE RedisRateLimiter --------------------------
(***************************************************************************)
(* The rate limiter that gateways share through Redis                      *)
(* (server/src/rate_limit_redis.rs).  A bucket is a sorted set with an     *)
(* expiry; a check, or a record, reads the clock of its own machine and    *)
(* sends a script, which Redis runs at one moment, later, or never.        *)
(*                                                                         *)
(* now is the time that the slowest clock shows; the others are ahead of   *)
(* it by up to Skew, and Redis uses its own for the expiry, of which only  *)
(* the rate matters.  A script that is not run within MaxDelay fails.  A   *)
(* TPM member "{uuid}:{n}" is n units with one uuid and one score, so that *)
(* the sum of a set is the number of its units.                            *)
(***************************************************************************)
EXTENDS Integers, FiniteSets

CONSTANTS RpmBuckets, TpmBuckets,  \* the keys of either kind
          Limit,
          Window,    \* window_ms
          Grace,     \* what the expiry adds to the window
          Callers,   \* requests in the gateways
          Ahead,     \* [caller -> how far the clock of its gateway is ahead]
          Skew,
          MaxDelay,  \* assumption: a script runs this soon, or fails
          Tokens,    \* what a response may use
          None,
          MaxTime,   \* bound of the clock
          MaxCalls   \* bound: members added before the last call begins

ASSUME RedisAssumption ==
    /\ RpmBuckets \cap TpmBuckets = {}
    /\ None \notin RpmBuckets \cup TpmBuckets
    /\ Limit \in [RpmBuckets \cup TpmBuckets -> Nat]
    /\ Window \in Nat /\ Grace \in Nat /\ Skew \in Nat /\ MaxDelay \in Nat
    /\ Ahead \in [Callers -> 0..Skew]
    /\ Tokens \subseteq Nat \ {0}
    /\ MaxTime \in Nat /\ MaxCalls \in Nat

VARIABLES now,
          zset,     \* [bucket -> the units in its sorted set]
          expires,  \* [bucket -> when Redis drops it]
          calls,    \* the members added so far: the next uuid
          caller,   \* [caller -> where it is in its call]
          answer    \* [caller -> the last decision: see SlidingWindow]

(* History, read by no action of the program.                              *)
VARIABLE log        \* [bucket -> all units that were ever added to it]

store == <<zset, expires, calls, log>>
vars == <<now, store, caller, answer>>
Buckets == RpmBuckets \cup TpmBuckets

UnitType == [id : Nat, unit : Nat, score : Nat, at : Nat]

\* "owing": let through by a token bucket, the tokens are not recorded yet.
\* "checking", "recording": the clock is read and the script is on its way.
CallerType ==
    [pc : {"idle", "checking", "owing", "recording"}, bucket : Buckets \cup {None},
     stamp : Nat, since : Nat, tokens : Nat]

TypeOK ==
    /\ now \in Nat
    /\ zset \in [Buckets -> SUBSET UnitType]
    /\ log \in [Buckets -> SUBSET UnitType]
    /\ expires \in [Buckets -> Nat]
    /\ calls \in Nat
    /\ caller \in [Callers -> CallerType]
    /\ answer \in [Callers -> {"none", "allow", "deny", "unmetered"}]
    /\ \A c \in Callers :
          /\ caller[c].pc = "checking" => caller[c].bucket \in Buckets /\ answer[c] = "none"
          /\ caller[c].pc \in {"owing", "recording"} => caller[c].bucket \in TpmBuckets
          /\ caller[c].pc \in {"checking", "recording"} =>
                /\ now - MaxDelay <= caller[c].since /\ caller[c].since <= now
                /\ caller[c].stamp = caller[c].since + Ahead[c]

Init ==
    /\ now = 0
    /\ zset = [b \in Buckets |-> {}]
    /\ expires = [b \in Buckets |-> 0]
    /\ calls = 0
    /\ caller = [c \in Callers |-> [pc |-> "idle", bucket |-> None, stamp |-> 0,
                                    since |-> 0, tokens |-> 0]]
    /\ answer = [c \in Callers |-> "none"]
    /\ log = [b \in Buckets |-> {}]
----------------------------------------------------------------------------
\* rpm_key() and tpm_key() are the buckets, now_ms() is the stamp.
Sends(c, pc, b, tokens) ==
    caller' = [caller EXCEPT ![c] =
        [pc |-> pc, bucket |-> b, stamp |-> now + Ahead[c], since |-> now,
         tokens |-> tokens]]

Returns(c, pc) == caller' = [caller EXCEPT ![c].pc = pc]

BeginCheck(c, b) ==
    /\ caller[c].pc = "idle"
    /\ calls < MaxCalls
    /\ Sends(c, "checking", b, 0)
    /\ answer' = [answer EXCEPT ![c] = "none"]
    /\ UNCHANGED <<now, store>>

\* What Redis finds under a key: nothing once it has expired.
Stored(b) == IF now < expires[b] THEN zset[b] ELSE {}

\* Mutant: the bound of the range is exclusive.
KeptLonger(b, stamp) == {u \in Stored(b) : u.score >= stamp - Window}

\* ZREMRANGEBYSCORE 0 (stamp - window).
Kept(b, stamp) == {u \in Stored(b) : u.score > stamp - Window}

\* ZADD, PEXPIRE.
Adds(b, units, score, n) ==
    LET new == {[id |-> calls, unit |-> i, score |-> score, at |-> now] : i \in 1..n}
    IN  /\ zset' = [zset EXCEPT ![b] = units \cup new]
        /\ expires' = [expires EXCEPT ![b] = now + Window + Grace]
        /\ calls' = calls + 1
        /\ log' = [log EXCEPT ![b] = @ \cup new]

Decides(c, decision, lost) ==
    answer' = [answer EXCEPT ![c] = IF lost THEN "unmetered" ELSE decision]

\* Mutant: > for >= in the script.
RunRpmOver(c, lost) ==
    LET b == caller[c].bucket
        kept == Kept(b, caller[c].stamp)
    IN  /\ caller[c].pc = "checking"
        /\ b \in RpmBuckets
        /\ IF Cardinality(kept) > Limit[b]
           THEN /\ zset' = [zset EXCEPT ![b] = kept]
                /\ UNCHANGED <<expires, calls, log>>
                /\ Decides(c, "deny", lost)
           ELSE /\ Adds(b, kept, caller[c].stamp, 1)
                /\ Decides(c, "allow", lost)
        /\ Returns(c, "idle")
        /\ UNCHANGED now

\* RPM_SCRIPT.  When the reply is lost the caller is let through.
RunRpm(c, lost) ==
    LET b == caller[c].bucket
        kept == Kept(b, caller[c].stamp)
    IN  /\ caller[c].pc = "checking"
        /\ b \in RpmBuckets
        /\ IF Cardinality(kept) >= Limit[b]
           THEN /\ zset' = [zset EXCEPT ![b] = kept]
                /\ UNCHANGED <<expires, calls, log>>
                /\ Decides(c, "deny", lost)
           ELSE /\ Adds(b, kept, caller[c].stamp, 1)
                /\ Decides(c, "allow", lost)
        /\ Returns(c, "idle")
        /\ UNCHANGED now

\* TPM_CHECK_SCRIPT, and the comparison in check_tpm().
RunTpmCheck(c, lost) ==
    LET b == caller[c].bucket
        kept == Kept(b, caller[c].stamp)
        full == Cardinality(kept) >= Limit[b]
    IN  /\ caller[c].pc = "checking"
        /\ b \in TpmBuckets
        /\ zset' = [zset EXCEPT ![b] = kept]
        /\ Decides(c, IF full THEN "deny" ELSE "allow", lost)
        /\ Returns(c, IF full /\ ~lost THEN "idle" ELSE "owing")
        /\ UNCHANGED <<now, expires, calls, log>>

\* record_tokens() with tokens > 0 (with 0 it returns at once: Abandon).
BeginRecord(c, tokens) ==
    /\ caller[c].pc = "owing"
    /\ Sends(c, "recording", caller[c].bucket, tokens)
    /\ UNCHANGED <<now, store, answer>>

\* The response failed, or used no tokens.
Abandon(c) ==
    /\ caller[c].pc = "owing"
    /\ Returns(c, "idle")
    /\ UNCHANGED <<now, store, answer>>

\* TPM_RECORD_SCRIPT.
RunTpmRecord(c) ==
    LET b == caller[c].bucket
    IN  /\ caller[c].pc = "recording"
        /\ Adds(b, Stored(b), caller[c].stamp, caller[c].tokens)
        /\ Returns(c, "idle")
        /\ UNCHANGED <<now, answer>>

\* Mutant: whoever could not be checked owes tokens.
FailsOwing(c) ==
    /\ \/ /\ caller[c].pc = "checking"
          /\ answer' = [answer EXCEPT ![c] = "unmetered"]
          /\ Returns(c, "owing")
       \/ /\ caller[c].pc = "recording"
          /\ UNCHANGED answer
          /\ Returns(c, "idle")
    /\ UNCHANGED <<now, store>>

\* The script is not run: a check lets the caller through, tokens are lost.
Fails(c) ==
    /\ \/ /\ caller[c].pc = "checking"
          /\ answer' = [answer EXCEPT ![c] = "unmetered"]
          /\ Returns(c, IF caller[c].bucket \in TpmBuckets THEN "owing" ELSE "idle")
       \/ /\ caller[c].pc = "recording"
          /\ UNCHANGED answer
          /\ Returns(c, "idle")
    /\ UNCHANGED <<now, store>>

Tick ==
    /\ now < MaxTime
    /\ \A c \in Callers : caller[c].pc \in {"checking", "recording"} =>
           now < caller[c].since + MaxDelay
    /\ now' = now + 1
    /\ UNCHANGED <<store, caller, answer>>

Next ==
    \/ Tick
    \/ \E c \in Callers :
         \/ \E b \in Buckets : BeginCheck(c, b)
         \/ \E lost \in BOOLEAN : RunRpm(c, lost) \/ RunTpmCheck(c, lost)
         \/ \E n \in Tokens : BeginRecord(c, n)
         \/ Abandon(c)
         \/ RunTpmRecord(c)
         \/ Fails(c)

Spec == Init /\ [][Next]_vars
----------------------------------------------------------------------------
\* Two stamps of one moment differ by at most this.
Slack == Skew + MaxDelay

Promise == INSTANCE SlidingWindow WITH
    used <- log,
    asked <- [c \in Callers |-> caller[c].bucket]

\* The gateways together keep the promise of one limiter ("for accurate
\* cross-pod enforcement, use Redis", README.md:540), whatever the order in
\* which scripts arrive, however clocks differ, and whichever replies are lost.
KeepsPromise == Promise!Spec

\* So the hard limit is hard: what the scripts of all gateways have let through
\* in any stretch of the window, less the slack, is no more than the limit.
HardLimit == Promise!HardLimit
=============================================================================
