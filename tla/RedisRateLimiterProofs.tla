----------------------- MODULE RedisRateLimiterProofs -----------------------
(***************************************************************************)
(* Gateways that share a limiter in Redis keep the promise of one sliding  *)
(* window, for any number of them, any limits, windows and clocks.         *)
(*                                                                         *)
(* The script of a call sees what is stored, the promise speaks of all     *)
(* that was ever counted.  The link is Faithful: what is no longer stored  *)
(* is too old to count for anybody, by whichever clock it was stamped and  *)
(* by whichever it was thrown out.                                         *)
(***************************************************************************)
EXTENDS RedisRateLimiter, FiniteSetTheorems, TLAPS

\* The units that one script adds.
NewUnits(score, n) ==
    {[id |-> calls, unit |-> i, score |-> score, at |-> now] : i \in 1..n}

\* A stamp is taken at most MaxDelay before, and at most Skew ahead.
Stamps(c) == caller[c].pc \in {"checking", "recording"}

LEMMA StampIsNear ==
    ASSUME TypeOK, NEW c \in Callers, Stamps(c)
    PROVE  /\ now \in Nat
           /\ caller[c].stamp \in Nat
           /\ now - MaxDelay <= caller[c].stamp
           /\ caller[c].stamp <= now + Skew
           /\ caller[c].bucket \in Buckets
<1>1. /\ now \in Nat
      /\ caller[c] \in CallerType
      /\ now - MaxDelay <= caller[c].since /\ caller[c].since <= now
      /\ caller[c].stamp = caller[c].since + Ahead[c]
      /\ caller[c].bucket \in Buckets
  BY DEF TypeOK, Stamps, Buckets
<1>2. caller[c].since \in Nat /\ caller[c].stamp \in Nat
  BY <1>1 DEF CallerType
<1>3. Ahead[c] \in Nat /\ Ahead[c] <= Skew /\ Skew \in Nat /\ MaxDelay \in Nat
  BY RedisAssumption
<1> QED
  BY <1>1, <1>2, <1>3

LEMMA StoredIsSet ==
    ASSUME NEW b \in Buckets
    PROVE  Stored(b) \subseteq zset[b]
  BY DEF Stored

\* What a script adds are units of the present moment.
LEMMA NewUnitsType ==
    ASSUME TypeOK, NEW score \in Nat, NEW n \in Nat
    PROVE  /\ NewUnits(score, n) \subseteq UnitType
           /\ \A u \in NewUnits(score, n) :
                 u.id = calls /\ u.at = now /\ u.score = score
           /\ IsFiniteSet(NewUnits(score, n))
<1>1. now \in Nat /\ calls \in Nat
  BY DEF TypeOK
<1>2. ASSUME NEW u \in NewUnits(score, n)
      PROVE  u \in UnitType /\ u.id = calls /\ u.at = now /\ u.score = score
  BY <1>1, <1>2 DEF NewUnits, UnitType
<1>3. IsFiniteSet(NewUnits(score, n))
  <2> DEFINE unit(i) == [id |-> calls, unit |-> i, score |-> score, at |-> now]
             f == [i \in 1..n |-> unit(i)]
  <2>1. f \in Surjection(1..n, NewUnits(score, n))
    BY DEF Surjection, NewUnits
  <2>2. IsFiniteSet(1..n)
    BY FS_Interval
  <2> QED
    BY <2>1, <2>2, FS_Surjection
<1> QED
  BY <1>2, <1>3

\* The store after a script has added to b.
LEMMA AddsType ==
    ASSUME TypeOK, NEW b \in Buckets, NEW units, units \subseteq zset[b],
           NEW score \in Nat, NEW n \in Nat, Adds(b, units, score, n)
    PROVE  /\ zset' \in [Buckets -> SUBSET UnitType]
           /\ log' \in [Buckets -> SUBSET UnitType]
           /\ expires' \in [Buckets -> Nat]
           /\ calls' \in Nat
<1>1. NewUnits(score, n) \subseteq UnitType
  BY NewUnitsType
<1>2. /\ zset' = [zset EXCEPT ![b] = units \cup NewUnits(score, n)]
      /\ log' = [log EXCEPT ![b] = @ \cup NewUnits(score, n)]
      /\ expires' = [expires EXCEPT ![b] = now + Window + Grace]
      /\ calls' = calls + 1
  BY DEF Adds, NewUnits
<1>3. units \subseteq UnitType
  BY DEF TypeOK
<1>4. now + Window + Grace \in Nat
  BY RedisAssumption DEF TypeOK
<1> QED
  BY <1>1, <1>2, <1>3, <1>4 DEF TypeOK
----------------------------------------------------------------------------
StoreOK ==
    /\ zset \in [Buckets -> SUBSET UnitType]
    /\ log \in [Buckets -> SUBSET UnitType]
    /\ expires \in [Buckets -> Nat]
    /\ calls \in Nat

CallerOK(c) ==
    /\ caller[c].pc = "checking" => caller[c].bucket \in Buckets /\ answer[c] = "none"
    /\ caller[c].pc \in {"owing", "recording"} => caller[c].bucket \in TpmBuckets
    /\ caller[c].pc \in {"checking", "recording"} =>
          /\ now - MaxDelay <= caller[c].since /\ caller[c].since <= now
          /\ caller[c].stamp = caller[c].since + Ahead[c]

CallersOK ==
    /\ now \in Nat
    /\ caller \in [Callers -> CallerType]
    /\ answer \in [Callers -> {"none", "allow", "deny", "unmetered"}]
    /\ \A c \in Callers : CallerOK(c)

LEMMA TypeParts == TypeOK <=> StoreOK /\ CallersOK
  BY DEF TypeOK, StoreOK, CallersOK, CallerOK

\* A call ends, or goes on to owe tokens: no stamp is left.
LEMMA ReturnsType ==
    ASSUME TypeOK, NEW c \in Callers, NEW pc \in {"idle", "owing"},
           pc = "owing" => caller[c].bucket \in TpmBuckets,
           Returns(c, pc), UNCHANGED now,
           NEW a \in {"none", "allow", "deny", "unmetered"},
           answer' = [answer EXCEPT ![c] = a]
    PROVE  CallersOK'
<1>1. now \in Nat /\ now' = now /\ caller \in [Callers -> CallerType]
      /\ answer \in [Callers -> {"none", "allow", "deny", "unmetered"}]
  BY DEF TypeOK
<1>2. caller' \in [Callers -> CallerType]
  <2>1. [caller[c] EXCEPT !.pc = pc] \in CallerType
    BY <1>1 DEF CallerType
  <2> QED
    BY <1>1, <2>1 DEF Returns
<1>3. answer' \in [Callers -> {"none", "allow", "deny", "unmetered"}]
  BY <1>1
<1>4. ASSUME NEW d \in Callers
      PROVE  CallerOK(d)'
  <2>1. CASE d = c
    <3>1. caller'[c].pc = pc /\ caller'[c].bucket = caller[c].bucket
      BY <1>1 DEF Returns, CallerType
    <3> QED
      BY <2>1, <3>1 DEF CallerOK
  <2>2. CASE d # c
    <3>1. caller'[d] = caller[d] /\ answer'[d] = answer[d]
      BY <1>1, <2>2 DEF Returns
    <3> QED
      BY <1>1, <3>1, TypeParts DEF CallersOK, CallerOK
  <2> QED
    BY <2>1, <2>2
<1> QED
  BY <1>1, <1>2, <1>3, <1>4 DEF CallersOK

\* A call that sends a script has just stamped it.
LEMMA SendsType ==
    ASSUME TypeOK, NEW c \in Callers, NEW pc \in {"checking", "recording"},
           NEW b \in Buckets, NEW n \in Nat, Sends(c, pc, b, n), UNCHANGED now,
           pc = "checking" => answer' = [answer EXCEPT ![c] = "none"],
           pc = "recording" => b \in TpmBuckets /\ UNCHANGED answer
    PROVE  CallersOK'
<1> DEFINE sent == [pc |-> pc, bucket |-> b, stamp |-> now + Ahead[c], since |-> now,
                    tokens |-> n]
<1>1. now \in Nat /\ now' = now /\ caller \in [Callers -> CallerType]
      /\ answer \in [Callers -> {"none", "allow", "deny", "unmetered"}]
  BY DEF TypeOK
<1>2. Ahead[c] \in Nat /\ MaxDelay \in Nat
  BY RedisAssumption
<1>3. sent \in CallerType
  BY <1>1, <1>2 DEF CallerType
<1>4. caller' = [caller EXCEPT ![c] = sent]
  BY DEF Sends
<1>5. caller' \in [Callers -> CallerType]
  BY <1>1, <1>3, <1>4
<1>6. answer' \in [Callers -> {"none", "allow", "deny", "unmetered"}]
  BY <1>1
<1>7. ASSUME NEW d \in Callers
      PROVE  CallerOK(d)'
  <2>1. CASE d = c
    <3>1. caller'[c] = sent
      BY <1>1, <1>4
    <3>2. pc = "checking" => answer'[c] = "none"
      BY <1>1
    <3> QED
      BY <1>1, <1>2, <2>1, <3>1, <3>2 DEF CallerOK
  <2>2. CASE d # c
    <3>1. caller'[d] = caller[d] /\ answer'[d] = answer[d]
      BY <1>1, <1>4, <2>2
    <3> QED
      BY <1>1, <3>1, TypeParts DEF CallersOK, CallerOK
  <2> QED
    BY <2>1, <2>2
<1> QED
  BY <1>1, <1>5, <1>6, <1>7 DEF CallersOK

LEMMA StoreUnchanged ==
    ASSUME TypeOK, UNCHANGED store
    PROVE  StoreOK'
  BY DEF TypeOK, StoreOK, store

\* What a decision leaves as the answer.
LEMMA DecidesType ==
    ASSUME NEW c \in Callers, NEW decision \in {"allow", "deny"},
           NEW lost \in BOOLEAN, Decides(c, decision, lost)
    PROVE  \E a \in {"allow", "deny", "unmetered"} : answer' = [answer EXCEPT ![c] = a]
  BY DEF Decides

LEMMA KeptIsSet ==
    ASSUME NEW b \in Buckets, NEW stamp
    PROVE  Kept(b, stamp) \subseteq zset[b] /\ Kept(b, stamp) \subseteq Stored(b)
  BY DEF Kept, Stored

LEMMA RunRpmType ==
    ASSUME TypeOK, NEW c \in Callers, NEW lost \in BOOLEAN, RunRpm(c, lost)
    PROVE  TypeOK'
<1> DEFINE b == caller[c].bucket
           stamp == caller[c].stamp
<1>1. b \in Buckets /\ stamp \in Nat
  BY StampIsNear DEF RunRpm, Stamps
<1>2. Kept(b, stamp) \subseteq zset[b]
  BY <1>1, KeptIsSet
<1>3. StoreOK'
  <2>1. CASE Cardinality(Kept(b, stamp)) >= Limit[b]
    BY <1>1, <1>2, <2>1 DEF RunRpm, TypeOK, StoreOK
  <2>2. CASE ~(Cardinality(Kept(b, stamp)) >= Limit[b])
    <3>1. Adds(b, Kept(b, stamp), stamp, 1)
      BY <2>2 DEF RunRpm
    <3> QED
      BY <1>1, <1>2, <3>1, AddsType DEF StoreOK
  <2> QED
    BY <2>1, <2>2
<1>4. \E a \in {"allow", "deny", "unmetered"} : answer' = [answer EXCEPT ![c] = a]
  BY DecidesType DEF RunRpm
<1>5. Returns(c, "idle") /\ UNCHANGED now
  BY DEF RunRpm
<1>6. CallersOK'
  BY <1>4, <1>5, ReturnsType
<1> QED
  BY <1>3, <1>6, TypeParts DEF TypeOK, StoreOK, CallersOK, CallerOK

LEMMA RunTpmCheckType ==
    ASSUME TypeOK, NEW c \in Callers, NEW lost \in BOOLEAN, RunTpmCheck(c, lost)
    PROVE  TypeOK'
<1> DEFINE b == caller[c].bucket
           stamp == caller[c].stamp
           full == Cardinality(Kept(b, stamp)) >= Limit[b]
           pc == IF full /\ ~lost THEN "idle" ELSE "owing"
<1>1. b \in TpmBuckets /\ b \in Buckets
  BY DEF RunTpmCheck, Buckets
<1>2. Kept(b, stamp) \subseteq zset[b]
  BY <1>1, KeptIsSet
<1>3. StoreOK'
  BY <1>1, <1>2 DEF RunTpmCheck, TypeOK, StoreOK
<1>4. Decides(c, IF full THEN "deny" ELSE "allow", lost) /\ Returns(c, pc) /\ UNCHANGED now
  BY DEF RunTpmCheck
<1>5. \E a \in {"allow", "deny", "unmetered"} : answer' = [answer EXCEPT ![c] = a]
  BY <1>4 DEF Decides
<1>6. CallersOK'
  <2>1. pc \in {"idle", "owing"}
    OBVIOUS
  <2> HIDE DEF pc, b
  <2> QED
    BY <1>1, <1>4, <1>5, <2>1, ReturnsType DEF b
<1> QED
  BY <1>3, <1>6 DEF TypeOK, StoreOK, CallersOK, CallerOK

LEMMA RunTpmRecordType ==
    ASSUME TypeOK, NEW c \in Callers, RunTpmRecord(c)
    PROVE  TypeOK'
<1> DEFINE b == caller[c].bucket
           stamp == caller[c].stamp
           n == caller[c].tokens
<1>1. b \in Buckets /\ stamp \in Nat
  BY StampIsNear DEF RunTpmRecord, Stamps
<1>2. n \in Nat
  BY DEF TypeOK, CallerType
<1>3. Stored(b) \subseteq zset[b]
  BY <1>1, StoredIsSet
<1>4. Adds(b, Stored(b), stamp, n) /\ Returns(c, "idle") /\ UNCHANGED <<now, answer>>
  BY DEF RunTpmRecord
<1>5. StoreOK'
  BY <1>1, <1>2, <1>3, <1>4, AddsType DEF StoreOK
<1>6. answer[c] \in {"none", "allow", "deny", "unmetered"}
      /\ answer' = [answer EXCEPT ![c] = answer[c]]
  BY <1>4 DEF TypeOK
<1>7. CallersOK'
  BY <1>4, <1>6, ReturnsType
<1> QED
  BY <1>5, <1>7 DEF TypeOK, StoreOK, CallersOK, CallerOK

LEMMA TickType ==
    ASSUME TypeOK, Tick
    PROVE  TypeOK'
<1>1. now \in Nat /\ now' = now + 1 /\ MaxDelay \in Nat
  BY RedisAssumption DEF TypeOK, Tick
<1>2. UNCHANGED store /\ UNCHANGED caller /\ UNCHANGED answer
  BY DEF Tick
<1>3. ASSUME NEW c \in Callers
      PROVE  CallerOK(c)'
  <2>1. CallerOK(c)
    BY TypeParts DEF CallersOK
  <2>2. CASE caller[c].pc \in {"checking", "recording"}
    <3>1. now < caller[c].since + MaxDelay /\ caller[c].since <= now
      BY <2>1, <2>2 DEF Tick, CallerOK
    <3>2. caller[c].since \in Nat
      BY DEF TypeOK, CallerType
    <3> QED
      BY <1>1, <1>2, <2>1, <3>1, <3>2 DEF CallerOK
  <2>3. CASE caller[c].pc \notin {"checking", "recording"}
    BY <1>2, <2>1, <2>3 DEF CallerOK
  <2> QED
    BY <2>2, <2>3
<1>4. CallersOK'
  BY <1>1, <1>2, <1>3 DEF CallersOK, TypeOK
<1> QED
  BY <1>2, <1>4, StoreUnchanged DEF TypeOK, StoreOK, CallersOK, CallerOK

LEMMA FailsType ==
    ASSUME TypeOK, NEW c \in Callers, Fails(c)
    PROVE  TypeOK'
<1>1. UNCHANGED store /\ UNCHANGED now
  BY DEF Fails
<1>2. CASE caller[c].pc = "checking" /\ answer' = [answer EXCEPT ![c] = "unmetered"]
           /\ Returns(c, IF caller[c].bucket \in TpmBuckets THEN "owing" ELSE "idle")
  <2> DEFINE pc == IF caller[c].bucket \in TpmBuckets THEN "owing" ELSE "idle"
  <2>1. pc \in {"idle", "owing"} /\ (pc = "owing" => caller[c].bucket \in TpmBuckets)
    OBVIOUS
  <2> HIDE DEF pc
  <2>2. Returns(c, pc)
    BY <1>2 DEF pc
  <2> QED
    BY <1>1, <1>2, <2>1, <2>2, ReturnsType, StoreUnchanged
    DEF TypeOK, StoreOK, CallersOK, CallerOK
<1>3. CASE caller[c].pc = "recording" /\ UNCHANGED answer /\ Returns(c, "idle")
  <2>1. answer[c] \in {"none", "allow", "deny", "unmetered"}
        /\ answer' = [answer EXCEPT ![c] = answer[c]]
    BY <1>3 DEF TypeOK
  <2> QED
    BY <1>1, <1>3, <2>1, ReturnsType, StoreUnchanged
    DEF TypeOK, StoreOK, CallersOK, CallerOK
<1> QED
  BY <1>2, <1>3 DEF Fails

LEMMA AbandonType ==
    ASSUME TypeOK, NEW c \in Callers, Abandon(c)
    PROVE  TypeOK'
<1>1. UNCHANGED store /\ UNCHANGED now /\ UNCHANGED answer /\ Returns(c, "idle")
  BY DEF Abandon
<1>2. answer[c] \in {"none", "allow", "deny", "unmetered"}
      /\ answer' = [answer EXCEPT ![c] = answer[c]]
  BY <1>1 DEF TypeOK
<1> QED
  BY <1>1, <1>2, ReturnsType, StoreUnchanged DEF TypeOK, StoreOK, CallersOK, CallerOK

LEMMA TypeStep ==
    ASSUME TypeOK, [Next]_vars
    PROVE  TypeOK'
<1>1. ASSUME NEW c \in Callers, NEW b \in Buckets, BeginCheck(c, b)
      PROVE  TypeOK'
  BY <1>1, SendsType, StoreUnchanged
  DEF BeginCheck, TypeOK, StoreOK, CallersOK, CallerOK
<1>2. ASSUME NEW c \in Callers, NEW n \in Tokens, BeginRecord(c, n)
      PROVE  TypeOK'
  <2>1. caller[c].bucket \in TpmBuckets /\ caller[c].bucket \in Buckets /\ n \in Nat
    BY <1>2, RedisAssumption DEF BeginRecord, TypeOK, Buckets
  <2> QED
    BY <1>2, <2>1, SendsType, StoreUnchanged
    DEF BeginRecord, TypeOK, StoreOK, CallersOK, CallerOK
<1>3. CASE UNCHANGED vars
  BY <1>3 DEF vars, store, TypeOK
<1> QED
  BY <1>1, <1>2, <1>3, TickType, RunRpmType, RunTpmCheckType, RunTpmRecordType,
     FailsType, AbandonType
  DEF Next

LEMMA TypeInit == Init => TypeOK
  BY RedisAssumption DEF Init, TypeOK, CallerType, Buckets

\* For any gateways, buckets, limits and clocks, the limiter's state is well
\* typed; a script on its way was stamped at most MaxDelay ago.
THEOREM TypeCorrect == Spec => []TypeOK
  BY TypeInit, TypeStep, PTL DEF Spec
----------------------------------------------------------------------------
\* Old enough to count for nobody.
IsOld(u) == u.at <= now - (Window - Slack)

\* What is stored was counted; what was counted is stored or is old; and what
\* is stored becomes old before Redis drops its key.
Faithful(b) ==
    /\ zset[b] \subseteq log[b]
    /\ IsFiniteSet(log[b])
    /\ \A u \in log[b] : /\ u.id < calls
                         /\ u.at <= now
                         /\ u.score - Skew <= u.at /\ u.at <= u.score + MaxDelay
    /\ \A u \in log[b] : u \in Stored(b) \/ IsOld(u)
    /\ \A u \in zset[b] : u.at + Window + Grace <= expires[b]

Inv == TypeOK /\ \A b \in Buckets : Faithful(b)

LEMMA Constants ==
    /\ Window \in Nat /\ Grace \in Nat /\ Skew \in Nat /\ MaxDelay \in Nat
    /\ Slack \in Nat /\ Slack = Skew + MaxDelay
  BY RedisAssumption DEF Slack

LEMMA LogElements ==
    ASSUME TypeOK, NEW b \in Buckets, NEW u \in log[b]
    PROVE  u.id \in Nat /\ u.score \in Nat /\ u.at \in Nat
<1>1. u \in UnitType
  BY DEF TypeOK
<1> QED
  BY <1>1 DEF UnitType

\* What a check throws out is old, though the check may be stamped by a clock
\* that is ahead, and the unit by one that was slow.
LEMMA EvictedIsOld ==
    ASSUME Inv, NEW c \in Callers, Stamps(c), NEW b \in Buckets,
           NEW u \in log[b], u \notin Kept(b, caller[c].stamp)
    PROVE  IsOld(u)
<1>1. u.score \in Nat /\ u.at \in Nat /\ now \in Nat
  BY LogElements DEF Inv, TypeOK
<1>2. u.at <= u.score + MaxDelay
  BY DEF Inv, Faithful
<1>3. caller[c].stamp \in Nat /\ caller[c].stamp <= now + Skew
  BY StampIsNear DEF Inv
<1>4. CASE u \in Stored(b)
  <2>1. u.score <= caller[c].stamp - Window
    BY <1>1, <1>3, <1>4, Constants DEF Kept
  <2> QED
    BY <1>1, <1>2, <1>3, <2>1, Constants DEF IsOld
<1>5. CASE u \notin Stored(b)
  BY <1>5 DEF Inv, Faithful
<1> QED
  BY <1>4, <1>5

\* What a check keeps may still count.
LEMMA KeptIsYoung ==
    ASSUME Inv, NEW c \in Callers, Stamps(c), NEW b \in Buckets,
           NEW u \in Kept(b, caller[c].stamp)
    PROVE  u \in log[b] /\ u.at > now - (Window + Slack)
<1>1. u \in log[b]
  BY KeptIsSet DEF Inv, Faithful
<1>2. u.score \in Nat /\ u.at \in Nat /\ now \in Nat
  BY <1>1, LogElements DEF Inv, TypeOK
<1>3. u.score - Skew <= u.at
  BY <1>1 DEF Inv, Faithful
<1>4. caller[c].stamp \in Nat /\ now - MaxDelay <= caller[c].stamp
  BY StampIsNear DEF Inv
<1>5. u.score > caller[c].stamp - Window
  BY DEF Kept
<1> QED
  BY <1>1, <1>2, <1>3, <1>4, <1>5, Constants

LEMMA BucketUntouched ==
    ASSUME NEW b \in Buckets, Faithful(b), UNCHANGED now,
           UNCHANGED <<zset[b], log[b], expires[b]>>,
           calls \in Nat, calls' \in Nat, calls <= calls',
           \A u \in log[b] : u.id \in Nat
    PROVE  Faithful(b)'
  BY DEF Faithful, Stored, IsOld

\* A check that adds nothing.
LEMMA FaithfulKept ==
    ASSUME Inv, NEW c \in Callers, Stamps(c), NEW b \in Buckets,
           zset' = [zset EXCEPT ![b] = Kept(b, caller[c].stamp)],
           UNCHANGED <<now, expires, calls, log>>
    PROVE  \A d \in Buckets : Faithful(d)'
<1> TAKE d \in Buckets
<1>1. TypeOK /\ Faithful(d) /\ calls \in Nat
  BY DEF Inv, TypeOK
<1>2. CASE d # b
  <2>1. zset'[d] = zset[d]
    BY <1>1, <1>2 DEF TypeOK
  <2>2. \A u \in log[d] : u.id \in Nat
    BY <1>1, LogElements
  <2> QED
    BY <1>1, <2>1, <2>2, BucketUntouched
<1>3. CASE d = b
  <2> DEFINE kept == Kept(b, caller[c].stamp)
  <2>1. zset'[b] = kept /\ kept \subseteq Stored(b) /\ kept \subseteq zset[b]
    BY <1>1, KeptIsSet DEF TypeOK
  <2>2. \A u \in log[b] : u \in kept \/ IsOld(u)
    BY EvictedIsOld
  <2>3. kept # {} => Stored(b)' = kept
    BY <2>1 DEF Stored
  <2>4. \A u \in log'[b] : u \in Stored(b)' \/ IsOld(u)'
    BY <2>1, <2>2, <2>3 DEF IsOld
  <2> HIDE DEF kept
  <2> QED
    BY <1>1, <1>3, <2>1, <2>4 DEF Faithful
<1> QED
  BY <1>2, <1>3

\* A script that adds to what it keeps, or to all there is.
LEMMA FaithfulAdds ==
    ASSUME Inv, NEW c \in Callers, Stamps(c), NEW b \in Buckets, NEW n \in Nat,
           NEW units, units \subseteq zset[b],
           \A u \in log[b] : u \in units \/ IsOld(u),
           Adds(b, units, caller[c].stamp, n), UNCHANGED now
    PROVE  \A d \in Buckets : Faithful(d)'
<1> TAKE d \in Buckets
<1> DEFINE stamp == caller[c].stamp
           new == NewUnits(stamp, n)
<1>1. TypeOK /\ Faithful(d) /\ calls \in Nat /\ now \in Nat
  BY DEF Inv, TypeOK
<1>2. /\ zset' = [zset EXCEPT ![b] = units \cup new]
      /\ log' = [log EXCEPT ![b] = @ \cup new]
      /\ expires' = [expires EXCEPT ![b] = now + Window + Grace]
      /\ calls' = calls + 1
  BY DEF Adds, NewUnits
<1>3. \A u \in log[d] : u.id \in Nat /\ u.score \in Nat /\ u.at \in Nat
  BY <1>1, LogElements
<1>4. CASE d # b
  <2>1. zset'[d] = zset[d] /\ log'[d] = log[d] /\ expires'[d] = expires[d]
    BY <1>1, <1>2, <1>4 DEF TypeOK
  <2>2. calls' \in Nat /\ calls <= calls'
    BY <1>1, <1>2
  <2> HIDE DEF new
  <2> QED
    BY <1>1, <1>3, <2>1, <2>2, BucketUntouched
<1>5. CASE d = b
  <2>1. /\ zset'[b] = units \cup new
        /\ log'[b] = log[b] \cup new
        /\ expires'[b] = now + Window + Grace
    BY <1>1, <1>2 DEF TypeOK
  <2>2. stamp \in Nat /\ now - MaxDelay <= stamp /\ stamp <= now + Skew
    BY <1>1, StampIsNear
  <2>3. /\ IsFiniteSet(new)
        /\ \A u \in new : u.id = calls /\ u.at = now /\ u.score = stamp
    BY <1>1, <2>2, NewUnitsType
  <2> HIDE DEF new, stamp
  <2>4. zset'[b] \subseteq log'[b]
    BY <1>1, <1>5, <2>1 DEF Faithful
  <2>5. IsFiniteSet(log'[b])
    <3>1. IsFiniteSet(log[b]) /\ IsFiniteSet(new)
      BY <1>1, <1>5, <2>3 DEF Faithful
    <3>2. IsFiniteSet(log[b] \cup new)
      BY <3>1, FS_Union
    <3> QED
      BY <2>1, <3>2
  <2>6. ASSUME NEW u \in log'[b]
        PROVE  /\ u.id < calls'
               /\ u.at <= now'
               /\ u.score - Skew <= u.at /\ u.at <= u.score + MaxDelay
    <3>1. CASE u \in new
      BY <1>1, <1>2, <2>2, <2>3, <3>1, Constants
    <3>2. CASE u \in log[b]
      BY <1>1, <1>2, <1>3, <1>5, <3>2 DEF Faithful
    <3> QED
      BY <2>1, <3>1, <3>2
  <2>7. ASSUME NEW u \in log'[b]
        PROVE  u \in Stored(b)' \/ IsOld(u)'
    <3>1. CASE Window + Grace = 0
      <4>1. u.at <= now /\ u.at \in Nat
        BY <1>1, <1>3, <1>5, <2>1, <2>3 DEF Faithful
      <4> QED
        BY <1>1, <3>1, <4>1, Constants DEF IsOld
    <3>2. CASE Window + Grace > 0
      <4>1. Stored(b)' = units \cup new
        BY <1>1, <2>1, <3>2, Constants DEF Stored
      <4> QED
        BY <2>1, <4>1 DEF IsOld
    <3> QED
      BY <3>1, <3>2, Constants
  <2>8. ASSUME NEW u \in zset'[b]
        PROVE  u.at + Window + Grace <= expires'[b]
    <3>1. u.at <= now /\ u.at \in Nat
      BY <1>1, <1>3, <1>5, <2>1, <2>3 DEF Faithful
    <3> QED
      BY <1>1, <2>1, <3>1, Constants
  <2> QED
    BY <1>5, <2>4, <2>5, <2>6, <2>7, <2>8 DEF Faithful
<1> QED
  BY <1>4, <1>5

LEMMA FaithfulTick ==
    ASSUME Inv, Tick, NEW b \in Buckets
    PROVE  Faithful(b)'
<1>1. TypeOK /\ Faithful(b) /\ now \in Nat
  BY DEF Inv, TypeOK
<1>2. now' = now + 1 /\ UNCHANGED <<zset, log, expires, calls>>
  BY DEF Tick, store
<1>3. expires[b] \in Nat
  BY <1>1 DEF TypeOK
<1>4. ASSUME NEW u \in log'[b]
      PROVE  u.at <= now' /\ (u \in Stored(b)' \/ IsOld(u)')
  <2>1. u \in log[b] /\ u.at \in Nat /\ u.at <= now
    BY <1>1, <1>2, LogElements DEF Faithful
  <2>2. CASE IsOld(u)
    BY <1>1, <1>2, <2>1, <2>2, Constants DEF IsOld
  <2>3. CASE u \in zset[b] /\ now' < expires'[b]
    <3>1. u \in Stored(b)'
      BY <1>2, <2>3 DEF Stored
    <3> QED
      BY <1>1, <1>2, <2>1, <3>1
  <2>4. CASE u \in zset[b] /\ ~(now' < expires'[b])
    <3>1. u.at + Window + Grace <= expires[b]
      BY <1>1, <2>4 DEF Faithful
    <3> QED
      BY <1>1, <1>2, <1>3, <2>1, <2>4, <3>1, Constants DEF IsOld
  <2>5. u \in zset[b] \/ IsOld(u)
    BY <1>1, <2>1, StoredIsSet DEF Faithful
  <2> QED
    BY <2>2, <2>3, <2>4, <2>5
<1> QED
  BY <1>1, <1>2, <1>4 DEF Faithful

LEMMA RunRpmFaithful ==
    ASSUME Inv, NEW c \in Callers, NEW lost \in BOOLEAN, RunRpm(c, lost)
    PROVE  \A d \in Buckets : Faithful(d)'
<1> DEFINE b == caller[c].bucket
           kept == Kept(b, caller[c].stamp)
<1>1. Stamps(c) /\ UNCHANGED now
  BY DEF RunRpm, Stamps
<1>2. b \in Buckets
  BY <1>1, StampIsNear DEF Inv
<1>3. CASE Cardinality(kept) >= Limit[b]
  <2>1. zset' = [zset EXCEPT ![b] = kept] /\ UNCHANGED <<now, expires, calls, log>>
    BY <1>3 DEF RunRpm
  <2> QED
    BY <1>1, <1>2, <2>1, FaithfulKept
<1>4. CASE ~(Cardinality(kept) >= Limit[b])
  <2>1. Adds(b, kept, caller[c].stamp, 1)
    BY <1>4 DEF RunRpm
  <2>2. kept \subseteq zset[b] /\ \A u \in log[b] : u \in kept \/ IsOld(u)
    BY <1>1, <1>2, KeptIsSet, EvictedIsOld
  <2> HIDE DEF kept, b
  <2> QED
    BY <1>1, <1>2, <2>1, <2>2, FaithfulAdds
<1> QED
  BY <1>3, <1>4

LEMMA RunTpmCheckFaithful ==
    ASSUME Inv, NEW c \in Callers, NEW lost \in BOOLEAN, RunTpmCheck(c, lost)
    PROVE  \A d \in Buckets : Faithful(d)'
<1> DEFINE b == caller[c].bucket
<1>1. Stamps(c) /\ b \in Buckets
  BY StampIsNear DEF RunTpmCheck, Stamps, Inv
<1>2. zset' = [zset EXCEPT ![b] = Kept(b, caller[c].stamp)]
      /\ UNCHANGED <<now, expires, calls, log>>
  BY DEF RunTpmCheck
<1> QED
  BY <1>1, <1>2, FaithfulKept

LEMMA RunTpmRecordFaithful ==
    ASSUME Inv, NEW c \in Callers, RunTpmRecord(c)
    PROVE  \A d \in Buckets : Faithful(d)'
<1> DEFINE b == caller[c].bucket
           n == caller[c].tokens
<1>1. Stamps(c) /\ b \in Buckets
  BY StampIsNear DEF RunTpmRecord, Stamps, Inv
<1>2. n \in Nat
  BY DEF Inv, TypeOK, CallerType
<1>3. Adds(b, Stored(b), caller[c].stamp, n) /\ UNCHANGED now
  BY DEF RunTpmRecord
<1>4. Stored(b) \subseteq zset[b] /\ \A u \in log[b] : u \in Stored(b) \/ IsOld(u)
  BY <1>1, StoredIsSet DEF Inv, Faithful
<1> HIDE DEF b, n
<1> QED
  BY <1>1, <1>2, <1>3, <1>4, FaithfulAdds

\* Steps that do not touch the store.
LEMMA StoreKeptFaithful ==
    ASSUME Inv, UNCHANGED <<now, store>>
    PROVE  \A d \in Buckets : Faithful(d)'
  BY DEF Inv, store, Faithful, Stored, IsOld

LEMMA InvInit == Init => Inv
<1> SUFFICES ASSUME Init PROVE Inv
  OBVIOUS
<1>1. \A b \in Buckets : Faithful(b)
  BY FS_EmptySet DEF Init, Faithful
<1> QED
  BY <1>1, TypeInit DEF Inv

LEMMA InvStep ==
    ASSUME Inv, [Next]_vars
    PROVE  Inv'
<1>1. TypeOK'
  BY TypeStep DEF Inv
<1>2. \A b \in Buckets : Faithful(b)'
  <2>1. ASSUME NEW c \in Callers, NEW b \in Buckets, BeginCheck(c, b)
        PROVE  UNCHANGED <<now, store>>
    BY <2>1 DEF BeginCheck
  <2>2. ASSUME NEW c \in Callers, NEW n \in Tokens, BeginRecord(c, n)
        PROVE  UNCHANGED <<now, store>>
    BY <2>2 DEF BeginRecord
  <2>3. ASSUME NEW c \in Callers, Abandon(c) \/ Fails(c)
        PROVE  UNCHANGED <<now, store>>
    BY <2>3 DEF Abandon, Fails
  <2>4. CASE UNCHANGED vars
    BY <2>4, StoreKeptFaithful DEF vars
  <2> QED
    BY <2>1, <2>2, <2>3, <2>4, FaithfulTick, RunRpmFaithful, RunTpmCheckFaithful,
       RunTpmRecordFaithful, StoreKeptFaithful
    DEF Next
<1> QED
  BY <1>1, <1>2 DEF Inv

LEMMA Invariance == Spec => []Inv
  BY InvInit, InvStep, PTL DEF Spec
----------------------------------------------------------------------------
\* The promise counts as this module does.
LEMMA SameCount == \A S : Promise!Cardinality(S) = Cardinality(S)
  BY DEF Promise!Cardinality, Cardinality

\* A bucket that a script finds full, or with room, is so by the promise.
LEMMA FullForTheScript ==
    ASSUME Inv, NEW c \in Callers, Stamps(c), NEW b \in Buckets,
           Cardinality(Kept(b, caller[c].stamp)) >= Limit[b]
    PROVE  Promise!IsFull(b)
<1> DEFINE kept == Kept(b, caller[c].stamp)
<1>1. IsFiniteSet(log[b]) /\ Promise!Younger(b, Window + Slack) \subseteq log[b]
  BY DEF Inv, Faithful, Promise!Younger
<1>2. IsFiniteSet(Promise!Younger(b, Window + Slack))
  BY <1>1, FS_Subset
<1>3. kept \subseteq Promise!Younger(b, Window + Slack)
  BY KeptIsYoung DEF Promise!Younger
<1> HIDE DEF kept
<1>4. IsFiniteSet(kept) /\ Cardinality(kept) <= Cardinality(Promise!Younger(b, Window + Slack))
  BY <1>2, <1>3, FS_Subset
<1>5. Cardinality(kept) \in Nat /\ Cardinality(Promise!Younger(b, Window + Slack)) \in Nat
  BY <1>2, <1>4, FS_CardinalityType
<1>6. Limit[b] \in Nat
  BY RedisAssumption DEF Buckets
<1>7. Cardinality(kept) >= Limit[b]
  BY DEF kept
<1>8. Cardinality(Promise!Younger(b, Window + Slack)) >= Limit[b]
  BY <1>4, <1>5, <1>6, <1>7
<1> QED
  BY <1>8, SameCount DEF Promise!IsFull

LEMMA RoomForTheScript ==
    ASSUME Inv, NEW c \in Callers, Stamps(c), NEW b \in Buckets,
           ~(Cardinality(Kept(b, caller[c].stamp)) >= Limit[b])
    PROVE  Promise!HasRoom(b)
<1> DEFINE kept == Kept(b, caller[c].stamp)
           young == Promise!Younger(b, Window - Slack)
<1>1. IsFiniteSet(log[b]) /\ kept \subseteq log[b]
  BY KeptIsSet DEF Inv, Faithful
<1>2. IsFiniteSet(kept)
  BY <1>1, FS_Subset
<1>3. ASSUME NEW u \in young
      PROVE  u \in kept
  <2>1. u \in log[b] /\ u.at > now - (Window - Slack)
    BY DEF Promise!Younger
  <2>2. u.at \in Nat /\ now \in Nat
    BY <2>1, LogElements DEF Inv, TypeOK
  <2>3. ~IsOld(u)
    BY <2>1, <2>2, Constants DEF IsOld
  <2> QED
    BY <2>1, <2>3, EvictedIsOld
<1> HIDE DEF kept, young
<1>4. IsFiniteSet(young) /\ Cardinality(young) <= Cardinality(kept)
  BY <1>2, <1>3, FS_Subset
<1>5. Cardinality(kept) \in Nat /\ Cardinality(young) \in Nat
  BY <1>2, <1>4, FS_CardinalityType
<1>6. Limit[b] \in Nat
  BY RedisAssumption DEF Buckets
<1>7. ~(Cardinality(kept) >= Limit[b])
  BY DEF kept
<1>8. Cardinality(young) < Limit[b]
  BY <1>4, <1>5, <1>6, <1>7
<1> QED
  BY <1>8, SameCount DEF Promise!HasRoom, young
----------------------------------------------------------------------------
\* What a call of one caller is, in the promise's words.
LEMMA AskedAfter ==
    ASSUME TypeOK, NEW c \in Callers, NEW pc, Returns(c, pc)
    PROVE  UNCHANGED [d \in Callers |-> caller[d].bucket]
<1>1. caller \in [Callers -> CallerType]
  BY DEF TypeOK
<1>2. \A d \in Callers : caller'[d].bucket = caller[d].bucket
  BY <1>1 DEF Returns, CallerType
<1> QED
  BY <1>2

LEMMA AskingWaits ==
    ASSUME TypeOK, NEW c \in Callers, caller[c].pc = "checking"
    PROVE  Promise!Waits(c, caller[c].bucket)
  BY DEF TypeOK, Promise!Waits

\* A script adds new units, now.
LEMMA AddsCounts ==
    ASSUME Inv, NEW b \in Buckets, NEW units, NEW score \in Nat, NEW n \in Nat,
           Adds(b, units, score, n)
    PROVE  /\ Promise!Counts(b)
           /\ log'[b] \ log[b] = NewUnits(score, n)
<1> DEFINE new == NewUnits(score, n)
<1>1. log \in [Buckets -> SUBSET UnitType] /\ calls \in Nat /\ TypeOK
  BY DEF Inv, TypeOK
<1>2. log' = [log EXCEPT ![b] = log[b] \cup new]
  BY DEF Adds, NewUnits
<1>3. \A u \in new : u.id = calls /\ u.at = now
  BY <1>1, NewUnitsType
<1> HIDE DEF new
<1>4. log'[b] = log[b] \cup new
  BY <1>1, <1>2
<1>5. \A u \in log[b] : u.id \in Nat /\ u.id < calls
  BY <1>1, LogElements DEF Inv, Faithful
<1>6. log'[b] \ log[b] = new
  <2>1. \A u \in new : u \notin log[b]
    BY <1>1, <1>3, <1>5
  <2> QED
    BY <1>4, <2>1
<1> QED
  BY <1>2, <1>3, <1>4, <1>6 DEF Promise!Counts, new

LEMMA RunRpmPromised ==
    ASSUME Inv, NEW c \in Callers, NEW lost \in BOOLEAN, RunRpm(c, lost)
    PROVE  Promise!Next
<1> DEFINE b == caller[c].bucket
           kept == Kept(b, caller[c].stamp)
<1>1. Stamps(c) /\ caller[c].pc = "checking" /\ TypeOK
  BY DEF RunRpm, Stamps, Inv
<1>2. b \in Buckets /\ b \in RpmBuckets /\ caller[c].stamp \in Nat
  BY <1>1, StampIsNear DEF RunRpm
<1>3. Promise!Waits(c, b) /\ UNCHANGED now
  BY <1>1, AskingWaits DEF RunRpm
<1>4. UNCHANGED [d \in Callers |-> caller[d].bucket]
  BY <1>1, AskedAfter DEF RunRpm
<1>5. CASE Cardinality(kept) >= Limit[b]
  <2>1. UNCHANGED log /\ Decides(c, "deny", lost)
    BY <1>5 DEF RunRpm
  <2>2. Promise!IsFull(b)
    BY <1>1, <1>2, <1>5, FullForTheScript DEF Inv
  <2>3. CASE lost
    <3>1. Promise!CannotTell(c, b)
      BY <1>3, <1>4, <2>1, <2>3 DEF Promise!CannotTell, Promise!Answers, Decides
    <3> QED
      BY <1>2, <3>1 DEF Promise!Next, Promise!Buckets
  <2>4. CASE ~lost
    <3>1. Promise!Deny(c, b)
      BY <1>3, <1>4, <2>1, <2>2, <2>4 DEF Promise!Deny, Promise!Answers, Decides
    <3> QED
      BY <1>2, <3>1 DEF Promise!Next, Promise!Buckets
  <2> QED
    BY <2>3, <2>4
<1>6. CASE ~(Cardinality(kept) >= Limit[b])
  <2>1. Adds(b, kept, caller[c].stamp, 1) /\ Decides(c, "allow", lost)
    BY <1>6 DEF RunRpm
  <2>2. Promise!HasRoom(b)
    BY <1>1, <1>2, <1>6, RoomForTheScript
  <2>3. Promise!Counts(b) /\ log'[b] \ log[b] = NewUnits(caller[c].stamp, 1)
    BY <1>2, <2>1, AddsCounts
  <2>4. Cardinality(NewUnits(caller[c].stamp, 1)) = 1
    <3>1. NewUnits(caller[c].stamp, 1)
            = {[id |-> calls, unit |-> 1, score |-> caller[c].stamp, at |-> now]}
      BY 1..1 = {1} DEF NewUnits
    <3> QED
      BY <3>1, FS_Singleton
  <2>5. Promise!Cardinality(log'[b] \ log[b]) = 1
    BY <2>3, <2>4, SameCount
  <2>6. Promise!Answers(c, "allow") \/ Promise!Answers(c, "unmetered")
    BY <1>4, <2>1 DEF Promise!Answers, Decides
  <2>7. Promise!Admit(c, b)
    BY <1>3, <2>2, <2>3, <2>5, <2>6 DEF Promise!Admit
  <2> QED
    BY <1>2, <2>7 DEF Promise!Next
<1> QED
  BY <1>5, <1>6

LEMMA RunTpmCheckPromised ==
    ASSUME Inv, NEW c \in Callers, NEW lost \in BOOLEAN, RunTpmCheck(c, lost)
    PROVE  Promise!Next
<1> DEFINE b == caller[c].bucket
           full == Cardinality(Kept(b, caller[c].stamp)) >= Limit[b]
<1>1. Stamps(c) /\ caller[c].pc = "checking" /\ TypeOK
  BY DEF RunTpmCheck, Stamps, Inv
<1>2. b \in Buckets /\ b \in TpmBuckets
  BY <1>1, StampIsNear DEF RunTpmCheck
<1>3. Promise!Waits(c, b) /\ UNCHANGED <<now, log>>
  BY <1>1, AskingWaits DEF RunTpmCheck
<1>4. UNCHANGED [d \in Callers |-> caller[d].bucket]
  <2>1. \E pc : Returns(c, pc)
    BY DEF RunTpmCheck
  <2> QED
    BY <1>1, <2>1, AskedAfter
<1>5. answer' = [answer EXCEPT ![c] = IF lost THEN "unmetered"
                                      ELSE IF full THEN "deny" ELSE "allow"]
  BY DEF RunTpmCheck, Decides
<1>6. CASE lost
  <2>1. Promise!CannotTell(c, b)
    BY <1>3, <1>4, <1>5, <1>6 DEF Promise!CannotTell, Promise!Answers
  <2> QED
    BY <1>2, <2>1 DEF Promise!Next, Promise!Buckets
<1>7. CASE ~lost /\ full
  <2>1. Promise!IsFull(b)
    BY <1>1, <1>2, <1>7, FullForTheScript
  <2>2. Promise!Deny(c, b)
    BY <1>3, <1>4, <1>5, <1>7, <2>1 DEF Promise!Deny, Promise!Answers
  <2> QED
    BY <1>2, <2>2 DEF Promise!Next, Promise!Buckets
<1>8. CASE ~lost /\ ~full
  <2>1. Promise!HasRoom(b)
    BY <1>1, <1>2, <1>8, RoomForTheScript
  <2>2. Promise!Pass(c, b)
    BY <1>3, <1>4, <1>5, <1>8, <2>1 DEF Promise!Pass, Promise!Answers
  <2> QED
    BY <1>2, <2>2 DEF Promise!Next
<1> QED
  BY <1>6, <1>7, <1>8

LEMMA RunTpmRecordPromised ==
    ASSUME Inv, NEW c \in Callers, RunTpmRecord(c)
    PROVE  Promise!Next
<1> DEFINE b == caller[c].bucket
           n == caller[c].tokens
<1>1. Stamps(c) /\ TypeOK
  BY DEF RunTpmRecord, Stamps, Inv
<1>2. b \in TpmBuckets /\ b \in Buckets /\ n \in Nat /\ caller[c].stamp \in Nat
  BY <1>1, StampIsNear DEF RunTpmRecord, TypeOK, CallerType
<1>3. Adds(b, Stored(b), caller[c].stamp, n) /\ UNCHANGED <<now, answer>>
  BY DEF RunTpmRecord
<1>4. UNCHANGED [d \in Callers |-> caller[d].bucket]
  BY <1>1, AskedAfter DEF RunTpmRecord
<1>5. Promise!Counts(b)
  BY <1>2, <1>3, AddsCounts
<1>6. Promise!Record(b)
  BY <1>3, <1>4, <1>5 DEF Promise!Record
<1> QED
  BY <1>2, <1>6 DEF Promise!Next

LEMMA BeginCheckPromised ==
    ASSUME Inv, NEW c \in Callers, NEW b \in Buckets, BeginCheck(c, b)
    PROVE  Promise!Next
<1>1. caller \in [Callers -> CallerType]
  BY DEF Inv, TypeOK
<1>2. [d \in Callers |-> caller[d].bucket]'
        = [[d \in Callers |-> caller[d].bucket] EXCEPT ![c] = b]
  BY <1>1 DEF BeginCheck, Sends
<1>3. Promise!Ask(c, b)
  BY <1>2 DEF BeginCheck, store, Promise!Ask
<1> QED
  BY <1>3 DEF Promise!Next, Promise!Buckets, Buckets

LEMMA FailsPromised ==
    ASSUME Inv, NEW c \in Callers, Fails(c)
    PROVE  [Promise!Next]_(Promise!vars)
<1>1. TypeOK /\ UNCHANGED <<now, log>>
  BY DEF Inv, Fails, store
<1>2. UNCHANGED [d \in Callers |-> caller[d].bucket]
  <2>1. \E pc : Returns(c, pc)
    BY DEF Fails
  <2> QED
    BY <1>1, <2>1, AskedAfter
<1>3. CASE caller[c].pc = "checking" /\ answer' = [answer EXCEPT ![c] = "unmetered"]
  <2>1. caller[c].bucket \in Buckets
    BY <1>1, <1>3 DEF TypeOK
  <2>2. Promise!CannotTell(c, caller[c].bucket)
    BY <1>1, <1>2, <1>3, AskingWaits DEF Promise!CannotTell, Promise!Answers
  <2> QED
    BY <2>1, <2>2 DEF Promise!Next, Promise!Buckets, Buckets
<1>4. CASE UNCHANGED answer
  BY <1>1, <1>2, <1>4 DEF Promise!vars
<1> QED
  BY <1>3, <1>4 DEF Fails

LEMMA PromisedStep ==
    ASSUME Inv, [Next]_vars
    PROVE  [Promise!Next]_(Promise!vars)
<1>1. CASE Tick
  <2>1. Promise!Tick
    BY <1>1 DEF Tick, store, Promise!Tick
  <2> QED
    BY <2>1 DEF Promise!Next
<1>2. ASSUME NEW c \in Callers, NEW n \in Tokens, BeginRecord(c, n)
      PROVE  UNCHANGED Promise!vars
  <2>1. caller \in [Callers -> CallerType]
    BY DEF Inv, TypeOK
  <2>2. UNCHANGED [d \in Callers |-> caller[d].bucket]
    BY <1>2, <2>1 DEF BeginRecord, Sends
  <2> QED
    BY <1>2, <2>2 DEF BeginRecord, store, Promise!vars
<1>3. ASSUME NEW c \in Callers, Abandon(c)
      PROVE  UNCHANGED Promise!vars
  <2>1. UNCHANGED [d \in Callers |-> caller[d].bucket]
    BY <1>3, AskedAfter DEF Abandon, Inv
  <2> QED
    BY <1>3, <2>1 DEF Abandon, store, Promise!vars
<1>4. CASE UNCHANGED vars
  BY <1>4 DEF vars, store, Promise!vars
<1> QED
  BY <1>1, <1>2, <1>3, <1>4, BeginCheckPromised, RunRpmPromised, RunTpmCheckPromised,
     RunTpmRecordPromised, FailsPromised
  DEF Next

\* Any number of gateways, whose clocks differ by Skew and whose scripts arrive
\* within MaxDelay, in any order, not at all or without their reply, are one
\* sliding window to their callers.
THEOREM PromiseKept == Spec => KeepsPromise
<1>1. Init => Promise!Init
  BY DEF Init, Promise!Init, Buckets, Promise!Buckets
<1>2. Inv /\ [Next]_vars => [Promise!Next]_(Promise!vars)
  BY PromisedStep
<1> QED
  BY <1>1, <1>2, Invariance, PTL DEF Spec, KeepsPromise, Promise!Spec
----------------------------------------------------------------------------
\* The units of b in the stretch of the window that begins with u.
Stretch(b, u) == {v \in log[b] : v.at >= u.at /\ v.at < u.at + (Window - Slack)}

WithinLimit(b) == \A u \in log[b] : Cardinality(Stretch(b, u)) <= Limit[b]

LEMMA HardLimitIsWithin == HardLimit <=> \A b \in RpmBuckets : WithinLimit(b)
  BY SameCount DEF HardLimit, Promise!HardLimit, WithinLimit, Stretch

\* A request that the script lets through is at most the last one the limit
\* allows for: all others of its stretch were kept, hence counted.
LEMMA AdmittedWithinLimit ==
    ASSUME Inv, NEW c \in Callers, Stamps(c), NEW b \in Buckets, WithinLimit(b),
           ~(Cardinality(Kept(b, caller[c].stamp)) >= Limit[b]),
           Adds(b, Kept(b, caller[c].stamp), caller[c].stamp, 1), UNCHANGED now
    PROVE  WithinLimit(b)'
<1> DEFINE kept == Kept(b, caller[c].stamp)
           w == [id |-> calls, unit |-> 1, score |-> caller[c].stamp, at |-> now]
<1>1. /\ TypeOK /\ now \in Nat /\ Limit[b] \in Nat
      /\ log \in [Buckets -> SUBSET UnitType]
  BY RedisAssumption DEF Inv, TypeOK, Buckets
<1>2. log'[b] = log[b] \cup {w}
  BY <1>1, 1..1 = {1} DEF Adds
<1>3. w.at = now
  OBVIOUS
<1>4. IsFiniteSet(log[b]) /\ kept \subseteq log[b]
  BY KeptIsSet DEF Inv, Faithful
<1>5. IsFiniteSet(kept) /\ Cardinality(kept) \in Nat /\ Cardinality(kept) < Limit[b]
  <2>1. IsFiniteSet(kept)
    BY <1>4, FS_Subset
  <2>2. Cardinality(kept) \in Nat
    BY <2>1, FS_CardinalityType
  <2> QED
    BY <1>1, <2>1, <2>2
<1>6. \A v \in log[b] : v.at \in Nat /\ v.at <= now
  BY <1>1, LogElements DEF Inv, Faithful
<1>7. \A v \in log[b] : v \in kept \/ v.at <= now - (Window - Slack)
  BY EvictedIsOld DEF IsOld
<1> HIDE DEF kept, w
<1> SUFFICES ASSUME NEW u \in log'[b]
             PROVE  Cardinality(Stretch(b, u)') <= Limit[b]
  BY DEF WithinLimit
<1> DEFINE S == {v \in log'[b] : v.at >= u.at /\ v.at < u.at + (Window - Slack)}
<1>8. Stretch(b, u)' = S
  BY DEF Stretch
<1>9. u.at \in Nat /\ u.at <= now
  BY <1>1, <1>2, <1>3, <1>6
<1>10. CASE w \in S
  <2>1. now < u.at + (Window - Slack)
    BY <1>3, <1>10
  <2>2. S \subseteq kept \cup {w}
    BY <1>1, <1>2, <1>6, <1>7, <1>9, <2>1, Constants
  <2>3. IsFiniteSet(kept \cup {w}) /\ Cardinality(kept \cup {w}) <= Cardinality(kept) + 1
    BY <1>5, FS_AddElement
  <2> HIDE DEF S
  <2>4. IsFiniteSet(S) /\ Cardinality(S) <= Cardinality(kept \cup {w})
    BY <2>2, <2>3, FS_Subset
  <2>5. Cardinality(S) \in Nat /\ Cardinality(kept \cup {w}) \in Nat
    BY <2>3, <2>4, FS_CardinalityType
  <2> QED
    BY <1>1, <1>5, <1>8, <2>3, <2>4, <2>5
<1>11. CASE w \notin S /\ u \in log[b]
  <2>1. S = Stretch(b, u)
    BY <1>2, <1>11 DEF Stretch
  <2> QED
    BY <1>8, <1>11, <2>1 DEF WithinLimit
<1>12. CASE w \notin S /\ u \notin log[b]
  <2>1. u.at = now /\ ~(now < now + (Window - Slack))
    BY <1>1, <1>2, <1>3, <1>12
  <2>2. S = {}
    BY <1>1, <1>2, <1>3, <1>6, <2>1, Constants
  <2> HIDE DEF S
  <2> QED
    BY <1>1, <1>8, <2>2, FS_EmptySet
<1> QED
  BY <1>10, <1>11, <1>12

LEMMA UntouchedWithinLimit ==
    ASSUME NEW b \in Buckets, UNCHANGED log[b], WithinLimit(b)
    PROVE  WithinLimit(b)'
  BY DEF WithinLimit, Stretch

LEMMA HardLimitStep ==
    ASSUME Inv, \A b \in RpmBuckets : WithinLimit(b), [Next]_vars
    PROVE  \A b \in RpmBuckets : WithinLimit(b)'
<1> TAKE b \in RpmBuckets
<1>1. b \in Buckets /\ WithinLimit(b) /\ TypeOK /\ b \notin TpmBuckets
  BY RedisAssumption DEF Buckets, Inv
<1>2. CASE UNCHANGED log
  BY <1>1, <1>2, UntouchedWithinLimit
<1>3. ASSUME NEW c \in Callers, NEW lost \in BOOLEAN, RunRpm(c, lost)
      PROVE  WithinLimit(b)'
  <2> DEFINE d == caller[c].bucket
             kept == Kept(d, caller[c].stamp)
  <2>1. Stamps(c) /\ UNCHANGED now
    BY <1>3 DEF RunRpm, Stamps
  <2>2. CASE Cardinality(kept) >= Limit[d]
    BY <1>2, <1>3, <2>2 DEF RunRpm
  <2>3. CASE ~(Cardinality(kept) >= Limit[d])
    <3>1. Adds(d, kept, caller[c].stamp, 1)
      BY <1>3, <2>3 DEF RunRpm
    <3>2. CASE d = b
      <4> HIDE DEF d, kept
      <4> QED
        BY <1>1, <2>1, <2>3, <3>1, <3>2, AdmittedWithinLimit DEF kept, d
    <3>3. CASE d # b
      <4>1. UNCHANGED log[b]
        BY <1>1, <3>1, <3>3 DEF Adds, TypeOK
      <4> QED
        BY <1>1, <4>1, UntouchedWithinLimit
    <3> QED
      BY <3>2, <3>3
  <2> QED
    BY <2>2, <2>3
<1>4. ASSUME NEW c \in Callers, RunTpmRecord(c)
      PROVE  WithinLimit(b)'
  <2>1. caller[c].bucket \in TpmBuckets
    BY <1>1, <1>4 DEF RunTpmRecord, TypeOK
  <2>2. UNCHANGED log[b]
    BY <1>1, <1>4, <2>1 DEF RunTpmRecord, Adds, TypeOK
  <2> QED
    BY <1>1, <2>2, UntouchedWithinLimit
<1>5. ASSUME NEW c \in Callers, NEW lost \in BOOLEAN, RunTpmCheck(c, lost)
      PROVE  UNCHANGED log
  BY <1>5 DEF RunTpmCheck
<1>6. ASSUME Tick \/ UNCHANGED vars
      PROVE  UNCHANGED log
  BY <1>6 DEF Tick, vars, store
<1>7. ASSUME NEW c \in Callers, Abandon(c) \/ Fails(c)
      PROVE  UNCHANGED log
  BY <1>7 DEF Abandon, Fails, store
<1>8. ASSUME NEW c \in Callers, NEW n \in Tokens, BeginRecord(c, n)
      PROVE  UNCHANGED log
  BY <1>8 DEF BeginRecord, store
<1>9. ASSUME NEW c \in Callers, NEW d \in Buckets, BeginCheck(c, d)
      PROVE  UNCHANGED log
  BY <1>9 DEF BeginCheck, store
<1> QED
  BY <1>2, <1>3, <1>4, <1>5, <1>6, <1>7, <1>8, <1>9 DEF Next

\* The request limit is hard for all gateways together: no stretch of the
\* window, less the slack of their stamps, holds more requests than the limit.
THEOREM HardLimitHolds == Spec => []HardLimit
<1>1. Init => HardLimit
  <2>1. Init => \A b \in RpmBuckets : WithinLimit(b)
    BY DEF Init, WithinLimit, Buckets
  <2> QED
    BY <2>1, HardLimitIsWithin
<1>2. Inv /\ HardLimit /\ [Next]_vars => HardLimit'
  <2>1. (\A b \in RpmBuckets : WithinLimit(b))' => HardLimit'
    BY HardLimitIsWithin, PTL
  <2> QED
    BY <2>1, HardLimitIsWithin, HardLimitStep
<1> QED
  BY <1>1, <1>2, Invariance, PTL DEF Spec
=============================================================================
