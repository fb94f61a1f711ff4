--------------------------- MODULE GatewayProofs ---------------------------
(***************************************************************************)
(* What the gateway owes every request, for any number of requests,        *)
(* bindings, tiers of two priorities, limits, retries and reloads: one     *)
(* access record, one report to a breaker per POST, one charge, a denial   *)
(* that costs nobody else anything, a spillover that holds, and no way     *)
(* back to where it was.                                                   *)
(*                                                                         *)
(* The requests meet only in the group and its breakers, which no property *)
(* looks at.  So the invariant speaks of one request at a time             *)
(* (RequestInv), and a step of one request leaves the others' part alone.  *)
(***************************************************************************)
EXTENDS Gateway, FiniteSetTheorems, WellFoundedInduction, TLAPS

(* The operators of a breaker.                                             *)

LEMMA NewBreakerType == NewBreaker(0) \in BreakerType
  BY BreakerAssumption DEF NewBreaker, BreakerType, States

LEMMA TransitionType ==
    ASSUME NEW b \in BreakerType, NEW target \in States, NEW now \in Nat
    PROVE  TransitionTo(b, target, now) \in BreakerType
  BY BreakerAssumption DEF TransitionTo, BreakerType, States

\* To look at a breaker does not make it refuse.
LEMMA CheckAndUpdateKeeps ==
    ASSUME NEW b \in BreakerType, NEW now \in Nat
    PROVE  /\ CheckAndUpdate(b, now) \in BreakerType
           /\ CanExecute(b, now) => CanExecute(CheckAndUpdate(b, now), now)
<1>1. "half_open" \in States
  BY DEF States
<1>2. CheckAndUpdate(b, now) \in BreakerType
  BY <1>1, TransitionType DEF CheckAndUpdate
<1>3. CanExecute(b, now) => CanExecute(CheckAndUpdate(b, now), now)
  BY DEF CanExecute, CheckAndUpdate, TransitionTo
<1> QED
  BY <1>2, <1>3

LEMMA OutcomeType ==
    ASSUME NEW b \in BreakerType, NEW success, NEW now \in Nat
    PROVE  RecordOutcome(b, success, now) \in BreakerType
<1>1. "closed" \in States /\ "open" \in States
  BY DEF States
<1>2. /\ [b EXCEPT !.failures = 0, !.successes = Inc(@)] \in BreakerType
      /\ [b EXCEPT !.successes = 0, !.failures = Inc(@)] \in BreakerType
  <2>1. 0 \in 0..CountCap /\ \A n \in 0..CountCap : Inc(n) \in 0..CountCap
    BY BreakerAssumption DEF Inc
  <2>2. b.failures \in 0..CountCap /\ b.successes \in 0..CountCap
    BY DEF BreakerType
  <2> QED
    BY <2>1, <2>2 DEF BreakerType
<1>3. RecordSuccess(b, now) \in BreakerType
  <2> DEFINE c == [b EXCEPT !.failures = 0, !.successes = Inc(@)]
  <2>1. c \in BreakerType /\ TransitionTo(c, "closed", now) \in BreakerType
    BY <1>1, <1>2, TransitionType
  <2> QED
    BY <2>1 DEF RecordSuccess
<1>4. RecordFailure(b, now) \in BreakerType
  <2> DEFINE c == [b EXCEPT !.successes = 0, !.failures = Inc(@)]
  <2>1. c \in BreakerType /\ TransitionTo(c, "open", now) \in BreakerType
    BY <1>1, <1>2, TransitionType
  <2> QED
    BY <2>1 DEF RecordFailure
<1> QED
  BY <1>3, <1>4 DEF RecordOutcome

\* The least element of a set of numbers, the lowest tier.
LEMMA LeastExists ==
    ASSUME NEW S \in SUBSET Nat, S # {}
    PROVE  Min(S) \in S /\ \A y \in S : Min(S) <= y
<1> DEFINE less == OpToRel(<, Nat)
<1>1. IsWellFoundedOn(less, Nat)
  BY NatLessThanWellFounded
<1> HIDE DEF less
<1>2. PICK x \in S : \A y \in S : ~ (<<y, x>> \in less)
  BY <1>1, WFMin
<1>3. \A y \in S : ~ (y < x)
  BY <1>2 DEF less, OpToRel
<1>4. \A y \in S : x <= y
  BY <1>3
<1> QED
  BY <1>4 DEF Min
----------------------------------------------------------------------------
RequestType ==
    [pc : {"new", "checking", "select", "sent", "body", "backoff",
           "stream", "recording", "over"},
     target : Targets, stream : BOOLEAN, step : 1..Len(Checks) + 1,
     min : {0, 1}, owes : SUBSET Scopes, attempt : 0..MaxRetries,
     up : Bindings \cup {None}, old : BOOLEAN,
     answer : Status \cup {None}, status : Endings \cup {None}]

Typed ==
    /\ request \in [Requests -> RequestType]
    /\ group \in Snapshots
    /\ breaker \in [Bindings -> BreakerType]
    /\ reloads \in 0..MaxReloads
    /\ debt \in [Requests -> {0, 1}]
    /\ reached \in [Requests -> SUBSET Bindings]
    /\ records \in [Requests -> Nat]
    /\ counted \in [Requests -> SUBSET Scopes]
    /\ charged \in [Requests -> [Scopes -> Nat]]

\* The fields of a request agree with where it is.
Placed(r) ==
    /\ request[r].pc \in {"sent", "body", "stream", "recording"} =>
           request[r].up # None /\ (request[r].old \/ request[r].up \in group)
    /\ request[r].pc = "over" <=> request[r].status # None
    /\ request[r].pc = "backoff" => request[r].attempt + 1 < MaxRetries

Recorded(r) ==
    records[r] = IF request[r].status \in {None, "hung_up", "bad_request"}
                 THEN 0 ELSE 1

Reported(r) ==
    request[r].status # "hung_up" =>
        (debt[r] = 1 <=> request[r].pc \in {"sent", "body", "stream"})

\* What the checks have counted when they have come to a step, and that nothing
\* is sent before they are over.
Checked(r) ==
    /\ request[r].pc = "new" => counted[r] = {} /\ reached[r] = {}
    /\ request[r].pc = "checking" =>
          /\ reached[r] = {}
          /\ request[r].step <= 3 => counted[r] = {}
          /\ request[r].step <= 4 => counted[r] \subseteq {"key"}
          /\ request[r].step <= 5 => "primary" \notin counted[r]
    /\ request[r].status = "denied" => counted[r] \subseteq {"key"} /\ reached[r] = {}

Spilled(r) ==
    request[r].min = 1 =>
        /\ request[r].target.endpoint = "tiered" =>
               \A b \in reached[r] : Priority[b] = 1
        /\ "primary" \in counted[r] => "primary" \in TpmLimits

\* The buckets the upstream's answer is to be charged to.
Due(r) == {s \in TpmLimits : s = "primary" => /\ request[r].min = 0
                                              /\ Priority[request[r].up] = 0}

\* What is due is charged or still owed, and never both.
Owed(r) ==
    /\ \A s \in Scopes :
          /\ charged[r][s] \in {0, 1}
          /\ charged[r][s] = 1 => s \in Due(r) /\ s \notin request[r].owes
          /\ request[r].pc \notin {"recording", "over"} => charged[r][s] = 0
    /\ request[r].pc \in {"select", "sent", "body", "backoff", "stream"} =>
          request[r].owes = {s \in TpmLimits : s = "primary" => request[r].min = 0}
    /\ request[r].pc = "recording" =>
          /\ request[r].owes \subseteq Due(r)
          /\ \/ request[r].owes = {} /\ \A s \in Scopes : charged[r][s] = 0
             \/ \A s \in Due(r) : s \in request[r].owes \/ charged[r][s] = 1
    /\ request[r].status = "served" =>
          \/ \A s \in Scopes : charged[r][s] = 0
          \/ \A s \in Due(r) : charged[r][s] = 1

RequestInv(r) == Placed(r) /\ Recorded(r) /\ Reported(r) /\ Checked(r)
                    /\ Spilled(r) /\ Owed(r)

Inv == Typed /\ \A r \in Requests : RequestInv(r)
----------------------------------------------------------------------------
LEMMA SixChecks == Len(Checks) = 6
  BY DEF Checks

LEMMA NowType == Now \in Nat
  BY BreakerAssumption DEF Now

\* Nothing of a request is touched.
Untouched(x) ==
    /\ request'[x] = request[x]
    /\ debt'[x] = debt[x]
    /\ reached'[x] = reached[x]
    /\ records'[x] = records[x]
    /\ counted'[x] = counted[x]
    /\ charged'[x] = charged[x]

LEMMA UntouchedKeeps ==
    ASSUME NEW x \in Requests, RequestInv(x), Untouched(x), group' = group
    PROVE  RequestInv(x)'
<1>1. Placed(x)'
  BY DEF RequestInv, Untouched, Placed
<1>2. Recorded(x)' /\ Reported(x)'
  BY DEF RequestInv, Untouched, Recorded, Reported
<1>3. Checked(x)' /\ Spilled(x)'
  BY DEF RequestInv, Untouched, Checked, Spilled
<1>4. Owed(x)'
  BY DEF RequestInv, Untouched, Owed, Due
<1> QED
  BY <1>1, <1>2, <1>3, <1>4 DEF RequestInv

\* A step of one request need only be looked at for that request.
LEMMA OneRequest ==
    ASSUME Inv, NEW r \in Requests, Typed', group' = group, RequestInv(r)',
           \A x \in Requests : x # r => Untouched(x)
    PROVE  Inv'
  BY UntouchedKeeps DEF Inv

\* A request that is not over has no status.
LEMMA NoStatusYet ==
    ASSUME Inv, NEW r \in Requests, request[r].pc # "over"
    PROVE  /\ request[r].status = None
           /\ records[r] = 0
           /\ debt[r] = 1 <=> request[r].pc \in {"sent", "body", "stream"}
<1>1. Placed(r) /\ Recorded(r) /\ Reported(r)
  BY DEF Inv, RequestInv
<1>2. request[r].status = None
  BY <1>1 DEF Placed
<1>3. None # "hung_up"
  BY GatewayAssumption DEF Endings
<1> QED
  BY <1>1, <1>2, <1>3 DEF Recorded, Reported

----------------------------------------------------------------------------
(* The steps of a request, up to the choice of an upstream.                *)

LEMMA InitInv == Init => Inv
<1> SUFFICES ASSUME Init PROVE Inv
  OBVIOUS
<1>1. Fresh \in RequestType
  <2>1. [endpoint |-> "tiered", pin |-> Bindings] \in Targets
    BY DEF Targets
  <2>2. 1 \in 1..Len(Checks) + 1 /\ 0 \in 0..MaxRetries
    BY SixChecks, GatewayAssumption
  <2> QED
    BY <2>1, <2>2 DEF Fresh, RequestType
<1>2. Typed
  BY <1>1, NewBreakerType, GatewayAssumption DEF Init, Typed
<1>3. ASSUME NEW r \in Requests
      PROVE  RequestInv(r)
  <2>1. /\ request[r] = Fresh
        /\ debt[r] = 0 /\ reached[r] = {} /\ records[r] = 0 /\ counted[r] = {}
        /\ \A s \in Scopes : charged[r][s] = 0
    BY DEF Init
  <2>2. None \notin Endings
    BY GatewayAssumption
  <2>3. Placed(r) /\ Recorded(r) /\ Reported(r)
    BY <2>1 DEF Fresh, Placed, Recorded, Reported
  <2>4. Checked(r) /\ Spilled(r)
    BY <2>1, <2>2 DEF Fresh, Checked, Spilled, Endings
  <2>5. Owed(r)
    BY <2>1, <2>2 DEF Fresh, Owed, Endings
  <2> QED
    BY <2>3, <2>4, <2>5 DEF RequestInv
<1> QED
  BY <1>2, <1>3 DEF Inv

LEMMA CallInv ==
    ASSUME Inv, NEW r \in Requests, NEW target \in Targets, NEW stream \in BOOLEAN,
           Call(r, target, stream)
    PROVE  Inv'
<1> DEFINE called == [Fresh EXCEPT !.pc = "checking", !.target = target,
                                   !.stream = stream]
<1>1. Typed /\ RequestInv(r)
  BY DEF Inv
<1>2. called \in RequestType
  <2>1. 1 \in 1..Len(Checks) + 1 /\ 0 \in 0..MaxRetries
    BY SixChecks, GatewayAssumption
  <2> QED
    BY <2>1 DEF Fresh, RequestType
<1>3. /\ request' = [request EXCEPT ![r] = called]
      /\ group' = group /\ breaker' = breaker /\ reloads' = reloads
      /\ history' = history
  BY DEF Call
<1>4. Typed'
  BY <1>1, <1>2, <1>3 DEF Typed, history
<1>5. /\ request'[r] = called
      /\ \A x \in Requests : x # r => Untouched(x)
  BY <1>1, <1>3 DEF Typed, Untouched, history
<1>6. RequestInv(r)'
  <2>1. request[r].pc = "new"
    BY DEF Call
  <2>2. /\ debt[r] # 1 /\ records[r] = 0 /\ counted[r] = {} /\ reached[r] = {}
        /\ \A s \in Scopes : charged[r][s] = 0
    BY <1>1, <2>1, NoStatusYet DEF RequestInv, Checked, Owed
  <2>3. None \notin Endings
    BY GatewayAssumption
  <2>4. /\ called.pc = "checking" /\ called.status = None /\ called.min = 0
    BY DEF Fresh
  <2>5. /\ debt'[r] = debt[r] /\ records'[r] = records[r]
        /\ counted'[r] = counted[r] /\ reached'[r] = reached[r]
        /\ charged'[r] = charged[r]
    BY <1>3 DEF history
  <2>6. Placed(r)' /\ Recorded(r)'
    BY <1>5, <2>2, <2>4, <2>5 DEF Placed, Recorded
  <2>7. Reported(r)'
    BY <1>5, <2>2, <2>4, <2>5 DEF Reported
  <2>8. Checked(r)' /\ Spilled(r)'
    BY <1>5, <2>2, <2>3, <2>4, <2>5 DEF Checked, Spilled, Endings
  <2>9. Owed(r)'
    BY <1>5, <2>2, <2>3, <2>4, <2>5 DEF Owed, Endings
  <2> QED
    BY <2>6, <2>7, <2>8, <2>9 DEF RequestInv
<1> QED
  BY <1>3, <1>4, <1>5, <1>6, OneRequest

\* The end of a request, from anywhere.
LEMMA OverEffect ==
    ASSUME Inv, NEW r \in Requests, request[r].pc # "over",
           NEW status \in Endings, NEW n \in {0, 1},
           n = 0 <=> status \in {"hung_up", "bad_request"},
           Over(r, status, n)
    PROVE  /\ request' \in [Requests -> RequestType]
           /\ records' \in [Requests -> Nat]
           /\ \A x \in Requests : x # r => /\ request'[x] = request[x]
                                           /\ records'[x] = records[x]
           /\ request'[r].pc = "over"
           /\ request'[r].status = status
           /\ request'[r].owes = {}
           /\ request'[r].min = request[r].min
           /\ request'[r].up = request[r].up
           /\ request'[r].target = request[r].target
           /\ Placed(r)' /\ Recorded(r)'
<1> DEFINE ended == [request[r] EXCEPT !.pc = "over", !.status = status, !.step = 1,
                                       !.owes = {}, !.attempt = 0, !.answer = None]
<1>1. Typed /\ request[r] \in RequestType
  BY DEF Inv, Typed
<1>2. request' = [request EXCEPT ![r] = ended]
  BY DEF Over
<1>3. ended \in RequestType
  <2>1. 1 \in 1..Len(Checks) + 1 /\ 0 \in 0..MaxRetries
    BY SixChecks, GatewayAssumption
  <2> QED
    BY <1>1, <2>1 DEF RequestType
<1>4. /\ request' \in [Requests -> RequestType]
      /\ request'[r] = ended
      /\ \A x \in Requests : x # r => request'[x] = request[x]
  BY <1>1, <1>2, <1>3 DEF Typed
<1>5. /\ records' \in [Requests -> Nat]
      /\ \A x \in Requests : x # r => records'[x] = records[x]
      /\ records'[r] = n
  BY <1>1, NoStatusYet DEF Over, Typed
<1>6. /\ ended.pc = "over" /\ ended.status = status /\ ended.owes = {}
      /\ ended.min = request[r].min /\ ended.up = request[r].up
      /\ ended.target = request[r].target
  BY <1>1 DEF RequestType
<1>7. None \notin Endings
  BY GatewayAssumption
<1>8. Placed(r)' /\ Recorded(r)'
  BY <1>4, <1>5, <1>6, <1>7 DEF Placed, Recorded
<1> QED
  BY <1>4, <1>5, <1>6, <1>8

\* A request that has been charged nothing, and is at no answer yet or at the
\* end, has nothing wrongly charged.
LEMMA UnchargedOwed ==
    ASSUME NEW r \in Requests, \A s \in Scopes : charged'[r][s] = 0,
           request'[r].pc \in {"new", "checking", "over"}
    PROVE  Owed(r)'
  BY DEF Owed

LEMMA CheckTable ==
    /\ Checks[1].dim = "tpm" /\ Checks[1].scope = "key"
    /\ Checks[2].dim = "tpm" /\ Checks[2].scope = "model"
    /\ Checks[3].dim = "rpm" /\ Checks[3].scope = "key"
    /\ Checks[4].dim = "rpm" /\ Checks[4].scope = "model"
    /\ Checks[5].dim = "rpm" /\ Checks[5].scope = "primary"
    /\ Checks[6].dim = "tpm" /\ Checks[6].scope = "primary"
  BY DEF Checks

LEMMA CheckInv ==
    ASSUME Inv, NEW r \in Requests, NEW allowed \in BOOLEAN, Check(r, allowed)
    PROVE  Inv'
<1> DEFINE k == Checks[request[r].step]
           asked == /\ k.scope \in (IF k.dim = "rpm" THEN RpmLimits ELSE TpmLimits)
                    /\ request[r].min = 0
           passed == [request[r] EXCEPT !.step = @ + 1,
                                        !.min = IF allowed THEN @ ELSE 1]
<1>1. Typed /\ RequestInv(r) /\ request[r] \in RequestType
  BY DEF Inv, Typed
<1>2. /\ request[r].pc = "checking"
      /\ request[r].step \in 1..6
      /\ ~asked => allowed
  BY <1>1, SixChecks DEF Check, RequestType
<1>3. /\ group' = group /\ breaker' = breaker /\ reloads' = reloads
      /\ debt' = debt /\ reached' = reached /\ charged' = charged
  BY DEF Check
<1>4. /\ request[r].status = None /\ records[r] = 0 /\ debt[r] # 1
      /\ reached[r] = {} /\ \A s \in Scopes : charged[r][s] = 0
  BY <1>1, <1>2, NoStatusYet DEF RequestInv, Checked, Owed
<1>5. None \notin Endings
  BY GatewayAssumption
<1>6. /\ \A x \in Requests : x # r => counted'[x] = counted[x]
      /\ counted' \in [Requests -> SUBSET Scopes]
      /\ ~(asked /\ allowed /\ k.dim = "rpm") => counted'[r] = counted[r]
      /\ counted'[r] \subseteq counted[r] \cup {k.scope}
  <2>1. k.scope \in Scopes
    BY <1>2, CheckTable DEF Scopes
  <2> QED
    BY <1>1, <2>1 DEF Check, Typed
<1>7. CASE ~allowed /\ k.scope # "primary"
  <2>1. Over(r, "denied", 1)
    BY <1>7 DEF Check
  <2>2. "denied" \in Endings
    BY DEF Endings
  <2>3. /\ request' \in [Requests -> RequestType]
        /\ records' \in [Requests -> Nat]
        /\ \A x \in Requests : x # r => /\ request'[x] = request[x]
                                        /\ records'[x] = records[x]
        /\ request'[r].pc = "over" /\ request'[r].status = "denied"
        /\ request'[r].min = request[r].min
        /\ request'[r].target = request[r].target
        /\ Placed(r)' /\ Recorded(r)'
    BY <1>2, <2>1, <2>2, OverEffect
  <2>4. Typed'
    BY <1>1, <1>3, <1>6, <2>3 DEF Typed
  <2>5. \A x \in Requests : x # r => Untouched(x)
    BY <1>3, <1>6, <2>3 DEF Untouched
  <2>6. counted'[r] = counted[r] /\ request[r].step <= 4
    BY <1>2, <1>6, <1>7, CheckTable
  <2>7. Checked(r)'
    BY <1>1, <1>2, <1>3, <1>4, <2>3, <2>6 DEF RequestInv, Checked
  <2>8. Spilled(r)' /\ Reported(r)' /\ Owed(r)'
    BY <1>1, <1>3, <1>4, <2>3, <2>6, UnchargedOwed DEF RequestInv, Spilled, Reported
  <2> QED
    BY <1>3, <2>3, <2>4, <2>5, <2>7, <2>8, OneRequest DEF RequestInv
<1>8. CASE allowed \/ k.scope = "primary"
  <2>1. request' = [request EXCEPT ![r] = passed] /\ records' = records
    BY <1>1, <1>8 DEF Check, Typed, RequestType
  <2>2. passed \in RequestType
    <3>1. request[r].step + 1 \in 1..Len(Checks) + 1
      BY <1>2, SixChecks
    <3> QED
      BY <1>1, <3>1 DEF RequestType
  <2>3. /\ request' \in [Requests -> RequestType]
        /\ \A x \in Requests : x # r => request'[x] = request[x]
        /\ request'[r] = passed
    BY <1>1, <2>1, <2>2 DEF Typed
  <2>4. /\ passed.pc = "checking" /\ passed.status = None
        /\ passed.step = request[r].step + 1
        /\ passed.min = IF allowed THEN request[r].min ELSE 1
    BY <1>1, <1>2, <1>4 DEF RequestType
  <2>5. Typed'
    BY <1>1, <1>3, <1>6, <2>1, <2>3 DEF Typed
  <2>6. \A x \in Requests : x # r => Untouched(x)
    BY <1>3, <1>6, <2>1, <2>3 DEF Untouched
  <2>7. Placed(r)' /\ Recorded(r)'
    BY <1>4, <2>1, <2>3, <2>4 DEF Placed, Recorded
  <2>8. Reported(r)' /\ Owed(r)'
    BY <1>3, <1>4, <2>3, <2>4, UnchargedOwed DEF Reported
  <2>9. Checked(r)'
    <3>1. /\ request[r].step <= 2 => counted'[r] = {}
          /\ request[r].step <= 3 => counted'[r] \subseteq {"key"}
          /\ request[r].step <= 4 => "primary" \notin counted'[r]
      BY <1>1, <1>2, <1>6, CheckTable DEF RequestInv, Checked
    <3> QED
      BY <1>2, <1>3, <1>4, <1>5, <2>3, <2>4, <3>1 DEF Checked, Endings
  <2>10. Spilled(r)'
    <3>1. ~allowed => request[r].step \in {5, 6} /\ request[r].min = 0
      BY <1>2, <1>8, CheckTable
    <3>2. ~allowed /\ "primary" \in counted'[r] => "primary" \in TpmLimits
      BY <1>1, <1>2, <1>6, <3>1, CheckTable DEF RequestInv, Checked
    <3>3. allowed /\ request[r].min = 1 => counted'[r] = counted[r]
      BY <1>6
    <3> QED
      BY <1>1, <1>3, <1>4, <2>3, <2>4, <3>2, <3>3 DEF RequestInv, Spilled
  <2> QED
    BY <1>3, <2>5, <2>6, <2>7, <2>8, <2>9, <2>10, OneRequest DEF RequestInv
<1> QED
  BY <1>7, <1>8

LEMMA AdmitInv ==
    ASSUME Inv, NEW r \in Requests, Admit(r)
    PROVE  Inv'
<1> DEFINE owes == {s \in TpmLimits : s = "primary" => request[r].min = 0}
           admitted == [request[r] EXCEPT !.pc = "select", !.step = 1, !.owes = owes]
<1>1. Typed /\ RequestInv(r) /\ request[r] \in RequestType
  BY DEF Inv, Typed
<1>2. /\ request[r].pc = "checking"
      /\ group' = group /\ breaker' = breaker /\ reloads' = reloads
      /\ debt' = debt /\ reached' = reached /\ charged' = charged
      /\ counted' = counted
  BY DEF Admit
<1>3. /\ request[r].status = None /\ records[r] = 0 /\ debt[r] # 1
      /\ reached[r] = {} /\ \A s \in Scopes : charged[r][s] = 0
  BY <1>1, <1>2, NoStatusYet DEF RequestInv, Checked, Owed
<1>4. None \notin Endings
  BY GatewayAssumption
<1>5. CASE request[r].target.pin = None
  <2>1. Over(r, "bad_request", 0) /\ "bad_request" \in Endings
    BY <1>5 DEF Admit, Endings
  <2>2. /\ request' \in [Requests -> RequestType]
        /\ records' \in [Requests -> Nat]
        /\ \A x \in Requests : x # r => /\ request'[x] = request[x]
                                        /\ records'[x] = records[x]
        /\ request'[r].pc = "over" /\ request'[r].status = "bad_request"
        /\ request'[r].min = request[r].min
        /\ request'[r].target = request[r].target
        /\ Placed(r)' /\ Recorded(r)'
    BY <1>2, <2>1, OverEffect
  <2>3. Typed'
    BY <1>1, <1>2, <2>2 DEF Typed
  <2>4. \A x \in Requests : x # r => Untouched(x)
    BY <1>2, <2>2 DEF Untouched
  <2>5. Checked(r)' /\ Spilled(r)'
    BY <1>1, <1>2, <2>2 DEF RequestInv, Checked, Spilled
  <2>6. Reported(r)' /\ Owed(r)'
    BY <1>2, <1>3, <2>2, UnchargedOwed DEF Reported
  <2> QED
    BY <1>2, <2>2, <2>3, <2>4, <2>5, <2>6, OneRequest DEF RequestInv
<1>6. CASE request[r].target.pin # None
  <2>1. request' = [request EXCEPT ![r] = admitted] /\ records' = records
    BY <1>1, <1>6 DEF Admit, Typed, RequestType
  <2>2. admitted \in RequestType
    <3>1. 1 \in 1..Len(Checks) + 1 /\ owes \subseteq Scopes
      BY SixChecks, GatewayAssumption
    <3> QED
      BY <1>1, <3>1 DEF RequestType
  <2>3. /\ request' \in [Requests -> RequestType]
        /\ \A x \in Requests : x # r => request'[x] = request[x]
        /\ request'[r] = admitted
    BY <1>1, <2>1, <2>2 DEF Typed
  <2>4. /\ admitted.pc = "select" /\ admitted.status = None
        /\ admitted.min = request[r].min /\ admitted.owes = owes
        /\ admitted.target = request[r].target
    BY <1>1, <1>3 DEF RequestType
  <2>5. Typed'
    BY <1>1, <1>2, <2>1, <2>3 DEF Typed
  <2>6. \A x \in Requests : x # r => Untouched(x)
    BY <1>2, <2>1, <2>3 DEF Untouched
  <2>7. Placed(r)' /\ Recorded(r)' /\ Reported(r)'
    BY <1>2, <1>3, <2>1, <2>3, <2>4 DEF Placed, Recorded, Reported
  <2>8. Checked(r)' /\ Spilled(r)'
    BY <1>1, <1>2, <1>3, <1>4, <2>3, <2>4 DEF RequestInv, Checked, Spilled, Endings
  <2>9. Owed(r)'
    BY <1>2, <1>3, <1>4, <2>3, <2>4 DEF Owed, Endings
  <2> QED
    BY <1>2, <2>5, <2>6, <2>7, <2>8, <2>9, OneRequest DEF RequestInv
<1> QED
  BY <1>5, <1>6

----------------------------------------------------------------------------
(* An attempt.                                                             *)

\* Whatever a request finds is in the group, and in the tiers it may use.
LEMMA FoundInGroup ==
    ASSUME Typed, NEW r \in Requests, NEW b \in Found(r).choices
    PROVE  /\ b \in group
           /\ b \in Bindings
           /\ request[r].target.endpoint = "tiered" => Priority[b] >= request[r].min
<1>1. group \subseteq Bindings /\ Bindings \subseteq Nat
  BY GatewayAssumption DEF Typed
<1>2. CASE request[r].target.endpoint = "tiered"
  <2>1. b \in Tiered(request[r].min).choices
    BY <1>2 DEF Found
  <2>2. b \in {c \in group : Priority[c] >= request[r].min}
    BY <2>1 DEF Tiered
  <2> QED
    BY <1>1, <2>2
<1>3. CASE request[r].target.endpoint # "tiered"
  <2> DEFINE open == {c \in request[r].target.pin \cap group : Available(c)}
  <2>1. b \in Pinned(request[r].target.pin).choices
    BY <1>3 DEF Found
  <2>2. open # {} /\ b = Min(open)
    BY <2>1 DEF Pinned
  <2>3. open \subseteq group /\ open \in SUBSET Nat
    BY <1>1
  <2>4. b \in open
    BY <2>2, <2>3, LeastExists
  <2> QED
    BY <1>1, <1>3, <2>3, <2>4
<1> QED
  BY <1>2, <1>3

LEMMA SelectInv ==
    ASSUME Inv, NEW r \in Requests, Select(r)
    PROVE  Inv'
<1>1. Typed /\ RequestInv(r) /\ request[r] \in RequestType
  BY DEF Inv, Typed
<1>2. /\ request[r].pc = "select"
      /\ group' = group /\ reloads' = reloads
      /\ counted' = counted /\ charged' = charged
  BY DEF Select
<1>3. breaker' \in [Bindings -> BreakerType]
  <2>1. \A b \in Bindings : breaker[b] \in BreakerType
    BY <1>1 DEF Typed
  <2>2. \A b \in Bindings : CheckAndUpdate(breaker[b], Now) \in BreakerType
    BY <2>1, NowType, CheckAndUpdateKeeps
  <2>3. breaker' = [b \in Bindings |->
               IF b \in Found(r).tested THEN CheckAndUpdate(breaker[b], Now)
                                        ELSE breaker[b]]
    BY DEF Select
  <2> QED
    BY <2>1, <2>2, <2>3
<1>4. /\ request[r].status = None /\ records[r] = 0 /\ debt[r] = 0
      /\ \A s \in Scopes : charged[r][s] = 0
  <2>1. debt[r] \in {0, 1}
    BY <1>1 DEF Typed
  <2> QED
    BY <1>1, <1>2, <2>1, NoStatusYet DEF RequestInv, Owed
<1>5. None \notin Endings
  BY GatewayAssumption
<1>6. CASE Over(r, "no_upstream", 1) /\ debt' = debt /\ reached' = reached
  <2>1. "no_upstream" \in Endings
    BY DEF Endings
  <2>2. /\ request' \in [Requests -> RequestType]
        /\ records' \in [Requests -> Nat]
        /\ \A x \in Requests : x # r => /\ request'[x] = request[x]
                                        /\ records'[x] = records[x]
        /\ request'[r].pc = "over" /\ request'[r].status = "no_upstream"
        /\ request'[r].min = request[r].min
        /\ request'[r].target = request[r].target
        /\ Placed(r)' /\ Recorded(r)'
    BY <1>2, <1>6, <2>1, OverEffect
  <2>3. Typed'
    BY <1>1, <1>2, <1>3, <1>6, <2>2 DEF Typed
  <2>4. \A x \in Requests : x # r => Untouched(x)
    BY <1>2, <1>6, <2>2 DEF Untouched
  <2>5. Checked(r)' /\ Spilled(r)'
    BY <1>1, <1>2, <1>6, <2>2 DEF RequestInv, Checked, Spilled
  <2>6. Reported(r)' /\ Owed(r)'
    BY <1>2, <1>4, <1>6, <2>2, UnchargedOwed DEF Reported
  <2> QED
    BY <1>2, <2>2, <2>3, <2>4, <2>5, <2>6, OneRequest DEF RequestInv
<1>7. ASSUME NEW b \in Found(r).choices,
             /\ request' = [request EXCEPT ![r].pc = "sent", ![r].up = b,
                                           ![r].old = FALSE]
             /\ debt' = [debt EXCEPT ![r] = @ + 1]
             /\ reached' = [reached EXCEPT ![r] = @ \cup {b}]
             /\ records' = records
      PROVE  Inv'
  <2> DEFINE sent == [request[r] EXCEPT !.pc = "sent", !.up = b, !.old = FALSE]
  <2>1. /\ b \in group /\ b \in Bindings
        /\ request[r].target.endpoint = "tiered" => Priority[b] >= request[r].min
    BY <1>1, FoundInGroup
  <2>2. request' = [request EXCEPT ![r] = sent] /\ sent \in RequestType
    BY <1>1, <1>7, <2>1 DEF Typed, RequestType
  <2>3. /\ request' \in [Requests -> RequestType]
        /\ \A x \in Requests : x # r => request'[x] = request[x]
        /\ request'[r] = sent
    BY <1>1, <2>2 DEF Typed
  <2>4. /\ sent.pc = "sent" /\ sent.status = None /\ sent.up = b /\ sent.old = FALSE
        /\ sent.min = request[r].min /\ sent.owes = request[r].owes
        /\ sent.target = request[r].target
    BY <1>1, <1>4 DEF RequestType
  <2>5. /\ debt' \in [Requests -> {0, 1}] /\ debt'[r] = 1
        /\ reached' \in [Requests -> SUBSET Bindings]
        /\ reached'[r] = reached[r] \cup {b}
        /\ \A x \in Requests : x # r => debt'[x] = debt[x] /\ reached'[x] = reached[x]
    BY <1>1, <1>4, <1>7, <2>1 DEF Typed
  <2>6. Typed'
    BY <1>1, <1>2, <1>3, <1>7, <2>3, <2>5 DEF Typed
  <2>7. \A x \in Requests : x # r => Untouched(x)
    BY <1>2, <1>7, <2>3, <2>5 DEF Untouched
  <2>8. Placed(r)' /\ Recorded(r)' /\ Reported(r)'
    <3>1. b # None
      BY <2>1, GatewayAssumption
    <3> QED
      BY <1>2, <1>4, <1>7, <2>1, <2>3, <2>4, <2>5, <3>1
      DEF Placed, Recorded, Reported
  <2>9. Checked(r)'
    BY <1>5, <2>3, <2>4 DEF Checked, Endings
  <2>10. Spilled(r)'
    <3>1. Priority[b] \in {0, 1}
      BY <2>1, GatewayAssumption
    <3> QED
      BY <1>1, <1>2, <2>1, <2>3, <2>4, <2>5, <3>1 DEF RequestInv, Spilled
  <2>11. Owed(r)'
    BY <1>1, <1>2, <1>4, <1>5, <2>3, <2>4 DEF RequestInv, Owed, Endings
  <2> QED
    BY <1>2, <2>6, <2>7, <2>8, <2>9, <2>10, <2>11, OneRequest DEF RequestInv
<1> QED
  BY <1>6, <1>7 DEF Select

\* A report settles the debt and leaves the breakers breakers.
LEMMA ReportEffect ==
    ASSUME Inv, NEW r \in Requests, request[r].pc \in {"sent", "body", "stream"},
           NEW success \in BOOLEAN, Report(r, success)
    PROVE  /\ breaker' \in [Bindings -> BreakerType]
           /\ debt' \in [Requests -> {0, 1}]
           /\ debt'[r] = 0
           /\ \A x \in Requests : x # r => debt'[x] = debt[x]
<1>1. Typed /\ Placed(r) /\ request[r] \in RequestType
  BY DEF Inv, RequestInv, Typed
<1>2. debt[r] = 1
  BY NoStatusYet
<1>3. request[r].up \in Bindings
  BY <1>1 DEF Placed, RequestType
<1>4. breaker' \in [Bindings -> BreakerType]
  <2>1. breaker[request[r].up] \in BreakerType
    BY <1>1, <1>3 DEF Typed
  <2>2. RecordOutcome(breaker[request[r].up], success, Now) \in BreakerType
    BY <2>1, NowType, OutcomeType
  <2> QED
    BY <1>1, <2>2 DEF Report, Typed
<1> QED
  BY <1>1, <1>2, <1>4 DEF Report, Typed

LEMMA AttemptFailedInv ==
    ASSUME Inv, NEW r \in Requests, request[r].pc \in {"sent", "body"},
           NEW retryable \in BOOLEAN, AttemptFailed(r, retryable)
    PROVE  Inv'
<1>1. Typed /\ RequestInv(r) /\ request[r] \in RequestType
  BY DEF Inv, Typed
<1>2. /\ Report(r, FALSE)
      /\ group' = group /\ reloads' = reloads /\ reached' = reached
      /\ counted' = counted /\ charged' = charged
  BY DEF AttemptFailed
<1>3. /\ breaker' \in [Bindings -> BreakerType]
      /\ debt' \in [Requests -> {0, 1}]
      /\ debt'[r] = 0
      /\ \A x \in Requests : x # r => debt'[x] = debt[x]
  BY <1>2, ReportEffect
<1>4. /\ request[r].status = None /\ records[r] = 0
      /\ \A s \in Scopes : charged[r][s] = 0
  BY <1>1, NoStatusYet DEF RequestInv, Owed
<1>5. None \notin Endings
  BY GatewayAssumption
<1>6. CASE retryable /\ request[r].attempt + 1 < MaxRetries
  <2> DEFINE waiting == [request[r] EXCEPT !.pc = "backoff", !.answer = None]
  <2>1. /\ request' = [request EXCEPT ![r] = waiting] /\ records' = records
        /\ waiting \in RequestType
    BY <1>1, <1>6 DEF AttemptFailed, Typed, RequestType
  <2>2. /\ request' \in [Requests -> RequestType]
        /\ \A x \in Requests : x # r => request'[x] = request[x]
        /\ request'[r] = waiting
    BY <1>1, <2>1 DEF Typed
  <2>3. /\ waiting.pc = "backoff" /\ waiting.status = None
        /\ waiting.attempt = request[r].attempt
        /\ waiting.min = request[r].min /\ waiting.owes = request[r].owes
        /\ waiting.target = request[r].target
    BY <1>1, <1>4 DEF RequestType
  <2>4. Typed'
    BY <1>1, <1>2, <1>3, <2>1, <2>2 DEF Typed
  <2>5. \A x \in Requests : x # r => Untouched(x)
    BY <1>2, <1>3, <2>1, <2>2 DEF Untouched
  <2>6. Placed(r)' /\ Recorded(r)' /\ Reported(r)'
    BY <1>3, <1>4, <1>6, <2>1, <2>2, <2>3 DEF Placed, Recorded, Reported
  <2>7. Checked(r)' /\ Spilled(r)'
    BY <1>1, <1>2, <1>5, <2>2, <2>3 DEF RequestInv, Checked, Spilled, Endings
  <2>8. Owed(r)'
    BY <1>1, <1>2, <1>4, <1>5, <2>2, <2>3 DEF RequestInv, Owed, Endings
  <2> QED
    BY <1>2, <2>4, <2>5, <2>6, <2>7, <2>8, OneRequest DEF RequestInv
<1>7. CASE ~ (retryable /\ request[r].attempt + 1 < MaxRetries)
  <2>1. Over(r, "failed", 1) /\ "failed" \in Endings
    BY <1>7 DEF AttemptFailed, Endings
  <2>2. /\ request' \in [Requests -> RequestType]
        /\ records' \in [Requests -> Nat]
        /\ \A x \in Requests : x # r => /\ request'[x] = request[x]
                                        /\ records'[x] = records[x]
        /\ request'[r].pc = "over" /\ request'[r].status = "failed"
        /\ request'[r].min = request[r].min
        /\ request'[r].target = request[r].target
        /\ Placed(r)' /\ Recorded(r)'
    BY <2>1, OverEffect
  <2>3. Typed'
    BY <1>1, <1>2, <1>3, <2>2 DEF Typed
  <2>4. \A x \in Requests : x # r => Untouched(x)
    BY <1>2, <1>3, <2>2 DEF Untouched
  <2>5. Checked(r)' /\ Spilled(r)'
    BY <1>1, <1>2, <2>2 DEF RequestInv, Checked, Spilled
  <2>6. Reported(r)' /\ Owed(r)'
    BY <1>2, <1>3, <1>4, <2>2, UnchargedOwed DEF Reported
  <2> QED
    BY <1>2, <2>2, <2>3, <2>4, <2>5, <2>6, OneRequest DEF RequestInv
<1> QED
  BY <1>6, <1>7

LEMMA HeadersInv ==
    ASSUME Inv, NEW r \in Requests, NEW answer \in Status, Headers(r, answer)
    PROVE  Inv'
<1> DEFINE pc == IF request[r].stream /\ answer = "ok" THEN "stream" ELSE "body"
           answered == [request[r] EXCEPT !.pc = pc, !.answer = answer]
<1>1. Typed /\ RequestInv(r) /\ request[r] \in RequestType
  BY DEF Inv, Typed
<1>2. /\ request[r].pc = "sent" /\ pc \in {"stream", "body"}
      /\ group' = group /\ breaker' = breaker /\ reloads' = reloads
      /\ debt' = debt /\ reached' = reached /\ records' = records
      /\ counted' = counted /\ charged' = charged
  BY DEF Headers, history
<1>3. request' = [request EXCEPT ![r] = answered]
  BY <1>1 DEF Headers, Typed, RequestType
<1> HIDE DEF pc
<1>4. answered \in RequestType
  BY <1>1, <1>2 DEF RequestType
<1>5. /\ request' \in [Requests -> RequestType]
      /\ \A x \in Requests : x # r => request'[x] = request[x]
      /\ request'[r] = answered
  BY <1>1, <1>3, <1>4 DEF Typed
<1>6. /\ request[r].status = None /\ records[r] = 0 /\ debt[r] = 1
      /\ None \notin Endings
  BY <1>2, NoStatusYet, GatewayAssumption
<1>7. /\ answered.pc \in {"stream", "body"} /\ answered.status = None
      /\ answered.up = request[r].up /\ answered.old = request[r].old
      /\ answered.min = request[r].min /\ answered.owes = request[r].owes
      /\ answered.target = request[r].target
  BY <1>1, <1>2, <1>6 DEF RequestType
<1> HIDE DEF answered
<1>8. Typed'
  BY <1>1, <1>2, <1>5 DEF Typed
<1>9. \A x \in Requests : x # r => Untouched(x)
  BY <1>2, <1>5 DEF Untouched
<1>10. Placed(r)' /\ Recorded(r)' /\ Reported(r)'
  BY <1>1, <1>2, <1>5, <1>6, <1>7 DEF RequestInv, Placed, Recorded, Reported
<1>11. Checked(r)' /\ Spilled(r)'
  BY <1>1, <1>2, <1>5, <1>6, <1>7 DEF RequestInv, Checked, Spilled, Endings
<1>12. Owed(r)'
  BY <1>1, <1>2, <1>5, <1>6, <1>7 DEF RequestInv, Owed, Endings
<1> QED
  BY <1>2, <1>8, <1>9, <1>10, <1>11, <1>12, OneRequest DEF RequestInv

LEMMA AnsweredInv ==
    ASSUME Inv, NEW r \in Requests, request[r].pc \in {"body", "stream"},
           NEW success \in BOOLEAN, NEW tokens \in BOOLEAN,
           Answered(r, success, tokens)
    PROVE  Inv'
<1> DEFINE owes == IF tokens
                   THEN {s \in request[r].owes :
                            s = "primary" => Priority[request[r].up] = 0}
                   ELSE {}
           answered == [request[r] EXCEPT !.pc = "recording", !.answer = None,
                                          !.owes = owes]
<1>1. Typed /\ RequestInv(r) /\ request[r] \in RequestType
  BY DEF Inv, Typed
<1>2. /\ Report(r, success)
      /\ group' = group /\ reloads' = reloads /\ reached' = reached
      /\ records' = records /\ counted' = counted /\ charged' = charged
  BY DEF Answered
<1>3. /\ breaker' \in [Bindings -> BreakerType]
      /\ debt' \in [Requests -> {0, 1}]
      /\ debt'[r] = 0
      /\ \A x \in Requests : x # r => debt'[x] = debt[x]
  BY <1>2, ReportEffect
<1>4. /\ request[r].status = None /\ records[r] = 0 /\ None \notin Endings
      /\ \A s \in Scopes : charged[r][s] = 0
  BY <1>1, NoStatusYet, GatewayAssumption DEF RequestInv, Owed
<1>5. request' = [request EXCEPT ![r] = answered]
  BY <1>1 DEF Answered, Typed, RequestType
<1>6. owes \subseteq request[r].owes /\ owes \subseteq Scopes
  BY <1>1 DEF RequestType
<1>7. owes = {} \/ owes = Due(r)
  BY <1>1 DEF RequestInv, Owed, Due
<1> HIDE DEF owes
<1>8. answered \in RequestType
  BY <1>1, <1>6 DEF RequestType
<1>9. /\ request' \in [Requests -> RequestType]
      /\ \A x \in Requests : x # r => request'[x] = request[x]
      /\ request'[r] = answered
  BY <1>1, <1>5, <1>8 DEF Typed
<1>10. /\ answered.pc = "recording" /\ answered.status = None
       /\ answered.up = request[r].up /\ answered.old = request[r].old
       /\ answered.min = request[r].min /\ answered.owes = owes
       /\ answered.target = request[r].target
  BY <1>1, <1>4 DEF RequestType
<1> HIDE DEF answered
<1>11. Typed'
  BY <1>1, <1>2, <1>3, <1>9 DEF Typed
<1>12. \A x \in Requests : x # r => Untouched(x)
  BY <1>2, <1>3, <1>9 DEF Untouched
<1>13. Placed(r)' /\ Recorded(r)' /\ Reported(r)'
  BY <1>1, <1>2, <1>3, <1>4, <1>9, <1>10 DEF RequestInv, Placed, Recorded, Reported
<1>14. Checked(r)' /\ Spilled(r)'
  BY <1>1, <1>2, <1>4, <1>9, <1>10 DEF RequestInv, Checked, Spilled, Endings
<1>15. Owed(r)'
  <2>1. Due(r)' = Due(r)
    BY <1>9, <1>10 DEF Due
  <2>2. \A s \in Scopes : charged'[r][s] = 0
    BY <1>2, <1>4
  <2> QED
    BY <1>4, <1>7, <1>9, <1>10, <2>1, <2>2 DEF Owed, Endings
<1> QED
  BY <1>2, <1>11, <1>12, <1>13, <1>14, <1>15, OneRequest DEF RequestInv

LEMMA BackoffInv ==
    ASSUME Inv, NEW r \in Requests, Backoff(r)
    PROVE  Inv'
<1> DEFINE again == [request[r] EXCEPT !.pc = "select", !.attempt = @ + 1]
<1>1. Typed /\ RequestInv(r) /\ request[r] \in RequestType
  BY DEF Inv, Typed
<1>2. /\ request[r].pc = "backoff"
      /\ group' = group /\ breaker' = breaker /\ reloads' = reloads
      /\ debt' = debt /\ reached' = reached /\ records' = records
      /\ counted' = counted /\ charged' = charged
  BY DEF Backoff, history
<1>3. request' = [request EXCEPT ![r] = again]
  BY <1>1 DEF Backoff, Typed, RequestType
<1>4. again \in RequestType
  <2>1. request[r].attempt \in 0..MaxRetries /\ request[r].attempt + 1 < MaxRetries
    BY <1>1, <1>2 DEF RequestType, RequestInv, Placed
  <2>2. request[r].attempt + 1 \in 0..MaxRetries
    BY <2>1, GatewayAssumption
  <2> QED
    BY <1>1, <2>2 DEF RequestType
<1>5. /\ request' \in [Requests -> RequestType]
      /\ \A x \in Requests : x # r => request'[x] = request[x]
      /\ request'[r] = again
  BY <1>1, <1>3, <1>4 DEF Typed
<1>6. /\ request[r].status = None /\ records[r] = 0 /\ debt[r] # 1
      /\ None \notin Endings
  BY <1>2, NoStatusYet, GatewayAssumption
<1>7. /\ again.pc = "select" /\ again.status = None
      /\ again.min = request[r].min /\ again.owes = request[r].owes
      /\ again.target = request[r].target
  BY <1>1, <1>6 DEF RequestType
<1> HIDE DEF again
<1>8. Typed'
  BY <1>1, <1>2, <1>5 DEF Typed
<1>9. \A x \in Requests : x # r => Untouched(x)
  BY <1>2, <1>5 DEF Untouched
<1>10. Placed(r)' /\ Recorded(r)' /\ Reported(r)'
  BY <1>2, <1>5, <1>6, <1>7 DEF Placed, Recorded, Reported
<1>11. Checked(r)' /\ Spilled(r)'
  BY <1>1, <1>2, <1>5, <1>6, <1>7 DEF RequestInv, Checked, Spilled, Endings
<1>12. Owed(r)'
  BY <1>1, <1>2, <1>5, <1>6, <1>7 DEF RequestInv, Owed, Endings
<1> QED
  BY <1>2, <1>8, <1>9, <1>10, <1>11, <1>12, OneRequest DEF RequestInv

LEMMA RecordTokensInv ==
    ASSUME Inv, NEW r \in Requests, RecordTokens(r)
    PROVE  Inv'
<1> DEFINE s == CHOOSE s \in request[r].owes :
                    \/ s = "key"
                    \/ s = "model" /\ "key" \notin request[r].owes
                    \/ request[r].owes = {"primary"}
           owing == [request[r] EXCEPT !.owes = @ \ {s}]
<1>1. Typed /\ RequestInv(r) /\ request[r] \in RequestType
  BY DEF Inv, Typed
<1>2. /\ request[r].pc = "recording" /\ request[r].owes # {}
      /\ group' = group /\ breaker' = breaker /\ reloads' = reloads
      /\ debt' = debt /\ reached' = reached /\ records' = records
      /\ counted' = counted
  BY DEF RecordTokens
<1>3. s \in request[r].owes /\ s \in Scopes
  <2>1. request[r].owes \subseteq {"key", "model", "primary"}
    BY <1>1 DEF RequestType, Scopes
  <2>2. "key" \notin request[r].owes /\ "model" \notin request[r].owes
           => request[r].owes = {"primary"}
    BY <1>2, <2>1
  <2>3. \E t \in request[r].owes :
            \/ t = "key"
            \/ t = "model" /\ "key" \notin request[r].owes
            \/ request[r].owes = {"primary"}
    BY <1>2, <2>2
  <2>4. s \in request[r].owes
    BY <2>3
  <2> QED
    BY <2>1, <2>4 DEF Scopes
<1>4. /\ request' = [request EXCEPT ![r] = owing]
      /\ charged' = [charged EXCEPT ![r] = [charged[r] EXCEPT ![s] = @ + 1]]
  BY <1>1 DEF RecordTokens, Typed, RequestType
<1> HIDE DEF s
<1>5. owing \in RequestType
  BY <1>1 DEF RequestType
<1>6. /\ request' \in [Requests -> RequestType]
      /\ \A x \in Requests : x # r => request'[x] = request[x]
      /\ request'[r] = owing
  BY <1>1, <1>4, <1>5 DEF Typed
<1>7. charged[r] \in [Scopes -> Nat]
  BY <1>1 DEF Typed
<1>8. /\ charged' \in [Requests -> [Scopes -> Nat]]
      /\ \A x \in Requests : x # r => charged'[x] = charged[x]
      /\ charged'[r] = [charged[r] EXCEPT ![s] = @ + 1]
  BY <1>1, <1>3, <1>4, <1>7 DEF Typed
<1>9. /\ charged'[r][s] = charged[r][s] + 1
      /\ \A t \in Scopes : t # s => charged'[r][t] = charged[r][t]
  BY <1>3, <1>7, <1>8
<1>10. /\ request[r].status = None /\ records[r] = 0 /\ debt[r] # 1
       /\ None \notin Endings
  BY <1>2, NoStatusYet, GatewayAssumption
<1>11. /\ owing.pc = "recording" /\ owing.status = None
       /\ owing.min = request[r].min /\ owing.owes = request[r].owes \ {s}
       /\ owing.up = request[r].up /\ owing.old = request[r].old
       /\ owing.target = request[r].target
  BY <1>1, <1>2, <1>10 DEF RequestType
<1> HIDE DEF owing
<1>12. Typed'
  BY <1>1, <1>2, <1>6, <1>8 DEF Typed
<1>13. \A x \in Requests : x # r => Untouched(x)
  BY <1>2, <1>6, <1>8 DEF Untouched
<1>14. Placed(r)' /\ Recorded(r)' /\ Reported(r)'
  BY <1>1, <1>2, <1>6, <1>10, <1>11 DEF RequestInv, Placed, Recorded, Reported
<1>15. Checked(r)' /\ Spilled(r)'
  BY <1>1, <1>2, <1>6, <1>10, <1>11 DEF RequestInv, Checked, Spilled, Endings
<1>16. Owed(r)'
  <2>1. /\ Due(r)' = Due(r)
        /\ request[r].owes \subseteq Due(r)
        /\ \A t \in Due(r) : t \in request[r].owes \/ charged[r][t] = 1
        /\ Due(r) \subseteq Scopes
    BY <1>1, <1>2, <1>6, <1>11, GatewayAssumption DEF RequestInv, Owed, Due
  <2>2. charged[r][s] = 0
    BY <1>1, <1>3 DEF RequestInv, Owed
  <2>3. charged'[r][s] = 1 /\ s \in Due(r)
    BY <1>3, <1>9, <2>1, <2>2
  <2>4. \A t \in Scopes : /\ charged'[r][t] \in {0, 1}
                          /\ charged'[r][t] = 1 => t \in Due(r) /\ t \notin owing.owes
    BY <1>1, <1>9, <1>11, <2>3 DEF RequestInv, Owed
  <2>5. \A t \in Due(r) : t \in owing.owes \/ charged'[r][t] = 1
    BY <1>9, <1>11, <2>1, <2>3
  <2> QED
    BY <1>6, <1>10, <1>11, <2>1, <2>4, <2>5 DEF Owed, Endings
<1> QED
  BY <1>2, <1>12, <1>13, <1>14, <1>15, <1>16, OneRequest DEF RequestInv

\* The two ends that report nothing and leave all else alone: the answer is
\* recorded, or the client hangs up.
LEMMA EndInv ==
    ASSUME Inv, NEW r \in Requests,
           \/ Served(r)
           \/ HangUp(r)
    PROVE  Inv'
<1> DEFINE status == IF Served(r) THEN "served" ELSE "hung_up"
           n == IF Served(r) THEN 1 ELSE 0
<1>1. Typed /\ RequestInv(r)
  BY DEF Inv
<1>2. /\ request[r].pc \in {"checking", "sent", "body", "backoff", "recording"}
      /\ group' = group /\ breaker' = breaker /\ reloads' = reloads
      /\ debt' = debt /\ reached' = reached
      /\ counted' = counted /\ charged' = charged
      /\ Over(r, status, n)
  <2>1. CASE Served(r)
    BY <2>1 DEF Served
  <2>2. CASE HangUp(r) /\ ~Served(r)
    BY <2>2 DEF HangUp
  <2> QED
    BY <2>1, <2>2
<1>3. Served(r) => request[r].pc = "recording" /\ request[r].owes = {}
  BY DEF Served
<1>4. /\ status \in Endings /\ n \in {0, 1}
      /\ status \in {"served", "hung_up"}
      /\ status = "served" => Served(r)
      /\ n = 0 <=> status \in {"hung_up", "bad_request"}
  BY DEF Endings
<1> HIDE DEF status, n
<1>5. /\ request' \in [Requests -> RequestType]
      /\ records' \in [Requests -> Nat]
      /\ \A x \in Requests : x # r => /\ request'[x] = request[x]
                                      /\ records'[x] = records[x]
      /\ request'[r].pc = "over" /\ request'[r].status = status
      /\ request'[r].owes = {}
      /\ request'[r].min = request[r].min /\ request'[r].up = request[r].up
      /\ request'[r].target = request[r].target
      /\ Placed(r)' /\ Recorded(r)'
  BY <1>2, <1>4, OverEffect
<1>6. Typed'
  BY <1>1, <1>2, <1>5 DEF Typed
<1>7. \A x \in Requests : x # r => Untouched(x)
  BY <1>2, <1>5 DEF Untouched
<1>8. Checked(r)' /\ Spilled(r)'
  BY <1>1, <1>2, <1>4, <1>5 DEF RequestInv, Checked, Spilled
<1>9. Reported(r)'
  BY <1>2, <1>3, <1>4, <1>5, NoStatusYet DEF Reported
<1>10. Owed(r)'
  <2>1. Due(r)' = Due(r)
    BY <1>5 DEF Due
  <2>2. \A s \in Scopes : /\ charged[r][s] \in {0, 1}
                          /\ charged[r][s] = 1 => s \in Due(r)
    BY <1>1 DEF RequestInv, Owed
  <2>3. Served(r) => \/ \A s \in Scopes : charged[r][s] = 0
                     \/ \A s \in Due(r) : charged[r][s] = 1
    BY <1>1, <1>3 DEF RequestInv, Owed
  <2> QED
    BY <1>2, <1>4, <1>5, <2>1, <2>2, <2>3 DEF Owed
<1> QED
  BY <1>2, <1>5, <1>6, <1>7, <1>8, <1>9, <1>10, OneRequest DEF RequestInv
----------------------------------------------------------------------------
(* The steps of no request.                                                *)

LEMMA ReloadInv ==
    ASSUME Inv, NEW bindings \in Snapshots, Reload(bindings)
    PROVE  Inv'
<1> DEFINE left(r) == request[r].up # None
           kept(r) == [request[r] EXCEPT !.old = left(r)]
<1>1. Typed
  BY DEF Inv
<1>2. /\ request' = [r \in Requests |-> kept(r)]
      /\ group' = bindings
      /\ debt' = debt /\ reached' = reached /\ records' = records
      /\ counted' = counted /\ charged' = charged
  BY DEF Reload, history
<1>3. \A r \in Requests : kept(r) \in RequestType
  <2>1. \A r \in Requests : left(r) \in BOOLEAN
    OBVIOUS
  <2>2. \A r \in Requests : request[r] \in RequestType
    BY <1>1 DEF Typed
  <2>3. ASSUME NEW q \in RequestType, NEW old \in BOOLEAN
        PROVE  [q EXCEPT !.old = old] \in RequestType
    BY DEF RequestType
  <2> HIDE DEF left
  <2> QED
    BY <2>1, <2>2, <2>3
<1>4. breaker' \in [Bindings -> BreakerType] /\ reloads' \in 0..MaxReloads
  BY <1>1, NewBreakerType, GatewayAssumption DEF Reload, Typed
<1>5. Typed'
  BY <1>1, <1>2, <1>3, <1>4 DEF Typed
<1>6. ASSUME NEW r \in Requests
      PROVE  RequestInv(r)'
  <2>1. request[r] \in RequestType /\ RequestInv(r)
    BY <1>1 DEF Inv, Typed
  <2>2. /\ kept(r).pc = request[r].pc /\ kept(r).status = request[r].status
        /\ kept(r).step = request[r].step /\ kept(r).min = request[r].min
        /\ kept(r).owes = request[r].owes /\ kept(r).up = request[r].up
        /\ kept(r).attempt = request[r].attempt
        /\ kept(r).target = request[r].target
        /\ kept(r).old = (request[r].up # None)
    BY <2>1 DEF RequestType
  <2>3. request'[r] = kept(r)
    BY <1>2
  <2> HIDE DEF kept
  <2>4. Placed(r)'
    BY <2>1, <2>2, <2>3 DEF RequestInv, Placed
  <2>5. Recorded(r)' /\ Reported(r)'
    BY <1>2, <2>1, <2>2, <2>3 DEF RequestInv, Recorded, Reported
  <2>6. Checked(r)' /\ Spilled(r)'
    BY <1>2, <2>1, <2>2, <2>3 DEF RequestInv, Checked, Spilled
  <2>7. Owed(r)'
    BY <1>2, <2>1, <2>2, <2>3 DEF RequestInv, Owed, Due
  <2> QED
    BY <2>4, <2>5, <2>6, <2>7 DEF RequestInv
<1> QED
  BY <1>5, <1>6 DEF Inv

LEMMA AgeInv ==
    ASSUME Inv, Age
    PROVE  Inv'
<1>1. Typed
  BY DEF Inv
<1>2. breaker' \in [Bindings -> BreakerType]
  <2>1. \A b \in Bindings : breaker[b] \in BreakerType
    BY <1>1 DEF Typed
  <2>2. \A b \in Bindings :
           [breaker[b] EXCEPT !.since = IF @ > 0 THEN @ - 1 ELSE 0] \in BreakerType
    BY <2>1 DEF BreakerType
  <2> QED
    BY <2>2 DEF Age
<1>3. /\ request' = request /\ group' = group /\ reloads' = reloads
      /\ debt' = debt /\ reached' = reached /\ records' = records
      /\ counted' = counted /\ charged' = charged
  BY DEF Age, history
<1>4. Typed'
  BY <1>1, <1>2, <1>3 DEF Typed
<1>5. \A r \in Requests : Untouched(r)
  BY <1>3 DEF Untouched
<1> QED
  BY <1>3, <1>4, <1>5, UntouchedKeeps DEF Inv

LEMMA StepInv ==
    ASSUME Inv, NEW r \in Requests, Step(r)
    PROVE  Inv'
<1>1. CASE \E allowed \in BOOLEAN : Check(r, allowed)
  BY <1>1, CheckInv
<1>2. CASE Admit(r)
  BY <1>2, AdmitInv
<1>3. CASE Select(r)
  BY <1>3, SelectInv
<1>4. CASE ConnectError(r) \/ BodyError(r)
  <2>1. AttemptFailed(r, TRUE) /\ request[r].pc \in {"sent", "body"}
    BY <1>4 DEF ConnectError, BodyError
  <2> QED
    BY <2>1, AttemptFailedInv
<1>5. CASE \E answer \in Status : Headers(r, answer)
  BY <1>5, HeadersInv
<1>6. ASSUME NEW tokens \in BOOLEAN, ReadBody(r, tokens)
      PROVE  Inv'
  <2>1. CASE request[r].answer = "ok"
    BY <1>6, <2>1, AnsweredInv DEF ReadBody
  <2>2. CASE request[r].answer # "ok"
    <3> DEFINE retryable == request[r].answer = "retryable"
    <3>1. AttemptFailed(r, retryable) /\ retryable \in BOOLEAN
      BY <1>6, <2>2 DEF ReadBody
    <3>2. request[r].pc \in {"sent", "body"}
      BY <1>6 DEF ReadBody
    <3> HIDE DEF retryable
    <3> QED
      BY <3>1, <3>2, AttemptFailedInv
  <2> QED
    BY <2>1, <2>2
<1>7. CASE Backoff(r)
  BY <1>7, BackoffInv
<1>8. ASSUME NEW broken \in BOOLEAN, NEW tokens \in BOOLEAN,
             StreamEnds(r, broken, tokens)
      PROVE  Inv'
  <2> DEFINE success == ~broken
  <2>1. /\ Answered(r, success, tokens) /\ success \in BOOLEAN
        /\ request[r].pc \in {"body", "stream"}
    BY <1>8 DEF StreamEnds
  <2> HIDE DEF success
  <2> QED
    BY <2>1, AnsweredInv
<1>9. CASE RecordTokens(r)
  BY <1>9, RecordTokensInv
<1>10. CASE Served(r)
  BY <1>10, EndInv
<1> QED
  BY <1>1, <1>2, <1>3, <1>4, <1>5, <1>6, <1>7, <1>8, <1>9, <1>10 DEF Step

LEMMA NextInv == Inv /\ [Next]_vars => Inv'
<1> SUFFICES ASSUME Inv, [Next]_vars PROVE Inv'
  OBVIOUS
<1>1. ASSUME NEW r \in Requests, NEW target \in Targets, NEW stream \in BOOLEAN,
             Call(r, target, stream)
      PROVE  Inv'
  BY <1>1, CallInv
<1>2. ASSUME NEW r \in Requests, Step(r)
      PROVE  Inv'
  BY <1>2, StepInv
<1>3. ASSUME NEW r \in Requests, HangUp(r)
      PROVE  Inv'
  BY <1>3, EndInv
<1>4. ASSUME NEW bindings \in Snapshots, Reload(bindings)
      PROVE  Inv'
  BY <1>4, ReloadInv
<1>5. CASE Age
  BY <1>5, AgeInv
<1>6. CASE UNCHANGED vars
  <2>1. /\ request' = request /\ group' = group /\ breaker' = breaker
        /\ reloads' = reloads /\ debt' = debt /\ reached' = reached
        /\ records' = records /\ counted' = counted /\ charged' = charged
    BY <1>6 DEF vars, history
  <2>2. Typed' /\ \A r \in Requests : Untouched(r)
    BY <2>1 DEF Inv, Typed, Untouched
  <2> QED
    BY <2>1, <2>2, UntouchedKeeps DEF Inv
<1> QED
  BY <1>1, <1>2, <1>3, <1>4, <1>5, <1>6 DEF Next

\* Every step of a request keeps the invariant of every request: requests meet
\* only in the upstream group and in the breakers, which it does not speak of.
THEOREM Invariance == Spec => []Inv
  BY InitInv, NextInv, PTL DEF Spec
----------------------------------------------------------------------------
\* A request's fields agree with where it is, an upstream that is not of a
\* replaced snapshot is in the current one, and no attempt exceeds max_retries.
THEOREM TypeCorrect == Spec => []TypeOK
<1>1. Inv => TypeOK
  BY DEF Inv, Typed, RequestType, RequestInv, Placed, TypeOK
<1> QED
  BY <1>1, Invariance, PTL

\* Every request leaves one access record, or none if its client hung up or it
\* named no provider.
THEOREM OneRecordHolds == Spec => []OneRecord
<1>1. Inv => OneRecord
  BY DEF Inv, RequestInv, Recorded, OneRecord
<1> QED
  BY <1>1, Invariance, PTL

\* Every POST is reported to the breaker of its upstream, once.
THEOREM OneReportHolds == Spec => []OneReportPerPost
<1>1. Inv => OneReportPerPost
  BY DEF Inv, Typed, RequestInv, Reported, OneReportPerPost
<1> QED
  BY <1>1, Invariance, PTL

\* Tokens are charged once, to the buckets of what was served.
THEOREM ChargesHold == Spec => []ChargedWhereServed
<1>1. Inv => ChargedWhereServed
  <2> SUFFICES ASSUME Inv, NEW r \in Requests
               PROVE  /\ \A s \in Scopes : charged[r][s] <= 1
                      /\ request[r].status = "served" =>
                            {s \in Scopes : charged[r][s] = 1} \in {{}, Due(r)}
                      /\ charged[r]["primary"] = 1 => "primary" \in Due(r)
    BY DEF ChargedWhereServed, Due
  <2>1. Owed(r) /\ Due(r) \subseteq Scopes
    BY GatewayAssumption DEF Inv, RequestInv, Due
  <2>2. /\ \A s \in Scopes : /\ charged[r][s] \in {0, 1}
                             /\ charged[r][s] = 1 => s \in Due(r)
        /\ "primary" \in Scopes
    BY <2>1 DEF Owed, Scopes
  <2>3. ASSUME request[r].status = "served"
        PROVE  {s \in Scopes : charged[r][s] = 1} \in {{}, Due(r)}
    <3>1. CASE \A s \in Scopes : charged[r][s] = 0
      BY <3>1
    <3>2. CASE \A s \in Due(r) : charged[r][s] = 1
      BY <2>1, <2>2, <3>2
    <3> QED
      BY <2>1, <2>3, <3>1, <3>2 DEF Owed
  <2> QED
    BY <2>2, <2>3
<1> QED
  BY <1>1, Invariance, PTL

\* A denied request was counted in no shared window and reached no upstream.
THEOREM DenialHolds == Spec => []DenialSparesShared
<1>1. Inv => DenialSparesShared
  BY DEF Inv, RequestInv, Checked, DenialSparesShared
<1> QED
  BY <1>1, Invariance, PTL

\* A request sent past the primary tier never reaches it, over all its retries
\* and reloads.
THEOREM SpilloverStays == Spec => []SpilloverHolds
<1>1. Inv => SpilloverHolds
  BY DEF Inv, RequestInv, Spilled, SpilloverHolds
<1> QED
  BY <1>1, Invariance, PTL

\* No step of a request takes it back before its POST once it is being relayed,
\* or answered, or over.
LEMMA OneWay ==
    ASSUME Inv, NEW r \in Requests, Next,
           request[r].pc \in {"stream", "recording", "over"}
    PROVE  request'[r].pc \in {"stream", "recording", "over"}
<1>1. request \in [Requests -> RequestType] /\ request[r] \in RequestType
  BY DEF Inv, Typed
<1>2. ASSUME NEW x \in Requests,
             x # r \/ request[x].pc \notin {"stream", "recording", "over"},
             NEW q, request' = [request EXCEPT ![x] = q]
      PROVE  request'[r].pc \in {"stream", "recording", "over"}
  BY <1>1, <1>2
<1>3. ASSUME NEW x \in Requests, NEW status, NEW n, Over(x, status, n)
      PROVE  request'[r].pc \in {"stream", "recording", "over"}
  <2> DEFINE q == [request[x] EXCEPT !.pc = "over", !.status = status, !.step = 1,
                                     !.owes = {}, !.attempt = 0, !.answer = None]
  <2>1. request' = [request EXCEPT ![x] = q]
    BY <1>3 DEF Over
  <2>2. x = r => q.pc = "over"
    BY <1>1 DEF RequestType
  <2> HIDE DEF q
  <2> QED
    BY <1>1, <2>1, <2>2
<1>4. ASSUME NEW x \in Requests, NEW success, NEW tokens, Answered(x, success, tokens)
      PROVE  request'[r].pc \in {"stream", "recording", "over"}
  BY <1>1, <1>4 DEF Answered, RequestType
<1>5. ASSUME NEW x \in Requests, NEW target \in Targets, NEW stream \in BOOLEAN,
             Call(x, target, stream)
      PROVE  request'[r].pc \in {"stream", "recording", "over"}
  BY <1>2, <1>5 DEF Call
<1>6. ASSUME NEW x \in Requests, Step(x)
      PROVE  request'[r].pc \in {"stream", "recording", "over"}
  <2>1. CASE (\E allowed \in BOOLEAN : Check(x, allowed)) \/ Admit(x)
    BY <1>1, <1>3, <2>1 DEF Check, Admit, RequestType
  <2>2. CASE Select(x)
    BY <1>1, <1>3, <2>2 DEF Select, RequestType
  <2>3. ASSUME NEW retryable, AttemptFailed(x, retryable),
               request[x].pc \in {"sent", "body"}
        PROVE  request'[r].pc \in {"stream", "recording", "over"}
    BY <1>1, <1>3, <2>3 DEF AttemptFailed, RequestType
  <2>4. CASE ConnectError(x) \/ BodyError(x)
    BY <2>3, <2>4 DEF ConnectError, BodyError
  <2>5. CASE \E answer \in Status : Headers(x, answer)
    BY <1>1, <2>5 DEF Headers, RequestType
  <2>6. ASSUME NEW tokens \in BOOLEAN, ReadBody(x, tokens)
        PROVE  request'[r].pc \in {"stream", "recording", "over"}
    <3>1. request[x].pc \in {"sent", "body"}
      BY <2>6 DEF ReadBody
    <3>2. CASE Answered(x, TRUE, tokens)
      BY <1>4, <3>2
    <3>3. CASE AttemptFailed(x, request[x].answer = "retryable")
      BY <2>3, <3>1, <3>3
    <3> QED
      BY <2>6, <3>2, <3>3 DEF ReadBody
  <2>7. CASE Backoff(x)
    BY <1>1, <2>7 DEF Backoff, RequestType
  <2>8. CASE \E broken, tokens \in BOOLEAN : StreamEnds(x, broken, tokens)
    BY <1>4, <2>8 DEF StreamEnds
  <2>9. CASE RecordTokens(x)
    BY <1>1, <2>9 DEF RecordTokens, RequestType
  <2>10. CASE Served(x)
    BY <1>3, <2>10 DEF Served
  <2> QED
    BY <1>6, <2>1, <2>2, <2>4, <2>5, <2>6, <2>7, <2>8, <2>9, <2>10 DEF Step
<1>7. ASSUME NEW x \in Requests, HangUp(x)
      PROVE  request'[r].pc \in {"stream", "recording", "over"}
  BY <1>3, <1>7 DEF HangUp
<1>8. ASSUME NEW bindings \in Snapshots, Reload(bindings)
      PROVE  request'[r].pc \in {"stream", "recording", "over"}
  BY <1>1, <1>8 DEF Reload, RequestType
<1>9. CASE Age
  BY <1>9 DEF Age
<1> QED
  BY <1>5, <1>6, <1>7, <1>8, <1>9 DEF Next

\* An answer that is being relayed, or was reported as a success, is never
\* asked for again.
THEOREM NeverResent == Spec => NeverResentAfterSuccess
<1>1. Inv /\ [Next]_vars =>
        [\A r \in Requests : request[r].pc \in {"stream", "recording", "over"} =>
              request'[r].pc \notin {"backoff", "select", "sent"}]_vars
  BY OneWay
<1> QED
  BY <1>1, Invariance, PTL DEF Spec, NeverResentAfterSuccess
----------------------------------------------------------------------------
(* Every request comes to an end.                                         *)

\* How many steps a request may still take, at most: a number that going on
\* lowers, an attempt by more than all that can happen within one.
Left(q) ==
    IF q.pc = "over" THEN 0
    ELSE 1 + 77 * (MaxRetries - q.attempt) + 11 * (6 - Phase(q))
           + (7 - q.step) + Cardinality(q.owes)

LEMMA LeftIsNat ==
    ASSUME NEW q \in RequestType
    PROVE  /\ Left(q) \in Nat
           /\ q.pc # "over" => Phase(q) \in 0..5
           /\ IsFiniteSet(q.owes) /\ Cardinality(q.owes) \in 0..3
<1>1. IsFiniteSet(Scopes) /\ Cardinality(Scopes) = 3
  <2>1. IsFiniteSet({"key"}) /\ Cardinality({"key"}) = 1
    BY FS_Singleton
  <2>2. /\ IsFiniteSet({"key"} \cup {"model"})
        /\ Cardinality({"key"} \cup {"model"})
              = IF "model" \in {"key"} THEN Cardinality({"key"}) ELSE Cardinality({"key"}) + 1
    BY <2>1, FS_AddElement
  <2>3. Cardinality({"key"} \cup {"model"}) = 2
    BY <2>1, <2>2
  <2> DEFINE two == {"key"} \cup {"model"}
  <2>4. "primary" \notin two /\ Scopes = two \cup {"primary"}
    BY DEF Scopes
  <2>5. IsFiniteSet(two) /\ Cardinality(two) = 2
    BY <2>2, <2>3
  <2> HIDE DEF two
  <2>6. /\ IsFiniteSet(two \cup {"primary"})
        /\ Cardinality(two \cup {"primary"})
              = IF "primary" \in two THEN Cardinality(two) ELSE Cardinality(two) + 1
    BY <2>5, FS_AddElement
  <2> QED
    BY <2>4, <2>5, <2>6
<1>2. q.owes \in SUBSET Scopes
  BY DEF RequestType
<1>3. /\ IsFiniteSet(q.owes) /\ Cardinality(q.owes) \in Nat
      /\ Cardinality(q.owes) <= 3
  BY <1>1, <1>2, FS_Subset, FS_CardinalityType
<1>4. q.pc # "over" => Phase(q) \in 0..5
  BY DEF RequestType, Phase
<1>5. MaxRetries - q.attempt \in Nat /\ 7 - q.step \in Nat
  BY SixChecks, GatewayAssumption DEF RequestType
<1> QED
  BY <1>3, <1>4, <1>5 DEF Left

LEMMA GoingOnLowers ==
    ASSUME NEW p \in RequestType, NEW q \in RequestType, GoesOn(p, q)
    PROVE  Left(q) < Left(p)
<1>1. /\ p.pc # "over" /\ Left(p) \in Nat /\ Left(q) \in Nat
      /\ Phase(p) \in 0..5 /\ (q.pc # "over" => Phase(q) \in 0..5)
      /\ IsFiniteSet(p.owes)
      /\ Cardinality(p.owes) \in 0..3 /\ Cardinality(q.owes) \in 0..3
  BY LeftIsNat DEF GoesOn
<1>2. /\ p.attempt \in Nat /\ q.attempt \in Nat /\ p.attempt <= MaxRetries
      /\ q.attempt <= MaxRetries /\ MaxRetries \in Nat
      /\ p.step \in 1..7 /\ q.step \in 1..7
  BY SixChecks, GatewayAssumption DEF RequestType
<1>3. Left(p) = 1 + 77 * (MaxRetries - p.attempt) + 11 * (6 - Phase(p))
                  + (7 - p.step) + Cardinality(p.owes)
  BY <1>1 DEF Left
<1>4. CASE q.pc = "over"
  BY <1>1, <1>2, <1>3, <1>4 DEF Left
<1>5. CASE q.pc # "over"
  <2>1. Left(q) = 1 + 77 * (MaxRetries - q.attempt) + 11 * (6 - Phase(q))
                    + (7 - q.step) + Cardinality(q.owes)
    BY <1>5 DEF Left
  <2>2. CASE p.attempt < q.attempt
    BY <1>1, <1>2, <1>3, <1>5, <2>1, <2>2
  <2>3. CASE p.attempt = q.attempt /\ Phase(p) < Phase(q)
    BY <1>1, <1>2, <1>3, <1>5, <2>1, <2>3
  <2>4. CASE p.attempt = q.attempt /\ p.pc = q.pc /\ p.step < q.step /\ p.owes = q.owes
    <3>1. Phase(p) = Phase(q)
      BY <2>4 DEF Phase
    <3> QED
      BY <1>1, <1>2, <1>3, <1>5, <2>1, <2>4, <3>1
  <2>5. CASE /\ p.attempt = q.attempt /\ p.pc = q.pc /\ p.step = q.step
             /\ q.owes \subseteq p.owes /\ q.owes # p.owes
    <3>1. Phase(p) = Phase(q)
      BY <2>5 DEF Phase
    <3>2. /\ Cardinality(q.owes) <= Cardinality(p.owes)
          /\ Cardinality(q.owes) = Cardinality(p.owes) => q.owes = p.owes
      BY <1>1, <2>5, FS_Subset
    <3> QED
      BY <1>1, <1>2, <1>3, <1>5, <2>1, <2>5, <3>1, <3>2
  <2> QED
    BY <1>5, <2>2, <2>3, <2>4, <2>5 DEF GoesOn
<1> QED
  BY <1>4, <1>5

\* A step leaves a request where it was, but for its snapshot, or takes it on.
Kept(p, q) == [q EXCEPT !.old = p.old] = p

\* (One that has not been called has made no attempt.)
NotCalled(q) == q.pc = "new" => q.attempt = 0

LEMMA NoWayBack ==
    ASSUME Inv, NEW r \in Requests, [Next]_vars, \A x \in Requests : NotCalled(request[x])
    PROVE  /\ Kept(request[r], request'[r]) \/ GoesOn(request[r], request'[r])
           /\ NotCalled(request'[r])
<1> DEFINE Fine == /\ Kept(request[r], request'[r]) \/ GoesOn(request[r], request'[r])
                   /\ NotCalled(request'[r])
<1>1. request \in [Requests -> RequestType] /\ request[r] \in RequestType
  BY DEF Inv, Typed
<1>2. ASSUME request'[r] = request[r] PROVE Fine
  <2>1. Kept(request[r], request[r]) /\ NotCalled(request[r])
    BY <1>1 DEF Kept, RequestType
  <2> QED
    BY <1>2, <2>1
<1>3. ASSUME NEW x \in Requests, NEW q, request' = [request EXCEPT ![x] = q],
             GoesOn(request[x], q), q.pc # "new"
      PROVE  Fine
  <2>1. CASE x = r
    BY <1>1, <1>3, <2>1 DEF NotCalled
  <2>2. CASE x # r
    BY <1>1, <1>2, <1>3, <2>2
  <2> QED
    BY <2>1, <2>2
<1> HIDE DEF Fine
<1>4. ASSUME NEW x \in Requests, NEW status, NEW n, Over(x, status, n), request[x].pc # "over"
      PROVE  Fine
  <2> DEFINE q == [request[x] EXCEPT !.pc = "over", !.status = status, !.step = 1,
                                     !.owes = {}, !.attempt = 0, !.answer = None]
  <2>1. request' = [request EXCEPT ![x] = q]
    BY <1>4 DEF Over
  <2>2. GoesOn(request[x], q) /\ q.pc # "new"
    <3>1. q.pc = "over"
      BY <1>1 DEF RequestType
    <3> HIDE DEF q
    <3> QED
      BY <1>4, <3>1 DEF GoesOn
  <2> HIDE DEF q
  <2> QED
    BY <1>3, <2>1, <2>2
<1>5. ASSUME NEW x \in Requests, NEW q, request' = [request EXCEPT ![x] = q],
             q.attempt = request[x].attempt, Phase(request[x]) < Phase(q),
             request[x].pc # "over", q.pc # "new"
      PROVE  Fine
  BY <1>3, <1>5 DEF GoesOn
<1>6. ASSUME NEW x \in Requests, NEW success, NEW tokens, Answered(x, success, tokens),
             request[x].pc \in {"body", "stream"}
      PROVE  Fine
  <2>1. PICK owes : request' = [request EXCEPT ![x] =
           [request[x] EXCEPT !.pc = "recording", !.answer = None, !.owes = owes]]
    BY <1>1, <1>6 DEF Answered
  <2>2. PICK q : q = [request[x] EXCEPT !.pc = "recording", !.answer = None, !.owes = owes]
    OBVIOUS
  <2>3. q.pc = "recording" /\ q.attempt = request[x].attempt
    BY <1>1, <2>2 DEF RequestType
  <2>4. Phase(request[x]) = 4 /\ Phase(q) = 5
    BY <1>6, <2>3 DEF Phase
  <2>5. request' = [request EXCEPT ![x] = q]
    BY <2>1, <2>2
  <2>6. Phase(request[x]) < Phase(q) /\ request[x].pc # "over" /\ q.pc # "new"
    BY <1>6, <2>3, <2>4
  <2> QED
    BY <1>5, <2>3, <2>5, <2>6
<1>7. ASSUME NEW x \in Requests, NEW target \in Targets, NEW stream \in BOOLEAN,
             Call(x, target, stream)
      PROVE  Fine
  <2>1. PICK q : q = [Fresh EXCEPT !.pc = "checking", !.target = target, !.stream = stream]
    OBVIOUS
  <2>2. q.pc = "checking" /\ q.attempt = 0
    BY <2>1 DEF Fresh
  <2>3. /\ request[x].pc = "new" /\ request' = [request EXCEPT ![x] = q]
    BY <1>7, <2>1 DEF Call
  <2>4. Phase(request[x]) = 0 /\ Phase(q) = 1
    BY <2>2, <2>3 DEF Phase
  <2>5. request[x].attempt = 0
    BY <2>3 DEF NotCalled
  <2>6. Phase(request[x]) < Phase(q) /\ request[x].pc # "over" /\ q.pc # "new"
    BY <2>2, <2>3, <2>4
  <2> QED
    BY <1>5, <2>2, <2>3, <2>5, <2>6
<1>8. ASSUME NEW x \in Requests, Step(x)
      PROVE  Fine
  <2>0. request[x] \in RequestType
    BY <1>1
  <2>1. CASE \E allowed \in BOOLEAN : Check(x, allowed)
    <3>1. PICK allowed \in BOOLEAN : Check(x, allowed)
      BY <2>1
    <3>2. request[x].pc = "checking"
      BY <3>1 DEF Check
    <3>3. CASE Over(x, "denied", 1)
      BY <1>4, <3>2, <3>3
    <3>4. CASE request' = [request EXCEPT ![x].step = @ + 1, ![x].min = IF allowed THEN @ ELSE 1]
      <4>1. PICK q : q = [request[x] EXCEPT !.step = request[x].step + 1,
                                            !.min = IF allowed THEN request[x].min ELSE 1]
        OBVIOUS
      <4>2. /\ q.step = request[x].step + 1 /\ q.pc = request[x].pc
            /\ q.attempt = request[x].attempt /\ q.owes = request[x].owes
        BY <2>0, <4>1 DEF RequestType
      <4>3. request' = [request EXCEPT ![x] = q]
        BY <1>1, <3>4, <4>1
      <4>4. request[x].step \in Nat
        BY <2>0, SixChecks DEF RequestType
      <4>5. GoesOn(request[x], q)
        BY <3>2, <4>2, <4>4 DEF GoesOn
      <4> QED
        BY <1>3, <3>2, <4>2, <4>3, <4>5
    <3> QED
      BY <3>1, <3>3, <3>4 DEF Check
  <2>2. CASE Admit(x)
    <3>1. request[x].pc = "checking"
      BY <2>2 DEF Admit
    <3>2. CASE Over(x, "bad_request", 0)
      BY <1>4, <3>1, <3>2
    <3>3. CASE ~ Over(x, "bad_request", 0)
      <4>1. PICK q : q = [request[x] EXCEPT !.pc = "select", !.step = 1,
                            !.owes = {s \in TpmLimits : s = "primary" => request[x].min = 0}]
        OBVIOUS
      <4>2. q.pc = "select" /\ q.attempt = request[x].attempt
        BY <2>0, <4>1 DEF RequestType
      <4>3. request' = [request EXCEPT ![x] = q]
        BY <1>1, <2>2, <3>3, <4>1 DEF Admit
      <4>4. Phase(request[x]) = 1 /\ Phase(q) = 2
        BY <3>1, <4>2 DEF Phase
      <4>5. Phase(request[x]) < Phase(q) /\ request[x].pc # "over" /\ q.pc # "new"
        BY <3>1, <4>2, <4>4
      <4> QED
        BY <1>5, <4>2, <4>3, <4>5
    <3> QED
      BY <3>2, <3>3
  <2>3. CASE Select(x)
    <3>1. request[x].pc = "select"
      BY <2>3 DEF Select
    <3>2. CASE Over(x, "no_upstream", 1)
      BY <1>4, <3>1, <3>2
    <3>3. CASE ~ Over(x, "no_upstream", 1)
      <4>1. PICK b : request' = [request EXCEPT ![x].pc = "sent", ![x].up = b, ![x].old = FALSE]
        BY <2>3, <3>3 DEF Select
      <4>2. PICK q : q = [request[x] EXCEPT !.pc = "sent", !.up = b, !.old = FALSE]
        OBVIOUS
      <4>3. q.pc = "sent" /\ q.attempt = request[x].attempt
        BY <2>0, <4>2 DEF RequestType
      <4>4. request' = [request EXCEPT ![x] = q]
        BY <1>1, <4>1, <4>2
      <4>5. Phase(request[x]) = 2 /\ Phase(q) = 3
        BY <3>1, <4>3 DEF Phase
      <4>6. Phase(request[x]) < Phase(q) /\ request[x].pc # "over" /\ q.pc # "new"
        BY <3>1, <4>3, <4>5
      <4> QED
        BY <1>5, <4>3, <4>4, <4>6
    <3> QED
      BY <3>2, <3>3
  <2>4. ASSUME NEW retryable, AttemptFailed(x, retryable), request[x].pc \in {"sent", "body"}
        PROVE  Fine
    <3>1. CASE Over(x, "failed", 1)
      BY <1>4, <2>4, <3>1
    <3>2. CASE request' = [request EXCEPT ![x].pc = "backoff", ![x].answer = None]
      <4>1. PICK q : q = [request[x] EXCEPT !.pc = "backoff", !.answer = None]
        OBVIOUS
      <4>2. q.pc = "backoff" /\ q.attempt = request[x].attempt
        BY <2>0, <4>1 DEF RequestType
      <4>3. request' = [request EXCEPT ![x] = q]
        BY <1>1, <3>2, <4>1
      <4>4. Phase(request[x]) \in {3, 4} /\ Phase(q) = 5
        BY <2>4, <4>2 DEF Phase
      <4>5. Phase(request[x]) < Phase(q) /\ request[x].pc # "over" /\ q.pc # "new"
        BY <2>4, <4>2, <4>4
      <4> QED
        BY <1>5, <4>2, <4>3, <4>5
    <3> QED
      BY <2>4, <3>1, <3>2 DEF AttemptFailed
  <2>5. CASE ConnectError(x) \/ BodyError(x)
    BY <2>4, <2>5 DEF ConnectError, BodyError
  <2>6. CASE \E answer \in Status : Headers(x, answer)
    <3>1. PICK answer \in Status : Headers(x, answer)
      BY <2>6
    <3>2. PICK place : /\ place \in {"body", "stream"}
                       /\ request' = [request EXCEPT ![x].pc = place, ![x].answer = answer]
      BY <3>1 DEF Headers
    <3>3. PICK q : q = [request[x] EXCEPT !.pc = place, !.answer = answer]
      OBVIOUS
    <3>4. q.pc = place /\ q.attempt = request[x].attempt
      BY <2>0, <3>3 DEF RequestType
    <3>5. request' = [request EXCEPT ![x] = q]
      BY <1>1, <3>2, <3>3
    <3>6. request[x].pc = "sent"
      BY <3>1 DEF Headers
    <3>7. Phase(request[x]) = 3 /\ Phase(q) = 4
      BY <3>2, <3>4, <3>6 DEF Phase
    <3>8. Phase(request[x]) < Phase(q) /\ request[x].pc # "over" /\ q.pc # "new"
      BY <3>2, <3>4, <3>6, <3>7
    <3> QED
      BY <1>5, <3>4, <3>5, <3>8
  <2>7. CASE \E tokens \in BOOLEAN : ReadBody(x, tokens)
    <3>1. PICK tokens \in BOOLEAN : ReadBody(x, tokens)
      BY <2>7
    <3>2. CASE Answered(x, TRUE, tokens)
      BY <1>6, <3>1, <3>2 DEF ReadBody
    <3>3. CASE AttemptFailed(x, request[x].answer = "retryable")
      BY <2>4, <3>1, <3>3 DEF ReadBody
    <3> QED
      BY <3>1, <3>2, <3>3 DEF ReadBody
  <2>8. CASE Backoff(x)
    <3>1. PICK q : q = [request[x] EXCEPT !.pc = "select", !.attempt = request[x].attempt + 1]
      OBVIOUS
    <3>2. q.attempt = request[x].attempt + 1 /\ q.pc = "select"
      BY <2>0, <3>1 DEF RequestType
    <3>3. request[x].pc = "backoff" /\ request' = [request EXCEPT ![x] = q]
      BY <1>1, <2>8, <3>1 DEF Backoff
    <3>4. request[x].attempt \in Nat
      BY <2>0, GatewayAssumption DEF RequestType
    <3>5. GoesOn(request[x], q)
      BY <3>2, <3>3, <3>4 DEF GoesOn
    <3> QED
      BY <1>3, <3>2, <3>3, <3>5
  <2>9. CASE \E broken, tokens \in BOOLEAN : StreamEnds(x, broken, tokens)
    BY <1>6, <2>9 DEF StreamEnds
  <2>10. CASE RecordTokens(x)
    <3>1. PICK s : s = CHOOSE c \in request[x].owes :
                          \/ c = "key"
                          \/ c = "model" /\ "key" \notin request[x].owes
                          \/ request[x].owes = {"primary"}
      OBVIOUS
    <3>2. PICK q : q = [request[x] EXCEPT !.owes = request[x].owes \ {s}]
      OBVIOUS
    <3>3. /\ q.owes = request[x].owes \ {s} /\ q.pc = request[x].pc
          /\ q.step = request[x].step /\ q.attempt = request[x].attempt
      BY <2>0, <3>2 DEF RequestType
    <3>4. /\ request[x].pc = "recording" /\ request[x].owes # {}
          /\ request' = [request EXCEPT ![x] = q]
      BY <1>1, <2>10, <3>1, <3>2 DEF RecordTokens
    <3>5. s \in request[x].owes
      BY <2>0, <3>1, <3>4 DEF RequestType, Scopes
    <3>6. GoesOn(request[x], q)
      BY <3>3, <3>4, <3>5 DEF GoesOn
    <3> QED
      BY <1>3, <3>3, <3>4, <3>6
  <2>11. CASE Served(x)
    BY <1>4, <2>11 DEF Served
  <2> QED
    BY <1>8, <2>1, <2>2, <2>3, <2>5, <2>6, <2>7, <2>8, <2>9, <2>10, <2>11 DEF Step
<1>9. ASSUME NEW x \in Requests, HangUp(x)
      PROVE  Fine
  BY <1>4, <1>9 DEF HangUp
<1>10. ASSUME NEW bindings \in Snapshots, Reload(bindings)
       PROVE  Fine
  <2>1. request'[r] = [request[r] EXCEPT !.old = request[r].up # None]
    BY <1>10 DEF Reload
  <2>2. Kept(request[r], request'[r]) /\ NotCalled(request'[r])
    <3>1. NotCalled(request[r])
      OBVIOUS
    <3> QED
      BY <1>1, <2>1, <3>1 DEF Kept, RequestType, NotCalled
  <2> QED
    BY <2>2 DEF Fine
<1>11. CASE Age
  <2>1. request' = request
    BY <1>11 DEF Age
  <2>2. request'[r] = request[r]
    BY <2>1
  <2> QED
    BY <1>2, <2>2 DEF Fine
<1>12. CASE UNCHANGED vars
  <2>1. request' = request
    BY <1>12 DEF vars
  <2>2. request'[r] = request[r]
    BY <2>1
  <2> QED
    BY <1>2, <2>2 DEF Fine
<1> QED
  BY <1>7, <1>8, <1>9, <1>10, <1>11, <1>12 DEF Next, Fine

\* No step brings a request back to where it was: every one takes it on, and the
\* number of steps that it may still take at most becomes less.
THEOREM EveryStepGoesOnHolds ==
    Spec => /\ EveryStepGoesOn
            /\ [][\A r \in Requests :
                     [request'[r] EXCEPT !.old = request[r].old] # request[r]
                         => Left(request'[r]) < Left(request[r])]_vars
<1> DEFINE NobodyYet == \A r \in Requests : NotCalled(request[r])
<1>1. Init => NobodyYet
  BY DEF Init, Fresh, NotCalled
<1>2. Inv /\ NobodyYet /\ [Next]_vars => NobodyYet'
  BY NoWayBack
<1>3. Inv /\ NobodyYet /\ [Next]_vars =>
        [\A r \in Requests : [request'[r] EXCEPT !.old = request[r].old] # request[r]
                                 => GoesOn(request[r], request'[r])]_vars
  BY NoWayBack DEF Kept
<1>4. Inv /\ Inv' /\ NobodyYet /\ [Next]_vars =>
        [\A r \in Requests : [request'[r] EXCEPT !.old = request[r].old] # request[r]
                                 => Left(request'[r]) < Left(request[r])]_vars
  <2> SUFFICES ASSUME Inv, Inv', NobodyYet, [Next]_vars, NEW r \in Requests,
                      [request'[r] EXCEPT !.old = request[r].old] # request[r]
               PROVE  Left(request'[r]) < Left(request[r])
    OBVIOUS
  <2>1. GoesOn(request[r], request'[r])
    BY NoWayBack DEF Kept
  <2>2. request[r] \in RequestType /\ request'[r] \in RequestType
    BY DEF Inv, Typed
  <2> QED
    BY <2>1, <2>2, GoingOnLowers
<1> HIDE DEF NobodyYet
<1> QED
  BY <1>1, <1>2, <1>3, <1>4, Invariance, PTL DEF Spec, EveryStepGoesOn
=============================================================================
