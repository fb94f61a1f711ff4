------------------------------ MODULE Gateway ------------------------------
(***************************************************************************)
(* The life of a request in the gateway: the rate-limit checks of          *)
(* server/src/server.rs, then the retry loop of the route_* handlers of    *)
(* server/src/router.rs, each attempt choosing an upstream anew, and for a *)
(* streamed answer the task that relays it after the handler has returned. *)
(*                                                                         *)
(* One model, one protocol, one group.  What the handlers await is a step  *)
(* boundary.  A breaker call and a selection are each one step             *)
(* (CircuitBreaker and UpstreamGroup take them apart).  A limiter may      *)
(* allow or deny whatever it is asked: its windows hold other requests     *)
(* too, and MemoryRateLimiter says when it does which.                     *)
(***************************************************************************)
EXTENDS Breaker, FiniteSets, Sequences, FiniteSetsExt

CONSTANTS Requests,
          Bindings, Priority, \* what the snapshots hold, in vector order
          Snapshots,          \* the groups a reload may install
          Providers,          \* the bindings of each provider a client may name
          RpmLimits,          \* the scopes that have an RPM limit ...
          TpmLimits,          \* ... and a TPM limit
          MaxRetries,         \* retry_config.max_retries
          MaxReloads,         \* bound: hot reloads
          None

Scopes == {"key", "model", "primary"}
Status == {"ok", "retryable", "fatal"}
Endings == {"served", "failed", "no_upstream", "denied", "bad_request", "hung_up"}

ASSUME GatewayAssumption ==
    /\ IsFiniteSet(Requests)
    /\ Bindings \subseteq Nat
    /\ IsFiniteSet(Bindings)
    /\ Priority \in [Bindings -> {0, 1}]
    /\ Snapshots \subseteq SUBSET Bindings
    /\ Bindings \in Snapshots
    /\ Providers \subseteq SUBSET Bindings
    /\ RpmLimits \subseteq Scopes
    /\ TpmLimits \subseteq Scopes
    /\ MaxRetries \in Nat
    /\ MaxReloads \in Nat
    /\ None \notin Nat \cup Status \cup Endings

VARIABLES request,   \* [request -> its record]
          group,     \* the bindings of the current snapshot ...
          breaker,   \* ... and their circuit breakers
          reloads    \* snapshots stored so far

(* History, read by no action of the program.                              *)
VARIABLES debt,      \* [request -> POSTs whose outcome no breaker was told]
          reached,   \* [request -> the bindings it was POSTed to]
          records,   \* [request -> access records emitted]
          counted,   \* [request -> RPM scopes that counted it]
          charged    \* [request -> [scope -> times its tokens were recorded]]

history == <<debt, reached, records, counted, charged>>
vars == <<request, group, breaker, reloads, history>>

\* The clock stays at Now and the breakers' stamps grow older.
Now == Timeout
----------------------------------------------------------------------------
\* Mutant: the shared bucket before the requester's own.
ChecksWideFirst ==
           << [dim |-> "tpm", scope |-> "key"], [dim |-> "tpm", scope |-> "model"],
             [dim |-> "rpm", scope |-> "model"], [dim |-> "rpm", scope |-> "key"],
             [dim |-> "rpm", scope |-> "primary"], [dim |-> "tpm", scope |-> "primary"] >>

\* The checks in the order of the code: those that count nothing come first,
\* then narrow before wide, then the primary tier's.
Checks == << [dim |-> "tpm", scope |-> "key"], [dim |-> "tpm", scope |-> "model"],
             [dim |-> "rpm", scope |-> "key"], [dim |-> "rpm", scope |-> "model"],
             [dim |-> "rpm", scope |-> "primary"], [dim |-> "tpm", scope |-> "primary"] >>

\* What a client may ask for: a tiered endpoint (chat, messages, embeddings),
\* or /v1/responses, which is pinned to the provider a header names: one that
\* is configured, one that is not, or none at all.
Targets == [endpoint : {"tiered"}, pin : {Bindings}]
           \cup [endpoint : {"pinned"}, pin : Providers \cup {{}}]
           \cup [endpoint : {"pinned"}, pin : {None}]

\* pc: the client has not called; in check number step; about to choose an
\* upstream; POST sent; headers in, body to come; sleeping before a retry;
\* relaying a stream; recording tokens; over.  "old": the upstream belongs to
\* a snapshot that has been replaced.
Fresh == [pc |-> "new", stream |-> FALSE, step |-> 1, min |-> 0,
          target |-> [endpoint |-> "tiered", pin |-> Bindings],
          owes |-> {}, attempt |-> 0, up |-> None, old |-> FALSE,
          answer |-> None, status |-> None]

TypeOK ==
    /\ request \in [Requests ->
           [pc : {"new", "checking", "select", "sent", "body", "backoff",
                  "stream", "recording", "over"},
            target : Targets, stream : BOOLEAN, step : 1..Len(Checks) + 1,
            min : {0, 1}, owes : SUBSET Scopes, attempt : 0..MaxRetries,
            up : Bindings \cup {None}, old : BOOLEAN,
            answer : Status \cup {None}, status : Endings \cup {None}]]
    /\ \A r \in Requests :
          LET q == request[r]
          IN  /\ q.pc \in {"sent", "body", "stream", "recording"} =>
                    q.up # None /\ (q.old \/ q.up \in group)
              /\ q.pc = "over" <=> q.status # None
              /\ q.pc = "backoff" => q.attempt + 1 < MaxRetries
    /\ group \in Snapshots
    /\ breaker \in [Bindings -> BreakerType]
    /\ reloads \in 0..MaxReloads
    /\ debt \in [Requests -> {0, 1}]
    /\ reached \in [Requests -> SUBSET Bindings]
    /\ records \in [Requests -> Nat]
    /\ counted \in [Requests -> SUBSET Scopes]
    /\ charged \in [Requests -> [Scopes -> Nat]]

Init ==
    /\ request = [r \in Requests |-> Fresh]
    /\ group = Bindings
    /\ breaker = [b \in Bindings |-> NewBreaker(0)]
    /\ reloads = 0
    /\ debt = [r \in Requests |-> 0]
    /\ reached = [r \in Requests |-> {}]
    /\ records = [r \in Requests |-> 0]
    /\ counted = [r \in Requests |-> {}]
    /\ charged = [r \in Requests |-> [s \in Scopes |-> 0]]
----------------------------------------------------------------------------
\* The handler or the stream task ends, and its locals with it, after emitting
\* n access records.
Over(r, status, n) ==
    /\ request' = [request EXCEPT ![r] =
           [@ EXCEPT !.pc = "over", !.status = status, !.step = 1,
                     !.owes = {}, !.attempt = 0, !.answer = None]]
    /\ records' = [records EXCEPT ![r] = @ + n]

Call(r, target, stream) ==
    /\ request[r].pc = "new"
    /\ request' = [request EXCEPT ![r] =
           [Fresh EXCEPT !.pc = "checking", !.target = target, !.stream = stream]]
    /\ UNCHANGED <<group, breaker, reloads, history>>

\* One check of check_rate_limits, and the limiter's answer.  Exceeding a
\* client-facing limit is a 429, exceeding the primary tier's sends the request
\* past it; once that is so, the tier's tokens are not looked at.
Check(r, allowed) ==
    LET k == Checks[request[r].step]
        limited == k.scope \in (IF k.dim = "rpm" THEN RpmLimits ELSE TpmLimits)
        asked == limited /\ request[r].min = 0
    IN  /\ request[r].pc = "checking"
        /\ request[r].step <= Len(Checks)
        /\ ~asked => allowed
        /\ IF ~allowed /\ k.scope # "primary"
           THEN Over(r, "denied", 1)
           ELSE /\ request' = [request EXCEPT
                       ![r].step = @ + 1,
                       ![r].min = IF allowed THEN @ ELSE 1]
                /\ UNCHANGED records
        /\ counted' = IF asked /\ allowed /\ k.dim = "rpm"
                      THEN [counted EXCEPT ![r] = @ \cup {k.scope}]
                      ELSE counted
        /\ UNCHANGED <<group, breaker, reloads, debt, reached, charged>>

\* The checks are passed: which token buckets the response will be charged to.
\* A pinned request without its provider ends here, without an access record.
Admit(r) ==
    /\ request[r].pc = "checking"
    /\ request[r].step > Len(Checks)
    /\ IF request[r].target.pin = None
       THEN Over(r, "bad_request", 0)
       ELSE /\ request' = [request EXCEPT
                   ![r].pc = "select",
                   ![r].step = 1,
                   ![r].owes = {s \in TpmLimits : s = "primary" => request[r].min = 0}]
            /\ UNCHANGED records
    /\ UNCHANGED <<group, breaker, reloads, debt, reached, counted, charged>>
----------------------------------------------------------------------------
Available(b) == CanExecute(breaker[b], Now)

\* What a request may be given, and which breakers are looked at on the way.
\* Tiers are gone through in order up to the first with an available binding;
\* which of its bindings wins is the routing strategy's choice.
Tiered(min) ==
    LET candidates == {b \in group : Priority[b] >= min}
        tier == {Priority[b] : b \in {c \in candidates : Available(c)}}
    IN  IF tier = {} THEN [choices |-> {}, tested |-> candidates]
        ELSE [choices |-> {b \in candidates : Priority[b] = Min(tier) /\ Available(b)},
              tested |-> {b \in candidates : Priority[b] <= Min(tier)}]

\* find_by_provider_id() tests a binding before it compares its provider, and
\* it does not know min_priority.
Pinned(pin) ==
    LET open == {b \in pin \cap group : Available(b)}
    IN  IF open = {} THEN [choices |-> {}, tested |-> group]
        ELSE [choices |-> {Min(open)}, tested |-> {b \in group : b <= Min(open)}]

\* Mutant: min_priority is not passed on to the retries.
FoundAnywhere(r) ==
    IF request[r].target.endpoint = "tiered"
    THEN Tiered(IF request[r].attempt = 0 THEN request[r].min ELSE 0)
    ELSE Pinned(request[r].target.pin)

Found(r) ==
    IF request[r].target.endpoint = "tiered" THEN Tiered(request[r].min)
    ELSE Pinned(request[r].target.pin)

Select(r) ==
    LET found == Found(r)
    IN  /\ request[r].pc = "select"
        /\ breaker' = [b \in Bindings |->
               IF b \in found.tested THEN CheckAndUpdate(breaker[b], Now) ELSE breaker[b]]
        /\ \/ /\ found.choices = {}
              /\ Over(r, "no_upstream", 1)
              /\ UNCHANGED <<debt, reached>>
           \/ \E b \in found.choices :
              /\ request' = [request EXCEPT ![r].pc = "sent", ![r].up = b,
                                            ![r].old = FALSE]
              /\ debt' = [debt EXCEPT ![r] = @ + 1]
              /\ reached' = [reached EXCEPT ![r] = @ \cup {b}]
              /\ UNCHANGED records
        /\ UNCHANGED <<group, reloads, counted, charged>>

\* The outcome goes to the breaker of the upstream that was chosen; after a
\* reload nobody looks at that one any more.
Report(r, success) ==
    /\ breaker' = IF request[r].old THEN breaker
                  ELSE [breaker EXCEPT ![request[r].up] = RecordOutcome(@, success, Now)]
    /\ debt' = [debt EXCEPT ![r] = @ - 1]

\* Mutant: an access record for every failed attempt.
AttemptFailedLogs(r, retryable) ==
    /\ Report(r, FALSE)
    /\ IF retryable /\ request[r].attempt + 1 < MaxRetries
       THEN /\ request' = [request EXCEPT ![r].pc = "backoff", ![r].answer = None]
            /\ records' = [records EXCEPT ![r] = @ + 1]
       ELSE Over(r, "failed", 1)
    /\ UNCHANGED <<group, reloads, reached, counted, charged>>

\* The end of an attempt that failed: sleep and retry, or give up.
AttemptFailed(r, retryable) ==
    /\ Report(r, FALSE)
    /\ IF retryable /\ request[r].attempt + 1 < MaxRetries
       THEN /\ request' = [request EXCEPT ![r].pc = "backoff", ![r].answer = None]
            /\ UNCHANGED records
       ELSE Over(r, "failed", 1)
    /\ UNCHANGED <<group, reloads, reached, counted, charged>>

\* send().await failed: answered with 503, which is retryable.
ConnectError(r) == request[r].pc = "sent" /\ AttemptFailed(r, TRUE)

\* The status is in.  Only a streamed success leaves the retry loop here.
Headers(r, answer) ==
    /\ request[r].pc = "sent"
    /\ request' = [request EXCEPT
           ![r].pc = IF request[r].stream /\ answer = "ok" THEN "stream" ELSE "body",
           ![r].answer = answer]
    /\ UNCHANGED <<group, breaker, reloads, history>>

\* Mutant: the primary tier is charged for what the fallback served.
AnsweredUnrefined(r, success, tokens) ==
    /\ Report(r, success)
    /\ request' = [request EXCEPT ![r].pc = "recording", ![r].answer = None,
                                  ![r].owes = IF tokens THEN @ ELSE {}]
    /\ UNCHANGED <<group, reloads, reached, records, counted, charged>>

\* The response is there, or as much of it as there will be: report it, then
\* record its tokens, if it told them, as record_tokens has them to do.
Answered(r, success, tokens) ==
    /\ Report(r, success)
    /\ request' = [request EXCEPT
           ![r].pc = "recording",
           ![r].answer = None,
           ![r].owes = IF tokens
                       THEN {s \in @ : s = "primary" => Priority[request[r].up] = 0}
                       ELSE {}]
    /\ UNCHANGED <<group, reloads, reached, records, counted, charged>>

ReadBody(r, tokens) ==
    /\ request[r].pc = "body"
    /\ IF request[r].answer = "ok" THEN Answered(r, TRUE, tokens)
       ELSE AttemptFailed(r, request[r].answer = "retryable")

\* Mutant: the upstream is not blamed for a body that breaks off.
BodyErrorUnreported(r) ==
    /\ request[r].pc = "body"
    /\ Over(r, "failed", 1)
    /\ UNCHANGED <<group, breaker, reloads, debt, reached, counted, charged>>

\* The body breaks off: answered with 500, which is retryable, even when the
\* upstream had said 200.
BodyError(r) == request[r].pc = "body" /\ AttemptFailed(r, TRUE)

\* Mutant: the attempts are not counted.
BackoffForever(r) ==
    /\ request[r].pc = "backoff"
    /\ request' = [request EXCEPT ![r].pc = "select"]
    /\ UNCHANGED <<group, breaker, reloads, history>>

Backoff(r) ==
    /\ request[r].pc = "backoff"
    /\ request' = [request EXCEPT ![r].pc = "select", ![r].attempt = @ + 1]
    /\ UNCHANGED <<group, breaker, reloads, history>>

\* Mutant: a stream that breaks is retried.
StreamEndsRetried(r, broken, tokens) ==
    /\ request[r].pc = "stream"
    /\ IF broken THEN AttemptFailed(r, TRUE) ELSE Answered(r, TRUE, tokens)

\* The spawned task: the stream drains or the client goes away, or it breaks;
\* usage seen before that is recorded in every case.
StreamEnds(r, broken, tokens) ==
    request[r].pc = "stream" /\ Answered(r, ~broken, tokens)

\* record_tokens(): key, then model, then primary, an await each.
RecordTokens(r) ==
    LET s == CHOOSE s \in request[r].owes :
                 \/ s = "key"
                 \/ s = "model" /\ "key" \notin request[r].owes
                 \/ request[r].owes = {"primary"}
    IN  /\ request[r].pc = "recording"
        /\ request[r].owes # {}
        /\ charged' = [charged EXCEPT ![r][s] = @ + 1]
        /\ request' = [request EXCEPT ![r].owes = @ \ {s}]
        /\ UNCHANGED <<group, breaker, reloads, debt, reached, records, counted>>

Served(r) ==
    /\ request[r].pc = "recording"
    /\ request[r].owes = {}
    /\ Over(r, "served", 1)
    /\ UNCHANGED <<group, breaker, reloads, debt, reached, counted, charged>>
----------------------------------------------------------------------------
\* The client closes the connection while the handler runs: hyper drops its
\* future at the await it is in, and nothing more of it happens.  A stream is
\* relayed by a task of its own and does not come here (StreamEnds).
HangUp(r) ==
    /\ \/ request[r].pc \in {"checking", "sent", "body", "backoff"}
       \/ /\ request[r].pc = "recording"
          /\ ~request[r].stream
          /\ request[r].owes # {}
    /\ Over(r, "hung_up", 0)
    /\ UNCHANGED <<group, breaker, reloads, debt, reached, counted, charged>>

\* Mutant: a binding of the old snapshot is taken for one of the new.
ReloadInPlace(bindings) ==
    /\ reloads < MaxReloads
    /\ reloads' = reloads + 1
    /\ group' = bindings
    /\ breaker' = [b \in Bindings |-> NewBreaker(0)]
    /\ UNCHANGED <<request, history>>

\* reload_all(): a new snapshot, with breakers of its own.
Reload(bindings) ==
    /\ reloads < MaxReloads
    /\ reloads' = reloads + 1
    /\ group' = bindings
    /\ breaker' = [b \in Bindings |-> NewBreaker(0)]
    /\ request' = [r \in Requests |-> [request[r] EXCEPT !.old = request[r].up # None]]
    /\ UNCHANGED history

\* Time passes for the breakers.
Age ==
    /\ \E b \in Bindings : breaker[b].since > 0
    /\ breaker' = [b \in Bindings |->
                      [breaker[b] EXCEPT !.since = IF @ > 0 THEN @ - 1 ELSE 0]]
    /\ UNCHANGED <<request, group, reloads, history>>

\* What the gateway and the upstream do for a request once it has been called.
Step(r) ==
    \/ \E allowed \in BOOLEAN : Check(r, allowed)
    \/ Admit(r)
    \/ Select(r)
    \/ ConnectError(r)
    \/ \E answer \in Status : Headers(r, answer)
    \/ \E tokens \in BOOLEAN : ReadBody(r, tokens)
    \/ BodyError(r)
    \/ Backoff(r)
    \/ \E broken, tokens \in BOOLEAN : StreamEnds(r, broken, tokens)
    \/ RecordTokens(r)
    \/ Served(r)

Next ==
    \/ \E r \in Requests :
         \/ \E target \in Targets, stream \in BOOLEAN : Call(r, target, stream)
         \/ Step(r)
         \/ HangUp(r)
    \/ \E bindings \in Snapshots : Reload(bindings)
    \/ Age

Spec == Init /\ [][Next]_vars
----------------------------------------------------------------------------
\* Every request leaves exactly one access record, whatever its retries and
\* whether it is the handler or the stream task that ends it; only one whose
\* client hung up, or that named no provider, leaves none (emit_access_log in
\* the route_* handlers and emit_rl_log).
OneRecord ==
    \A r \in Requests :
        records[r] = IF request[r].status \in {None, "hung_up", "bad_request"}
                     THEN 0 ELSE 1

\* Every POST has one report to the breaker of its upstream before the next
\* POST, the backoff or the end: no outcome is lost, none counted twice, except
\* that a client that hangs up takes the outcome of its last POST with it.
OneReportPerPost ==
    \A r \in Requests :
        /\ debt[r] \in {0, 1}
        /\ request[r].status # "hung_up" =>
               (debt[r] = 1 <=> request[r].pc \in {"sent", "body", "stream"})

\* Tokens are charged once, all of them or none, and the primary tier's bucket
\* is charged exactly when the response came from the primary tier to a request
\* that was not sent past it: "health-driven fallback requests ... do not
\* pollute the primary TPM bucket" (core/src/rate_limit.rs:46).
ChargedWhereServed ==
    \A r \in Requests :
        LET due == {s \in TpmLimits :
                       s = "primary" => /\ request[r].min = 0
                                        /\ Priority[request[r].up] = 0}
        IN  /\ \A s \in Scopes : charged[r][s] <= 1
            /\ request[r].status = "served" =>
                   {s \in Scopes : charged[r][s] = 1} \in {{}, due}
            /\ charged[r]["primary"] = 1 => "primary" \in due

\* "A rejection only affects the requester's own quota and does not consume
\* any slot in the shared model-level bucket" (server/src/server.rs:152): a
\* denied request was counted in no shared window, and reached no upstream.
DenialSparesShared ==
    \A r \in Requests : request[r].status = "denied" =>
        counted[r] \subseteq {"key"} /\ reached[r] = {}

\* A tiered request that was sent past the primary tier stays past it, through
\* all of its retries and the reloads between them; and one that the primary
\* tier has counted was not sent past it for want of requests.
SpilloverHolds ==
    \A r \in Requests : request[r].min = 1 =>
        /\ request[r].target.endpoint = "tiered" =>
               \A b \in reached[r] : Priority[b] = 1
        /\ "primary" \in counted[r] => "primary" \in TpmLimits

\* A response that is being relayed to the client, or was reported to a breaker
\* as a success, is never asked for a second time: a stream that breaks is not
\* retried (the attempt closure returns it as soon as its status is in).
NeverResentAfterSuccess ==
    [][\A r \in Requests : request[r].pc \in {"stream", "recording", "over"} =>
           request'[r].pc \notin {"backoff", "select", "sent"}]_vars

\* Whether a request gets from p to q by going on: to the end, to another
\* attempt, further in this one, to the next check, or with fewer to charge.
Phase(p) ==
    CASE p.pc = "new" -> 0
      [] p.pc = "checking" -> 1
      [] p.pc = "select" -> 2
      [] p.pc = "sent" -> 3
      [] p.pc \in {"body", "stream"} -> 4
      [] p.pc \in {"backoff", "recording"} -> 5
      [] p.pc = "over" -> 6

GoesOn(p, q) ==
    /\ p.pc # "over"
    /\ \/ q.pc = "over"
       \/ p.attempt < q.attempt
       \/ p.attempt = q.attempt /\ Phase(p) < Phase(q)
       \/ /\ p.attempt = q.attempt /\ p.pc = q.pc
          /\ \/ p.step < q.step /\ p.owes = q.owes
             \/ p.step = q.step /\ q.owes \subseteq p.owes /\ q.owes # p.owes

\* No step, of its own or of another request, brings a request back to where it
\* was, so that each attempt uses up one of max_retries however it ended
\* (execute_response_with_retry); a reload only makes its upstream an old one.
EveryStepGoesOn ==
    [][\A r \in Requests :
          [request'[r] EXCEPT !.old = request[r].old] # request[r]
              => GoesOn(request[r], request'[r])]_vars

\* Every request comes to an end, whatever fails: once it has been called it can
\* always take a step, and every step takes it further.
EveryRequestEnds ==
    /\ [](\A r \in Requests : request[r].pc \notin {"new", "over"} => ENABLED Step(r))
    /\ EveryStepGoesOn
=============================================================================
