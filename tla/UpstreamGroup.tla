--------------------------- MODULE UpstreamGroup ---------------------------
(***************************************************************************)
(* The choice of an upstream inside one group: tiers of priority, the      *)
(* availability test of each binding (core/src/upstream/node.rs), and then *)
(* smooth weighted round robin or weighted hashing, whichever the group    *)
(* has (core/src/upstream/routing.rs).                                     *)
(*                                                                         *)
(* A caller tests the bindings of a tier one after the other, each test    *)
(* against the breaker as it then is, and locks swrr_lock only afterwards: *)
(* other callers choose, and report outcomes, in between.  A breaker's     *)
(* methods are atomic here; CircuitBreaker has their races.                *)
(*                                                                         *)
(* Only the age of a breaker's last change matters, so the clock stays at  *)
(* Now and the stamps grow older: since = 0 is a timeout ago or more.      *)
(***************************************************************************)
EXTENDS Breaker, FiniteSets, FiniteSetsExt

CONSTANTS Bindings,   \* positions in group.upstreams
          Weight,     \* [binding -> strategy_config.weight()]
          Priority,   \* [binding -> its tier]
          Enabled,    \* bindings that are enabled and healthy
          Callers,    \* requests choosing an upstream or using one
          Strategies, \* what the group's strategy may be
          Keys,       \* routing keys: a header, the API key, or a fresh one
          Score,      \* [key -> [binding -> its weighted_hash_score]]
          None

ASSUME GroupAssumption ==
    /\ Bindings \subseteq Nat
    /\ IsFiniteSet(Bindings)
    /\ Bindings # {}
    /\ Weight \in [Bindings -> 1..255]
    /\ Priority \in [Bindings -> 0..255]
    /\ Enabled \subseteq Bindings
    /\ Strategies \subseteq {"swrr", "weighted_hash"}
    /\ Score \in [Keys -> [Bindings -> Nat]]
    /\ None \notin Bindings

VARIABLES breaker,   \* [binding -> its circuit breaker]
          weight,    \* [binding -> current_weight]
          caller,    \* [caller -> where it is in its selection]
          strategy   \* of the group, for good

vars == <<breaker, weight, caller, strategy>>

Now == Timeout
Tiers == {Priority[b] : b \in Bindings}
Tier(p) == {b \in Bindings : Priority[b] = p}

\* pc: idle, testing the bindings of a tier, picking among those that passed,
\* using the one it got.  History: "steady", the eligible bindings that would
\* have passed the test at every moment since the selection began, and "key",
\* what was hashed for the one in use.
Idle == [pc |-> "idle", tier |-> 0, tested |-> {}, passed |-> {},
         chosen |-> None, key |-> None, steady |-> {}]

TypeOK ==
    /\ breaker \in [Bindings -> BreakerType]
    /\ weight \in [Bindings -> Int]
    /\ caller \in [Callers ->
           [pc : {"idle", "testing", "picking", "using", "refused"},
            tier : 0..256, tested : SUBSET Bindings, passed : SUBSET Bindings,
            chosen : Bindings \cup {None}, key : Keys \cup {None},
            steady : SUBSET Bindings]]
    /\ strategy \in Strategies
    /\ \A c \in Callers :
          /\ caller[c].passed \subseteq caller[c].tested \cap Enabled
          /\ caller[c].tested \subseteq Tier(caller[c].tier)
          /\ caller[c].pc = "picking" => caller[c].passed # {}
          /\ caller[c].pc = "using" => caller[c].chosen \in Enabled

Init ==
    /\ breaker = [b \in Bindings |-> NewBreaker(0)]
    /\ weight = [b \in Bindings |-> 0]
    /\ caller = [c \in Callers |-> Idle]
    /\ strategy \in Strategies
----------------------------------------------------------------------------
\* is_available(): disabled bindings do not even look at their breaker.
Passes(b) == b \in Enabled /\ CanExecute(breaker[b], Now)

\* What remains of every caller's steady set when the breakers are brs.
Steadied(clr, brs) ==
    [c \in Callers |->
        [clr[c] EXCEPT !.steady = {b \in @ : CanExecute(brs[b], Now)}]]

\* Mutant: > for >= in the filter of the tiers.
NextTierAbove(p) == Min({t \in Tiers : t > p} \cup {256})

\* The first tier >= p, or 256 when there is none.
NextTier(p) == Min({t \in Tiers : t >= p} \cup {256})

BeginSelect(c, min) ==
    /\ caller[c].pc = "idle"
    /\ caller' = [caller EXCEPT ![c] =
           [Idle EXCEPT !.pc = IF NextTier(min) = 256 THEN "refused" ELSE "testing",
                        !.tier = NextTier(min),
                        !.steady = {b \in Bindings : Priority[b] >= min /\ Passes(b)}]]
    /\ UNCHANGED <<breaker, weight>>

\* One element of the filter, in the order of the vector.  The test itself
\* moves an open breaker whose timeout is over to half-open.
TestAvailable(c) ==
    LET left == Tier(caller[c].tier) \ caller[c].tested
        b == Min(left)
    IN  /\ caller[c].pc = "testing"
        /\ left # {}
        /\ breaker' = IF b \in Enabled
                      THEN [breaker EXCEPT ![b] = CheckAndUpdate(@, Now)]
                      ELSE breaker
        /\ caller' = [caller EXCEPT
               ![c].tested = @ \cup {b},
               ![c].passed = IF Passes(b) THEN @ \cup {b} ELSE @]
        /\ UNCHANGED weight

\* Mutant: the empty candidate list is not noticed.
EndOfTierPicks(c) ==
    /\ caller[c].pc = "testing"
    /\ Tier(caller[c].tier) \subseteq caller[c].tested
    /\ caller' = [caller EXCEPT ![c].pc = "picking"]
    /\ UNCHANGED <<breaker, weight>>

\* The tier is tested: pick in it, or go on to the next one, or give up.
EndOfTier(c) ==
    LET next == NextTier(caller[c].tier + 1)
    IN  /\ caller[c].pc = "testing"
        /\ Tier(caller[c].tier) \subseteq caller[c].tested
        /\ caller' =
               IF caller[c].passed # {} THEN [caller EXCEPT ![c].pc = "picking"]
               ELSE IF next # 256
               THEN [caller EXCEPT ![c].tier = next, ![c].tested = {}]
               ELSE [caller EXCEPT ![c].pc = "refused"]
        /\ UNCHANGED <<breaker, weight>>

\* The binding is returned, and the caller uses it.
UserOf(b, key, steady) ==
    [Idle EXCEPT !.pc = "using", !.chosen = b, !.key = key, !.steady = steady]

TotalWeight(S) == MapThenSumSet(LAMBDA b : Weight[b], S)

\* Mutant: store for fetch_add.
RaisedAnew(S) == [b \in Bindings |-> IF b \in S THEN Weight[b] ELSE weight[b]]

\* select_swrr() among S: who wins, and what is left of the running weights.
Raised(S) == [b \in Bindings |-> weight[b] + IF b \in S THEN Weight[b] ELSE 0]

\* Mutant: the first candidate always wins.
WinnerFirst(S) == Min(S)

Winner(S) ==
    LET best == {b \in S : \A a \in S : Raised(S)[a] <= Raised(S)[b]}
    IN  Min(best)

\* Mutant: the whole tier's weight is subtracted, not the candidates'.
PickSwrrTier(c) ==
    LET S == caller[c].passed
        w == Winner(S)
    IN  /\ caller[c].pc = "picking"
        /\ strategy = "swrr"
        /\ weight' = [Raised(S) EXCEPT ![w] = @ - TotalWeight(Tier(Priority[w]))]
        /\ caller' = [caller EXCEPT ![c] = UserOf(w, None, @.steady)]
        /\ UNCHANGED breaker

PickSwrr(c) ==
    LET S == caller[c].passed
        w == Winner(S)
    IN  /\ caller[c].pc = "picking"
        /\ strategy = "swrr"
        /\ weight' = [Raised(S) EXCEPT ![w] = @ - TotalWeight(S)]
        /\ caller' = [caller EXCEPT ![c] = UserOf(w, None, @.steady)]
        /\ UNCHANGED breaker

\* Mutant: the highest score wins.
HighestScored(S, key) == {b \in S : \A a \in S : Score[key][b] >= Score[key][a]}

\* Those of S with the lowest score.  Bindings with one base URL have scores
\* in the inverse ratio of their weights, whatever the key.
LowestScored(S, key) == {b \in S : \A a \in S : Score[key][b] <= Score[key][a]}

\* select_weighted_hash(); min_by keeps the first of equals.  Nothing reads the
\* key before, so it is chosen here; a request without one counts up a cursor.
PickHash(c, key) ==
    /\ caller[c].pc = "picking"
    /\ strategy = "weighted_hash"
    /\ caller' = [caller EXCEPT
           ![c] = UserOf(Min(LowestScored(@.passed, key)), key, @.steady)]
    /\ UNCHANGED <<breaker, weight>>

\* The caller reports what became of its request.
Report(c, success) ==
    LET b == caller[c].chosen
        brs == [breaker EXCEPT ![b] = RecordOutcome(@, success, Now)]
    IN  /\ caller[c].pc = "using"
        /\ breaker' = brs
        /\ caller' = Steadied([caller EXCEPT ![c] = Idle], brs)
        /\ UNCHANGED weight

\* select() returned None; the request is answered without an upstream.
GiveUp(c) ==
    /\ caller[c].pc = "refused"
    /\ caller' = [caller EXCEPT ![c] = Idle]
    /\ UNCHANGED <<breaker, weight>>

\* Time passes.
Age ==
    /\ \E b \in Bindings : breaker[b].since > 0
    /\ breaker' = [b \in Bindings |->
                      [breaker[b] EXCEPT !.since = IF @ > 0 THEN @ - 1 ELSE 0]]
    /\ UNCHANGED <<weight, caller>>

Next ==
    /\ \/ \E c \in Callers :
            \/ \E min \in 0..1 : BeginSelect(c, min)
            \/ TestAvailable(c)
            \/ EndOfTier(c)
            \/ PickSwrr(c)
            \/ \E key \in Keys : PickHash(c, key)
            \/ \E success \in BOOLEAN : Report(c, success)
            \/ GiveUp(c)
       \/ Age
    /\ UNCHANGED strategy

Spec == Init /\ [][Next]_vars
----------------------------------------------------------------------------
\* Whatever the candidates of each call were, the running weights of the group
\* cancel out: no share of the traffic is created or lost.
Balanced == MapThenSumSet(LAMBDA b : weight[b], Bindings) = 0

\* "Falls through to the next tier only when all upstreams in the current tier
\* are unavailable" (node.rs:443): nobody gets an upstream of a lower tier, or
\* none at all, while one that it may use was available all along.
TierPreference ==
    \A c \in Callers :
        /\ caller[c].pc = "using" =>
               \A b \in caller[c].steady : Priority[caller[c].chosen] <= Priority[b]
        /\ caller[c].pc = "refused" => caller[c].steady = {}

\* "Routes the same key to the same upstream" (routing.rs:22): with hashing,
\* a key gets another binding of the tier than the one it scores lowest with
\* only if that one was unavailable at some moment of the selection, although
\* each is tested at a moment of its own.
StickyKeys ==
    \A c \in Callers :
        caller[c].pc = "using" /\ strategy = "weighted_hash" =>
            \A b \in caller[c].steady :
                Priority[b] = Priority[caller[c].chosen] =>
                    Score[caller[c].key][caller[c].chosen] <= Score[caller[c].key][b]

\* Smoothness: however the candidates come and go, no running weight gets
\* farther from 0 than the greatest weight times the number of competitors, so
\* nobody is ever far ahead of its share, or far behind.
Smooth ==
    LET most == Max({Weight[b] : b \in Bindings}) * (Cardinality(Bindings) - 1)
    IN  \A b \in Bindings : weight[b] \in -most..most

\* No starvation: a binding that is a candidate of infinitely many choices is
\* chosen infinitely often, however the others come and go.
NoStarvation ==
    \A b \in Bindings :
        []<><<\E c \in Callers : b \in caller[c].passed /\ PickSwrr(c)>>_vars
        => []<><<\E c \in Callers : PickSwrr(c) /\ caller'[c].chosen = b>>_vars
=============================================================================
