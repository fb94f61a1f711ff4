--------------------------- MODULE RegistryProofs ---------------------------
(***************************************************************************)
(* The registry under any reloads, for any files, databases and requests:  *)
(* nobody is refused whom somebody could have served, the breakers of the  *)
(* two kinds of endpoint stay apart, and so do those of two snapshots.     *)
(*                                                                         *)
(* The requests meet in the snapshot and in the breakers.  The invariant   *)
(* says of each request what the bindings it could go to (held) have to do *)
(* with the snapshot it will look at: they are in it, none of them is      *)
(* open, and a request that looks at two groups has left none behind in    *)
(* the first one, unless a reload came in between.                         *)
(***************************************************************************)
EXTENDS Registry, FiniteSetTheorems, WellFoundedInduction, TLAPS

Fields == {"pc", "target", "limits", "limitsAt", "min", "lookedAt", "up", "url",
           "outcome"}

Shaped ==
    /\ DOMAIN request = Requests
    /\ \A r \in Requests : DOMAIN request[r] = Fields

Typed ==
    /\ gen \in 0..MaxReloads
    /\ snapshot = Snapshot(loaded)
    /\ \A arc \in open : arc[1] \in 0..gen
    /\ DOMAIN held = Requests

Active == {"limits", "capacity", "select", "second", "sent"}

Placed(r) ==
    LET q == request[r]
    IN  /\ q.pc \in Active \cup {"new", "over"}
        /\ q.pc = "new" <=> q.target = None
        /\ q.target \in Targets \cup {None}
        /\ q.limitsAt \in 0..gen /\ q.lookedAt \in 0..gen
        /\ q.min \in {0, 1}
        /\ q.pc \in {"limits", "capacity"} => q.min = 0
        /\ q.pc = "second" => q.target.kind = "create"
        /\ q.outcome \in {None, "refused", "ok", "failed"}
        /\ q.outcome # None <=> q.pc = "over"

\* Where a request was sent: to a binding of its kind.
SentTo(r) ==
    request[r].pc = "sent" =>
        /\ request[r].up[1] \in 0..gen
        /\ IsOfProvider(request[r].up) <=> request[r].target.kind = "stored"

\* What could serve a request is in the snapshot, and available.
HeldIsThere(r) ==
    /\ request[r].pc \in Active =>
          held[r] \subseteq Eligible(loaded, gen, request[r].target, request[r].min)
    /\ request[r].pc # "over" => held[r] \cap open = {}

Arcs(bindings) == {Arc(b) : b \in bindings}

\* What a POST to a provider has not seen yet.
InSecondGroup(r) ==
    Arcs({b \in Bindings(snapshot, request[r].target.name, "anthropic") :
             At(snapshot, b).id = request[r].target.id})

NothingLeftBehind(r) ==
    request[r].pc = "second" /\ request[r].lookedAt = gen =>
        held[r] \subseteq InSecondGroup(r)

\* What a POST to a provider looks at first.
InFirstGroup(r) ==
    Arcs({b \in Bindings(snapshot, request[r].target.name, "openai") :
             At(snapshot, b).id = request[r].target.id})

\* Whoever is missed has come to the first group after it was looked at.
NotMissed(r) ==
    request[r].outcome = "refused" =>
        \/ held[r] = {}
        \/ /\ request[r].target.kind = "create"
           /\ \A arc \in held[r] :
                 /\ arc[1] \in 0..gen /\ arc[1] # request[r].lookedAt
                 /\ arc[1] = gen => arc \in InFirstGroup(r)

RequestInv(r) ==
    /\ Placed(r)
    /\ SentTo(r)
    /\ HeldIsThere(r)
    /\ NothingLeftBehind(r)
    /\ NotMissed(r)

RegistryInv == Typed /\ Shaped /\ \A r \in Requests : RequestInv(r)
----------------------------------------------------------------------------
LEMMA SnapshotOfLoaded ==
    ASSUME NEW groups
    PROVE  Snapshot(groups).groups = groups
  BY DEF Snapshot

\* The bindings that could serve a request belong to the snapshot they were
\* looked for in.
LEMMA EligibleArcs ==
    ASSUME NEW groups, NEW n, NEW t \in Targets, NEW min,
           NEW arc \in Eligible(groups, n, t, min)
    PROVE  arc[1] = n
<1>1. CASE t.kind = "tiered"
  BY <1>1 DEF Eligible
<1>2. CASE t.kind = "create"
  BY <1>2 DEF Eligible
<1>3. CASE t.kind = "stored"
  BY <1>3 DEF Eligible
<1> QED
  BY <1>1, <1>2, <1>3, RegistryAssumption

\* Only the choice by tiers looks at the least priority.
LEMMA EligibleOfNoTier ==
    ASSUME NEW groups, NEW n, NEW t \in Targets, NEW min, t.kind # "tiered"
    PROVE  Eligible(groups, n, t, min) = Eligible(groups, n, t, 0)
<1>1. CASE t.kind = "create"
  BY <1>1 DEF Eligible
<1>2. CASE t.kind = "stored"
  BY <1>2 DEF Eligible
<1> QED
  BY <1>1, <1>2, RegistryAssumption
----------------------------------------------------------------------------
(* What a step does to the records of the requests.                        *)

\* The request r changes, the others stay as they are.
OnlyOf(r) ==
    /\ DOMAIN request' = Requests
    /\ \A s \in Requests \ {r} : request'[s] = request[s]

LEMMA SentFields ==
    ASSUME Shaped, NEW r \in Requests, NEW arc, NEW url, Sent(r, arc, url)
    PROVE  /\ Shaped' /\ OnlyOf(r)
           /\ request'[r].pc = "sent" /\ request'[r].up = arc
           /\ \A f \in Fields \ {"pc", "up", "url"} : request'[r][f] = request[r][f]
  BY DEF Shaped, Sent, OnlyOf, Fields

LEMMA RefusedFields ==
    ASSUME Shaped, NEW r \in Requests, Refused(r)
    PROVE  /\ Shaped' /\ OnlyOf(r)
           /\ request'[r].pc = "over" /\ request'[r].outcome = "refused"
           /\ \A f \in Fields \ {"pc", "outcome"} : request'[r][f] = request[r][f]
  BY DEF Shaped, Refused, OnlyOf, Fields

LEMMA NamesAreFields ==
    /\ "pc" \in Fields /\ "target" \in Fields /\ "limits" \in Fields
    /\ "limitsAt" \in Fields /\ "min" \in Fields /\ "lookedAt" \in Fields
    /\ "up" \in Fields /\ "url" \in Fields /\ "outcome" \in Fields
  BY DEF Fields

\* The invariant of a request speaks of its own record, of what it could go to
\* and of the registry.
LEMMA OthersKept ==
    ASSUME NEW s \in Requests, RequestInv(s), request'[s] = request[s],
           held'[s] = held[s], UNCHANGED <<gen, snapshot, loaded, open>>
    PROVE  RequestInv(s)'
<1>1. Placed(s)' /\ SentTo(s)'
  BY DEF RequestInv, Placed, SentTo, IsOfProvider
<1>2. HeldIsThere(s)'
  <2>1. Eligible(loaded, gen, request[s].target, request[s].min)'
          = Eligible(loaded, gen, request[s].target, request[s].min)
    BY DEF Eligible
  <2> QED
    BY <2>1 DEF RequestInv, HeldIsThere
<1>3. NothingLeftBehind(s)'
  <2>1. InSecondGroup(s)' = InSecondGroup(s)
    BY DEF InSecondGroup, Arcs, Arc
  <2> QED
    BY <2>1 DEF RequestInv, NothingLeftBehind
<1>4. NotMissed(s)'
  <2>1. InFirstGroup(s)' = InFirstGroup(s)
    BY DEF InFirstGroup, Arcs, Arc
  <2> QED
    BY <2>1 DEF RequestInv, NotMissed
<1> QED
  BY <1>1, <1>2, <1>3, <1>4 DEF RequestInv

\* So does a step that only changes breakers: what is open now is held no more.
LEMMA OpenedKeeps ==
    ASSUME NEW arcs, NEW s \in Requests, RequestInv(s), Opened(arcs),
           request'[s] = request[s], UNCHANGED <<gen, snapshot, loaded>>
    PROVE  RequestInv(s)'
<1>1. /\ open' = arcs
      /\ held'[s] = IF request[s].pc = "over" THEN held[s] ELSE held[s] \ arcs
  BY DEF Opened
<1>2. Placed(s)' /\ SentTo(s)'
  BY DEF RequestInv, Placed, SentTo, IsOfProvider
<1>3. HeldIsThere(s)'
  <2>1. Eligible(loaded, gen, request[s].target, request[s].min)'
          = Eligible(loaded, gen, request[s].target, request[s].min)
    BY DEF Eligible
  <2>2. "over" \notin Active
    BY DEF Active
  <2> QED
    BY <1>1, <2>1, <2>2 DEF RequestInv, HeldIsThere
<1>4. NothingLeftBehind(s)'
  <2>1. InSecondGroup(s)' = InSecondGroup(s)
    BY DEF InSecondGroup, Arcs, Arc
  <2> QED
    BY <1>1, <2>1 DEF RequestInv, NothingLeftBehind
<1>5. NotMissed(s)'
  <2>1. InFirstGroup(s)' = InFirstGroup(s)
    BY DEF InFirstGroup, Arcs, Arc
  <2> QED
    BY <1>1, <2>1 DEF RequestInv, NotMissed, Placed
<1> QED
  BY <1>2, <1>3, <1>4, <1>5 DEF RequestInv

\* A reload: nobody's binding of the new snapshot is open yet, and what was
\* looked at before was another snapshot.
LEMMA ReloadKeeps ==
    ASSUME RegistryInv, NEW groups, NEW from, Reload(groups, from), NEW s \in Requests
    PROVE  RequestInv(s)'
<1> DEFINE q == request[s]
           there == Eligible(groups, gen + 1, q.target, q.min)
<1>1. /\ gen \in 0..MaxReloads /\ MaxReloads \in Nat /\ gen' = gen + 1
      /\ gen' \in Nat /\ 0..gen \subseteq 0..gen' /\ gen' \notin 0..gen
      /\ loaded' = groups /\ request' = request /\ open' = open
      /\ held'[s] = IF q.pc \in {"new", "over"} \/ held[s] = {} THEN held[s] ELSE there
  BY RegistryAssumption DEF RegistryInv, Typed, Reload, HeldAfter
<1>2. Placed(s) /\ SentTo(s) /\ HeldIsThere(s) /\ NotMissed(s)
  BY DEF RegistryInv, RequestInv
<1>3. Placed(s)' /\ SentTo(s)'
  BY <1>1, <1>2 DEF Placed, SentTo, IsOfProvider
<1>4. HeldIsThere(s)'
  <2>1. Eligible(loaded, gen, q.target, q.min)' = there
    BY <1>1 DEF Eligible
  <2>2. q.pc \in Active => held'[s] \subseteq there
    BY <1>1 DEF Active
  <2>3. q.pc # "over" => held'[s] \cap open = {}
    <3>1. CASE held'[s] = held[s]
      BY <1>2, <3>1 DEF HeldIsThere
    <3>2. CASE held'[s] = there /\ q.pc \notin {"new", "over"}
      <4>1. q.target \in Targets
        BY <1>2, <3>2 DEF Placed
      <4>2. \A arc \in there : arc[1] = gen'
        BY <1>1, <4>1, EligibleArcs
      <4>3. \A arc \in open : arc[1] \in 0..gen
        BY DEF RegistryInv, Typed
      <4> HIDE DEF there
      <4> QED
        BY <1>1, <3>2, <4>2, <4>3
    <3> QED
      BY <1>1, <3>1, <3>2
  <2> QED
    BY <1>1, <2>1, <2>2, <2>3 DEF HeldIsThere
<1>5. NothingLeftBehind(s)'
  BY <1>1, <1>2 DEF NothingLeftBehind, Placed
<1>6. NotMissed(s)'
  <2>1. q.outcome = "refused" => q.pc = "over"
    BY <1>2, RegistryAssumption DEF Placed
  <2>2. \A n \in 0..gen : n \in 0..gen' /\ n # gen'
    BY <1>1
  <2> QED
    BY <1>1, <1>2, <2>1, <2>2 DEF NotMissed
<1> QED
  BY <1>3, <1>4, <1>5, <1>6 DEF RequestInv

\* So a reload keeps the invariant of the registry.
LEMMA ReloadStep ==
    ASSUME RegistryInv, NEW groups, NEW from, Reload(groups, from)
    PROVE  RegistryInv'
<1>1. Shaped'
  BY DEF RegistryInv, Shaped, Reload
<1>2. Typed'
  <2>1. gen' \in 0..MaxReloads /\ 0..gen \subseteq 0..gen'
    BY RegistryAssumption DEF RegistryInv, Typed, Reload
  <2>2. DOMAIN held' = Requests
    BY DEF Reload, HeldAfter
  <2>3. snapshot' = Snapshot(loaded')
    BY DEF Reload
  <2>4. open' = open
    BY DEF Reload
  <2>5. Snapshot(loaded)' = Snapshot(loaded')
    BY DEF Snapshot, Index, Providers, Ids, FirstUrl, Keys
  <2> QED
    BY <2>1, <2>2, <2>3, <2>4, <2>5 DEF RegistryInv, Typed
<1> QED
  BY <1>1, <1>2, ReloadKeeps DEF RegistryInv
----------------------------------------------------------------------------
(* The steps of a request.                                                 *)

\* Such a step has to see to the invariant of its own request only.
LEMMA RequestStep ==
    ASSUME RegistryInv, NEW r \in Requests, Shaped', OnlyOf(r),
           UNCHANGED <<gen, snapshot, loaded, open>>,
           DOMAIN held' = Requests, \A s \in Requests \ {r} : held'[s] = held[s],
           RequestInv(r)'
    PROVE  RegistryInv'
<1>1. ASSUME NEW s \in Requests PROVE RequestInv(s)'
  <2>1. CASE s = r
    BY <2>1
  <2>2. CASE s # r
    BY <2>2, OthersKept DEF RegistryInv, OnlyOf
  <2> QED
    BY <2>1, <2>2
<1>2. Typed'
  <2>1. Snapshot(loaded)' = Snapshot(loaded)
    BY DEF Snapshot, Index, Providers, Ids, FirstUrl, Keys
  <2> QED
    BY <2>1 DEF RegistryInv, Typed
<1> QED
  BY <1>1, <1>2 DEF RegistryInv

\* A request begins with what is there and available.
LEMMA CallStep ==
    ASSUME RegistryInv, NEW r \in Requests, NEW t \in Targets, Call(r, t)
    PROVE  RegistryInv'
<1> DEFINE first == IF t.kind = "stored" THEN "select" ELSE "limits"
<1>1. /\ request[r].pc = "new" /\ UNCHANGED <<gen, snapshot, open, loaded>>
      /\ request' = [request EXCEPT ![r] = [Fresh EXCEPT !.target = t, !.pc = first]]
      /\ held' = [held EXCEPT ![r] = Eligible(loaded, gen, t, 0) \ open]
  BY DEF Call
<1>2. /\ Shaped' /\ OnlyOf(r)
      /\ request'[r].pc = first /\ request'[r].target = t
      /\ request'[r].limitsAt = 0 /\ request'[r].lookedAt = 0 /\ request'[r].min = 0
      /\ request'[r].outcome = None
  BY <1>1 DEF RegistryInv, Shaped, OnlyOf, Fresh, Fields
<1>3. /\ DOMAIN held' = Requests /\ \A s \in Requests \ {r} : held'[s] = held[s]
      /\ held'[r] = Eligible(loaded, gen, t, 0) \ open
  BY <1>1 DEF RegistryInv, Typed
<1>4. Placed(r)'
  <2>1. 0 \in 0..gen /\ t # None /\ None \notin {"refused", "ok", "failed"}
    BY RegistryAssumption DEF RegistryInv, Typed
  <2>2. first \in Active /\ first \notin {"new", "second", "over"}
    BY DEF Active
  <2> QED
    BY <1>1, <1>2, <2>1, <2>2 DEF Placed
<1>5. SentTo(r)' /\ NothingLeftBehind(r)' /\ NotMissed(r)'
  BY <1>2, RegistryAssumption DEF SentTo, NothingLeftBehind, NotMissed
<1>6. HeldIsThere(r)'
  BY <1>1, <1>2, <1>3 DEF HeldIsThere
<1> QED
  BY <1>1, <1>2, <1>3, <1>4, <1>5, <1>6, RequestStep DEF RequestInv

LEMMA ReadLimitsStep ==
    ASSUME RegistryInv, NEW r \in Requests, ReadLimits(r)
    PROVE  RegistryInv'
<1>1. /\ request[r].pc = "limits" /\ UNCHANGED <<gen, snapshot, open, loaded, held>>
      /\ request' = [request EXCEPT ![r].pc = "capacity",
                                    ![r].limits = RateLimits(request[r].target.name),
                                    ![r].limitsAt = gen]
  BY DEF ReadLimits, history
<1>2. /\ Shaped' /\ OnlyOf(r)
      /\ request'[r].pc = "capacity" /\ request'[r].limitsAt = gen
      /\ \A f \in Fields \ {"pc", "limits", "limitsAt"} : request'[r][f] = request[r][f]
  BY <1>1 DEF RegistryInv, Shaped, OnlyOf, Fields
<1>3. /\ request'[r].target = request[r].target /\ request'[r].min = request[r].min
      /\ request'[r].lookedAt = request[r].lookedAt
      /\ request'[r].outcome = request[r].outcome
  BY <1>2 DEF Fields
<1>4. Placed(r) /\ HeldIsThere(r)
  BY DEF RegistryInv, RequestInv
<1>5. Placed(r)'
  <2>1. gen \in 0..gen
    BY RegistryAssumption DEF RegistryInv, Typed
  <2> QED
    BY <1>1, <1>2, <1>3, <1>4, <2>1 DEF Placed, Active
<1>6. SentTo(r)' /\ NothingLeftBehind(r)' /\ NotMissed(r)'
  BY <1>1, <1>2, <1>3, <1>4, RegistryAssumption
  DEF SentTo, NothingLeftBehind, NotMissed, Placed
<1>7. HeldIsThere(r)'
  BY <1>1, <1>2, <1>3, <1>4 DEF HeldIsThere, Active
<1> QED
  BY <1>1, <1>2, <1>5, <1>6, <1>7, RequestStep DEF RequestInv, RegistryInv, Typed

\* A request that spills over gives up what is in the first tier.
LEMMA ReadCapacityStep ==
    ASSUME RegistryInv, NEW r \in Requests, NEW exceeded \in BOOLEAN,
           ReadCapacity(r, exceeded)
    PROVE  RegistryInv'
<1> DEFINE q == request[r]
           min == IF exceeded THEN 1 ELSE 0
<1>1. /\ q.pc = "capacity" /\ UNCHANGED <<gen, snapshot, open, loaded>>
      /\ request' = [request EXCEPT ![r].pc = "select", ![r].min = min]
      /\ held' = IF exceeded /\ q.target.kind = "tiered"
                 THEN [held EXCEPT ![r] = @ \cap Eligible(loaded, gen, q.target, 1)]
                 ELSE held
  BY DEF ReadCapacity
<1>2. /\ Shaped' /\ OnlyOf(r)
      /\ request'[r].pc = "select" /\ request'[r].min = min
      /\ \A f \in Fields \ {"pc", "min"} : request'[r][f] = request[r][f]
  BY <1>1 DEF RegistryInv, Shaped, OnlyOf, Fields
<1>3. /\ request'[r].target = q.target
      /\ request'[r].limitsAt = q.limitsAt /\ request'[r].lookedAt = q.lookedAt
      /\ request'[r].outcome = q.outcome
  BY <1>2 DEF Fields
<1>4. Placed(r) /\ HeldIsThere(r)
  BY DEF RegistryInv, RequestInv
<1>5. q.min = 0 /\ q.target \in Targets
  BY <1>1, <1>4 DEF Placed
<1>6. /\ DOMAIN held' = Requests /\ \A s \in Requests \ {r} : held'[s] = held[s]
      /\ held'[r] \subseteq held[r]
      /\ exceeded /\ q.target.kind = "tiered" =>
             held'[r] \subseteq Eligible(loaded, gen, q.target, 1)
  BY <1>1 DEF RegistryInv, Typed
<1>7. Placed(r)'
  BY <1>1, <1>2, <1>3, <1>4 DEF Placed, Active
<1>8. SentTo(r)' /\ NothingLeftBehind(r)' /\ NotMissed(r)'
  BY <1>1, <1>2, <1>3, <1>4, RegistryAssumption
  DEF SentTo, NothingLeftBehind, NotMissed, Placed
<1>9. HeldIsThere(r)'
  <2>1. held[r] \subseteq Eligible(loaded, gen, q.target, 0) /\ held[r] \cap open = {}
    BY <1>1, <1>4, <1>5 DEF HeldIsThere, Active
  <2>2. held'[r] \subseteq Eligible(loaded, gen, q.target, min)
    <3>1. CASE ~ exceeded
      BY <1>6, <2>1, <3>1
    <3>2. CASE exceeded /\ q.target.kind = "tiered"
      BY <1>6, <3>2
    <3>3. CASE exceeded /\ q.target.kind # "tiered"
      BY <1>5, <1>6, <2>1, <3>3, EligibleOfNoTier
    <3> QED
      BY <3>1, <3>2, <3>3
  <2> QED
    BY <1>1, <1>2, <1>3, <1>6, <2>1, <2>2 DEF HeldIsThere
<1> QED
  BY <1>1, <1>2, <1>6, <1>7, <1>8, <1>9, RequestStep DEF RequestInv
----------------------------------------------------------------------------
(* A request is sent, or refused.                                          *)

\* Sent to a binding of its kind in the snapshot it looked at.
LEMMA SentStep ==
    ASSUME RegistryInv, NEW r \in Requests, NEW arc, NEW url, Sent(r, arc, url),
           request[r].pc \in Active, arc[1] = gen,
           IsOfProvider(arc) <=> request[r].target.kind = "stored",
           UNCHANGED <<gen, snapshot, open, history>>
    PROVE  RegistryInv'
<1>1. /\ Shaped' /\ OnlyOf(r)
      /\ request'[r].pc = "sent" /\ request'[r].up = arc
      /\ request'[r].target = request[r].target /\ request'[r].min = request[r].min
      /\ request'[r].limitsAt = request[r].limitsAt
      /\ request'[r].lookedAt = request[r].lookedAt
      /\ request'[r].outcome = request[r].outcome
  BY SentFields DEF RegistryInv, Fields
<1>2. Placed(r) /\ HeldIsThere(r) /\ NotMissed(r) /\ gen \in 0..gen /\ gen' = gen
  BY RegistryAssumption DEF RegistryInv, RequestInv, Typed
<1>3. Placed(r)'
  BY <1>1, <1>2 DEF Placed, Active
<1>4. SentTo(r)' /\ NothingLeftBehind(r)' /\ NotMissed(r)'
  BY <1>1, <1>2, RegistryAssumption
  DEF SentTo, NothingLeftBehind, NotMissed, IsOfProvider, Placed, Active
<1>5. HeldIsThere(r)'
  BY <1>1, <1>2 DEF HeldIsThere, Active, history
<1> QED
  BY <1>1, <1>3, <1>4, <1>5, RequestStep DEF RequestInv, RegistryInv, Typed, history

\* Refused when nothing is left that could serve it.
LEMMA RefusedStep ==
    ASSUME RegistryInv, NEW r \in Requests, Refused(r), request[r].pc \in Active,
           \/ held[r] = {}
           \/ /\ request[r].target.kind = "create" /\ request[r].lookedAt # gen
              /\ held[r] \subseteq InFirstGroup(r),
           UNCHANGED <<gen, snapshot, open, history>>
    PROVE  RegistryInv'
<1>1. /\ Shaped' /\ OnlyOf(r)
      /\ request'[r].pc = "over" /\ request'[r].outcome = "refused"
      /\ request'[r].target = request[r].target /\ request'[r].min = request[r].min
      /\ request'[r].limitsAt = request[r].limitsAt
      /\ request'[r].lookedAt = request[r].lookedAt
  BY RefusedFields DEF RegistryInv, Fields
<1>2. Placed(r) /\ gen' = gen /\ held' = held
  BY DEF RegistryInv, RequestInv, history
<1>3. Placed(r)'
  BY <1>1, <1>2, RegistryAssumption DEF Placed, Active
<1>4. SentTo(r)' /\ NothingLeftBehind(r)' /\ HeldIsThere(r)'
  BY <1>1, <1>2 DEF SentTo, NothingLeftBehind, HeldIsThere, Active
<1>5. NotMissed(r)'
  <2>1. InFirstGroup(r)' = InFirstGroup(r)
    BY <1>1 DEF InFirstGroup, Arcs, Arc
  <2>2. \A arc \in InFirstGroup(r) : arc[1] = gen
    BY DEF InFirstGroup, Arcs, Arc
  <2>3. gen \in 0..gen
    BY RegistryAssumption DEF RegistryInv, Typed
  <2> QED
    BY <1>1, <1>2, <2>1, <2>2, <2>3 DEF NotMissed
<1> QED
  BY <1>1, <1>3, <1>4, <1>5, RequestStep DEF RequestInv, RegistryInv, Typed, history
----------------------------------------------------------------------------
(* The three ways to choose a binding.                                     *)

\* No candidate in any tier: all that could serve the request is open.
LEMMA SelectTieredStep ==
    ASSUME RegistryInv, NEW r \in Requests, SelectTiered(r)
    PROVE  RegistryInv'
<1> DEFINE t == request[r].target
           all == {b \in Bindings(snapshot, t.name, t.protocol) :
                      At(snapshot, b).priority >= request[r].min}
           candidates == {b \in Bindings(snapshot, t.name, t.protocol) :
                             /\ At(snapshot, b).priority >= request[r].min
                             /\ Arc(b) \notin open}
<1>1. /\ request[r].pc = "select" /\ t.kind = "tiered"
      /\ UNCHANGED <<gen, snapshot, open, history>>
      /\ \/ candidates = {} /\ Refused(r)
         \/ \E b \in candidates : Sent(r, Arc(b), At(snapshot, b).url)
  BY DEF SelectTiered
<1>2. "select" \in Active
  BY DEF Active
<1>3. CASE candidates = {} /\ Refused(r)
  <2>1. held[r] \subseteq Eligible(loaded, gen, t, request[r].min)
    BY <1>1, <1>2 DEF RegistryInv, RequestInv, HeldIsThere
  <2>2. Eligible(loaded, gen, t, request[r].min) = Arcs(all)
    <3>1. snapshot = Snapshot(loaded)
      BY DEF RegistryInv, Typed
    <3> QED
      BY <1>1, <3>1 DEF Eligible, Arcs, Arc
  <2>3. Arcs(all) \subseteq open
    BY <1>3 DEF Arcs
  <2>4. held[r] \cap open = {}
    BY <1>1 DEF RegistryInv, RequestInv, HeldIsThere
  <2>5. held[r] = {}
    BY <2>1, <2>2, <2>3, <2>4
  <2> QED
    BY <1>1, <1>2, <1>3, <2>5, RefusedStep
<1>4. ASSUME NEW b \in candidates, Sent(r, Arc(b), At(snapshot, b).url)
      PROVE  RegistryInv'
  <2>1. Arc(b)[1] = gen /\ ~ IsOfProvider(Arc(b))
    BY DEF Arc, IsOfProvider
  <2> QED
    BY <1>1, <1>2, <1>4, <2>1, SentStep
<1> QED
  BY <1>1, <1>3, <1>4

LEMMA ArcIsOfModel ==
    ASSUME NEW b
    PROVE  Arc(b)[1] = gen /\ ~ IsOfProvider(Arc(b))
  BY DEF Arc, IsOfProvider

\* What a POST to a provider can go to is in one of the two groups.
LEMMA CreateArcs ==
    ASSUME RegistryInv, NEW r \in Requests, request[r].pc \in Active,
           request[r].target.kind = "create"
    PROVE  held[r] \subseteq InFirstGroup(r) \cup InSecondGroup(r)
<1> DEFINE t == request[r].target
<1>1. held[r] \subseteq Eligible(loaded, gen, t, request[r].min)
  BY DEF RegistryInv, RequestInv, HeldIsThere
<1>2. snapshot = Snapshot(loaded)
  BY DEF RegistryInv, Typed
<1>3. Eligible(loaded, gen, t, request[r].min)
        = Arcs({c \in Bindings(snapshot, t.name, "openai")
                          \cup Bindings(snapshot, t.name, "anthropic") :
                     At(snapshot, c).id = t.id})
  BY <1>2 DEF Eligible, Arcs, Arc
<1> QED
  BY <1>1, <1>3 DEF Arcs, InFirstGroup, InSecondGroup

\* The first look: what it finds nothing in, it leaves nothing in.
LEMMA LookInOpenAiStep ==
    ASSUME RegistryInv, NEW r \in Requests, LookInOpenAi(r)
    PROVE  RegistryInv'
<1> DEFINE t == request[r].target
           matches == Match(r, "openai")
<1>1. /\ request[r].pc = "select" /\ t.kind = "create"
      /\ UNCHANGED <<gen, snapshot, open, history>>
      /\ IF matches # {}
         THEN Sent(r, Arc(FirstOf(matches)), At(snapshot, FirstOf(matches)).url)
         ELSE request' = [request EXCEPT ![r].pc = "second", ![r].lookedAt = gen]
  BY DEF LookInOpenAi
<1>2. "select" \in Active /\ "second" \in Active /\ gen \in 0..gen
  BY RegistryAssumption DEF Active, RegistryInv, Typed
<1>3. CASE matches # {}
  <2> HIDE DEF matches
  <2> QED
    BY <1>1, <1>2, <1>3, ArcIsOfModel, SentStep
<1>4. CASE matches = {}
  <2>1. request' = [request EXCEPT ![r].pc = "second", ![r].lookedAt = gen]
    BY <1>1, <1>4
  <2>2. /\ Shaped' /\ OnlyOf(r)
        /\ request'[r].pc = "second" /\ request'[r].lookedAt = gen
        /\ \A f \in Fields \ {"pc", "lookedAt"} : request'[r][f] = request[r][f]
    BY <2>1 DEF RegistryInv, Shaped, OnlyOf, Fields
  <2>3. /\ request'[r].target = t /\ request'[r].min = request[r].min
        /\ request'[r].limitsAt = request[r].limitsAt
        /\ request'[r].outcome = request[r].outcome
    BY <2>2 DEF Fields
  <2>4. /\ Placed(r) /\ HeldIsThere(r)
        /\ UNCHANGED <<gen, snapshot, open, loaded, held>>
    BY <1>1 DEF RegistryInv, RequestInv, history
  <2>5. Placed(r)'
    BY <1>1, <1>2, <2>2, <2>3, <2>4 DEF Placed
  <2>6. SentTo(r)' /\ NotMissed(r)'
    BY <1>1, <2>2, <2>3, <2>4, RegistryAssumption DEF SentTo, NotMissed, Placed, Active
  <2>7. HeldIsThere(r)'
    BY <1>1, <1>2, <2>2, <2>3, <2>4 DEF HeldIsThere
  <2>8. NothingLeftBehind(r)'
    <3>1. InFirstGroup(r) \subseteq open
      BY <1>4 DEF Match, Arcs, InFirstGroup
    <3>2. held[r] \cap open = {}
      BY <1>1, <2>4 DEF HeldIsThere
    <3>3. held[r] \subseteq InSecondGroup(r)
      BY <1>1, <1>2, <3>1, <3>2, CreateArcs
    <3>4. InSecondGroup(r)' = InSecondGroup(r)
      BY <2>3, <2>4 DEF InSecondGroup, Arcs, Arc
    <3> QED
      BY <2>4, <3>3, <3>4 DEF NothingLeftBehind
  <2> QED
    BY <2>2, <2>4, <2>5, <2>6, <2>7, <2>8, RequestStep DEF RequestInv, RegistryInv, Typed
<1> QED
  BY <1>3, <1>4

\* The second look, at the same snapshot or at a later one.
LEMMA LookInAnthropicStep ==
    ASSUME RegistryInv, NEW r \in Requests, LookInAnthropic(r)
    PROVE  RegistryInv'
<1> DEFINE matches == Match(r, "anthropic")
<1>1. /\ request[r].pc = "second"
      /\ UNCHANGED <<gen, snapshot, open, history>>
      /\ IF matches # {}
         THEN Sent(r, Arc(FirstOf(matches)), At(snapshot, FirstOf(matches)).url)
         ELSE Refused(r)
  BY DEF LookInAnthropic
<1>2. "second" \in Active /\ request[r].target.kind = "create"
  BY <1>1 DEF Active, RegistryInv, RequestInv, Placed
<1>3. CASE matches # {}
  <2> HIDE DEF matches
  <2> QED
    BY <1>1, <1>2, <1>3, ArcIsOfModel, SentStep
<1>4. CASE matches = {}
  <2>1. InSecondGroup(r) \subseteq open
    BY <1>4 DEF Match, InSecondGroup, Arcs
  <2>2. held[r] \cap open = {}
    BY <1>1 DEF RegistryInv, RequestInv, HeldIsThere
  <2>3. request[r].lookedAt = gen => held[r] \subseteq InSecondGroup(r)
    BY <1>1 DEF RegistryInv, RequestInv, NothingLeftBehind
  <2>4. held[r] = {} \/ request[r].lookedAt # gen
    BY <2>1, <2>2, <2>3
  <2>5. held[r] \subseteq InFirstGroup(r)
    BY <1>1, <1>2, <2>1, <2>2, CreateArcs
  <2> QED
    BY <1>1, <1>2, <1>4, <2>4, <2>5, RefusedStep
<1> QED
  BY <1>3, <1>4

LEMMA FindStoredStep ==
    ASSUME RegistryInv, NEW r \in Requests, FindStored(r)
    PROVE  RegistryInv'
<1> DEFINE id == request[r].target.id
<1>1. /\ request[r].pc = "select" /\ request[r].target.kind = "stored"
      /\ UNCHANGED <<gen, snapshot, open, history>>
      /\ IF id \in DOMAIN snapshot.providers /\ ProviderArc(id) \notin open
         THEN Sent(r, ProviderArc(id), snapshot.providers[id])
         ELSE Refused(r)
  BY DEF FindStored
<1>2. "select" \in Active /\ snapshot = Snapshot(loaded)
  BY DEF Active, RegistryInv, Typed
<1>3. CASE id \in DOMAIN snapshot.providers /\ ProviderArc(id) \notin open
  <2>1. ProviderArc(id)[1] = gen /\ IsOfProvider(ProviderArc(id))
    BY DEF ProviderArc, IsOfProvider
  <2> QED
    BY <1>1, <1>2, <1>3, <2>1, SentStep
<1>4. CASE ~ (id \in DOMAIN snapshot.providers /\ ProviderArc(id) \notin open)
  <2>1. /\ held[r] \subseteq Eligible(loaded, gen, request[r].target, request[r].min)
        /\ held[r] \cap open = {}
    BY <1>1, <1>2 DEF RegistryInv, RequestInv, HeldIsThere
  <2>2. Eligible(loaded, gen, request[r].target, request[r].min)
          = {ProviderArc(id)} \cap {ProviderArc(i) : i \in DOMAIN snapshot.providers}
    BY <1>1, <1>2 DEF Eligible, ProviderArc
  <2>3. held[r] = {}
    <3>1. ASSUME NEW i \in DOMAIN snapshot.providers, ProviderArc(i) = ProviderArc(id)
          PROVE  i = id
      BY <3>1 DEF ProviderArc
    <3> QED
      BY <1>4, <2>1, <2>2, <3>1
  <2> QED
    BY <1>1, <1>2, <1>4, <2>3, RefusedStep
<1> QED
  BY <1>3, <1>4
----------------------------------------------------------------------------
(* What comes back.                                                        *)

\* Whatever opens or closes is held by nobody any more.
LEMMA OpenedStep ==
    ASSUME RegistryInv, NEW arcs, Opened(arcs), \A arc \in arcs : arc[1] \in 0..gen,
           UNCHANGED <<gen, snapshot, loaded>>, Shaped',
           \A s \in Requests : request'[s] = request[s] \/ RequestInv(s)'
    PROVE  RegistryInv'
<1>1. \A s \in Requests : RequestInv(s)'
  BY OpenedKeeps DEF RegistryInv
<1>2. Typed'
  <2>1. Snapshot(loaded)' = Snapshot(loaded)
    BY DEF Snapshot, Index, Providers, Ids, FirstUrl, Keys
  <2>2. open' = arcs /\ DOMAIN held' = Requests
    BY DEF Opened
  <2> QED
    BY <2>1, <2>2 DEF RegistryInv, Typed
<1> QED
  BY <1>1, <1>2 DEF RegistryInv

LEMMA RecoverStep ==
    ASSUME RegistryInv, NEW arc \in open, Recover(arc)
    PROVE  RegistryInv'
<1>1. /\ Opened(open \ {arc}) /\ UNCHANGED <<gen, snapshot, loaded, request>>
      /\ \A a \in open \ {arc} : a[1] \in 0..gen
      /\ Shaped'
  BY DEF Recover, RegistryInv, Typed, Shaped
<1> QED
  BY <1>1, OpenedStep

\* What a report does to the breakers.
ReportArcs(r, ok, trips) ==
    IF ~ok /\ trips THEN open \cup {request[r].up} ELSE open

LEMMA ReportStep ==
    ASSUME RegistryInv, NEW r \in Requests, NEW ok \in BOOLEAN, NEW trips \in BOOLEAN,
           Report(r, ok, trips)
    PROVE  RegistryInv'
<1> DEFINE arcs == ReportArcs(r, ok, trips)
           end == IF ok THEN "ok" ELSE "failed"
<1>1. /\ request[r].pc = "sent" /\ UNCHANGED <<gen, snapshot, loaded>>
      /\ request' = [request EXCEPT ![r].pc = "over", ![r].outcome = end]
      /\ Opened(arcs)
  BY DEF Report, ReportArcs
<1>2. /\ Shaped' /\ OnlyOf(r)
      /\ request'[r].pc = "over" /\ request'[r].outcome = end
      /\ \A f \in Fields \ {"pc", "outcome"} : request'[r][f] = request[r][f]
  BY <1>1 DEF RegistryInv, Shaped, OnlyOf, Fields
<1>3. /\ request'[r].target = request[r].target /\ request'[r].min = request[r].min
      /\ request'[r].limitsAt = request[r].limitsAt
      /\ request'[r].lookedAt = request[r].lookedAt
  BY <1>2 DEF Fields
<1>4. Placed(r) /\ SentTo(r)
  BY DEF RegistryInv, RequestInv
<1>5. Placed(r)'
  BY <1>1, <1>2, <1>3, <1>4, RegistryAssumption DEF Placed, Active
<1>6. SentTo(r)' /\ HeldIsThere(r)' /\ NothingLeftBehind(r)' /\ NotMissed(r)'
  BY <1>2 DEF SentTo, HeldIsThere, NothingLeftBehind, NotMissed, Active
<1>7. \A arc \in arcs : arc[1] \in 0..gen
  BY <1>1, <1>4 DEF RegistryInv, Typed, SentTo, ReportArcs
<1>8. \A s \in Requests : request'[s] = request[s] \/ RequestInv(s)'
  BY <1>2, <1>5, <1>6 DEF OnlyOf, RequestInv
<1> QED
  BY <1>1, <1>2, <1>7, <1>8, OpenedStep
----------------------------------------------------------------------------
LEMMA InitRegistryInv == Init => RegistryInv
<1> SUFFICES ASSUME Init PROVE RegistryInv
  OBVIOUS
<1>1. Shaped
  BY DEF Init, Shaped, Fresh, Fields
<1>2. Typed
  BY RegistryAssumption DEF Init, Typed
<1>3. ASSUME NEW r \in Requests PROVE RequestInv(r)
  <2>1. /\ request[r].pc = "new" /\ request[r].target = None
        /\ request[r].limitsAt = 0 /\ request[r].lookedAt = 0 /\ request[r].min = 0
        /\ request[r].outcome = None /\ held[r] = {} /\ gen = 0
    BY DEF Init, Fresh
  <2>2. Placed(r)
    BY <2>1, RegistryAssumption DEF Placed, Active
  <2> QED
    BY <2>1, <2>2
    DEF RequestInv, SentTo, HeldIsThere, NothingLeftBehind, NotMissed, Active
<1> QED
  BY <1>1, <1>2, <1>3 DEF RegistryInv

LEMMA RegistryInvStep ==
    ASSUME RegistryInv, [Next]_vars
    PROVE  RegistryInv'
<1>1. ASSUME NEW file \in Files, LoadFile(file) PROVE RegistryInv'
  BY <1>1, ReloadStep DEF LoadFile
<1>2. ASSUME NEW db \in Databases, LoadDatabase(db) PROVE RegistryInv'
  BY <1>2, ReloadStep DEF LoadDatabase
<1>3. ASSUME NEW r \in Requests, NEW t \in Targets, Call(r, t) PROVE RegistryInv'
  BY <1>3, CallStep
<1>4. ASSUME NEW r \in Requests, ReadLimits(r) PROVE RegistryInv'
  BY <1>4, ReadLimitsStep
<1>5. ASSUME NEW r \in Requests, NEW exceeded \in BOOLEAN, ReadCapacity(r, exceeded)
      PROVE  RegistryInv'
  BY <1>5, ReadCapacityStep
<1>6. ASSUME NEW r \in Requests, SelectTiered(r) PROVE RegistryInv'
  BY <1>6, SelectTieredStep
<1>7. ASSUME NEW r \in Requests, LookInOpenAi(r) PROVE RegistryInv'
  BY <1>7, LookInOpenAiStep
<1>8. ASSUME NEW r \in Requests, LookInAnthropic(r) PROVE RegistryInv'
  BY <1>8, LookInAnthropicStep
<1>9. ASSUME NEW r \in Requests, FindStored(r) PROVE RegistryInv'
  BY <1>9, FindStoredStep
<1>10. ASSUME NEW r \in Requests, NEW ok \in BOOLEAN, NEW trips \in BOOLEAN,
              Report(r, ok, trips)
       PROVE  RegistryInv'
  BY <1>10, ReportStep
<1>11. ASSUME NEW arc \in open, Recover(arc) PROVE RegistryInv'
  BY <1>11, RecoverStep
<1>12. CASE UNCHANGED vars
  <2>1. UNCHANGED <<gen, snapshot, open, request, loaded, held>>
    BY <1>12 DEF vars, history
  <2>2. Shaped' /\ \A s \in Requests : RequestInv(s)'
    BY <2>1, OthersKept DEF RegistryInv, Shaped
  <2>3. Snapshot(loaded)' = Snapshot(loaded)
    BY <2>1 DEF Snapshot, Index, Providers, Ids, FirstUrl, Keys
  <2> QED
    BY <2>1, <2>2, <2>3 DEF RegistryInv, Typed
<1> QED
  BY <1>1, <1>2, <1>3, <1>4, <1>5, <1>6, <1>7, <1>8, <1>9, <1>10, <1>11, <1>12 DEF Next

LEMMA RegistryInvariant == Spec => []RegistryInv
  BY InitRegistryInv, RegistryInvStep, PTL DEF Spec

\* The registry's own state is what the last load made of it, no breaker is of
\* a snapshot yet to come, and every request has the record its place calls for.
THEOREM TypeCorrect == Spec => []TypeOK
<1>1. RegistryInv => TypeOK
  <2> SUFFICES ASSUME RegistryInv PROVE TypeOK
    OBVIOUS
  <2>1. snapshot = Snapshot(snapshot.groups)
    BY SnapshotOfLoaded DEF RegistryInv, Typed
  <2> QED
    BY <2>1
    DEF TypeOK, RegistryInv, Typed, RequestInv, Placed, SentTo, HeldIsThere, Active
<1> QED
  BY RegistryInvariant, <1>1, PTL

\* However reloads and breakers fall between the looks of a request, it is
\* refused only if at some moment nobody could have served it; a POST to a
\* provider may miss besides whom a reload between its two looks has moved to
\* the group it had looked at.
THEOREM NobodyIsMissedHolds == Spec => []NobodyIsMissed
<1>1. RegistryInv => NobodyIsMissed
  <2> SUFFICES ASSUME RegistryInv, NEW r \in Requests, request[r].outcome = "refused",
                      held[r] # {}
               PROVE  /\ request[r].target.kind = "create"
                      /\ \A arc \in held[r] :
                            /\ arc[1] # request[r].lookedAt
                            /\ arc[1] = gen =>
                                  <<arc[2], arc[3]>>
                                    \in Bindings(snapshot, request[r].target.name, "openai")
    BY DEF NobodyIsMissed
  <2>1. NotMissed(r)
    BY DEF RegistryInv, RequestInv
  <2>2. ASSUME NEW arc \in InFirstGroup(r)
        PROVE  <<arc[2], arc[3]>> \in Bindings(snapshot, request[r].target.name, "openai")
    <3>1. PICK b \in Bindings(snapshot, request[r].target.name, "openai") : arc = Arc(b)
      BY DEF InFirstGroup, Arcs
    <3>2. b = <<b[1], b[2]>>
      BY DEF Bindings
    <3>3. arc[2] = b[1] /\ arc[3] = b[2]
      BY <3>1 DEF Arc
    <3> QED
      BY <3>2, <3>3
  <2> QED
    BY <2>1, <2>2 DEF NotMissed
<1> QED
  BY RegistryInvariant, <1>1, PTL
----------------------------------------------------------------------------
\* A request that was sent is over only by the report of its outcome.
LEMMA OnlyReports ==
    ASSUME RegistryInv, [Next]_vars, NEW r \in Requests,
           request[r].pc = "sent", request'[r].pc = "over"
    PROVE  \E ok, trips \in BOOLEAN : Report(r, ok, trips)
<1>1. DOMAIN request = Requests
  BY DEF RegistryInv, Shaped
<1>2. request'[r] # request[r]
  OBVIOUS
<1>3. ASSUME NEW s \in Requests, NEW q, request' = [request EXCEPT ![s] = q]
      PROVE  s = r
  BY <1>1, <1>2, <1>3
<1>4. ASSUME NEW s \in Requests,
             \/ \E t \in Targets : Call(s, t)
             \/ ReadLimits(s)
             \/ \E exceeded \in BOOLEAN : ReadCapacity(s, exceeded)
             \/ SelectTiered(s)
             \/ LookInOpenAi(s)
             \/ LookInAnthropic(s)
             \/ FindStored(s)
      PROVE  FALSE
  <2>1. request[s].pc \in {"new", "limits", "capacity", "select", "second"}
    BY <1>4 DEF Call, ReadLimits, ReadCapacity, SelectTiered, LookInOpenAi,
                LookInAnthropic, FindStored
  <2>2. s # r
    BY <2>1
  <2>3. \A arc, url : Sent(s, arc, url) \/ Refused(s) => request'[r] = request[r]
    BY <1>1, <2>2 DEF Sent, Refused
  <2>4. CASE SelectTiered(s)
    BY <1>2, <2>3, <2>4 DEF SelectTiered
  <2>5. CASE LookInOpenAi(s)
    BY <1>1, <1>2, <2>2, <2>3, <2>5 DEF LookInOpenAi
  <2>6. CASE LookInAnthropic(s)
    BY <1>2, <2>3, <2>6 DEF LookInAnthropic
  <2>7. CASE FindStored(s)
    BY <1>2, <2>3, <2>7 DEF FindStored
  <2>8. CASE \/ \E t \in Targets : Call(s, t)
             \/ ReadLimits(s)
             \/ \E exceeded \in BOOLEAN : ReadCapacity(s, exceeded)
    BY <1>1, <1>2, <2>2, <2>8 DEF Call, ReadLimits, ReadCapacity
  <2> QED
    BY <1>4, <2>4, <2>5, <2>6, <2>7, <2>8
<1>5. ASSUME NEW s \in Requests, NEW ok \in BOOLEAN, NEW trips \in BOOLEAN,
             Report(s, ok, trips)
      PROVE  s = r
  BY <1>1, <1>2, <1>5 DEF Report
<1>6. ~ UNCHANGED request
  BY <1>2
<1>7. /\ \A file \in Files : ~ LoadFile(file)
      /\ \A db \in Databases : ~ LoadDatabase(db)
      /\ \A arc \in open : ~ Recover(arc)
      /\ ~ UNCHANGED vars
  BY <1>6 DEF LoadFile, LoadDatabase, Reload, Recover, vars
<1> QED
  BY <1>4, <1>5, <1>7 DEF Next

\* A report changes no breaker of the other kind of endpoint, and none of the
\* current snapshot if the request was sent under an older one.
THEOREM OutcomesStayApartHolds == Spec => OutcomesStayApart
<1> DEFINE Apart ==
        \A r \in Requests :
            request[r].pc = "sent" /\ request'[r].pc = "over" =>
                \A arc \in (open \ open') \cup (open' \ open) :
                    /\ IsOfProvider(arc) <=> request[r].target.kind = "stored"
                    /\ arc[1] = gen => request[r].up[1] = gen
<1>1. RegistryInv /\ [Next]_vars => Apart
  <2> SUFFICES ASSUME RegistryInv, [Next]_vars, NEW r \in Requests,
                      request[r].pc = "sent", request'[r].pc = "over",
                      NEW arc \in (open \ open') \cup (open' \ open)
               PROVE  /\ IsOfProvider(arc) <=> request[r].target.kind = "stored"
                      /\ arc[1] = gen => request[r].up[1] = gen
    OBVIOUS
  <2>1. PICK ok, trips \in BOOLEAN : Report(r, ok, trips)
    BY OnlyReports
  <2>2. arc = request[r].up
    BY <2>1 DEF Report, Opened
  <2>3. SentTo(r)
    BY DEF RegistryInv, RequestInv
  <2> QED
    BY <2>2, <2>3 DEF SentTo
<1> QED
  BY RegistryInvariant, <1>1, PTL DEF Spec, OutcomesStayApart
----------------------------------------------------------------------------
(* The least and the greatest of a set of positions.                       *)

LEMMA LeastExists ==
    ASSUME NEW T \in SUBSET Nat, T # {}
    PROVE  \E x \in T : \A y \in T : x <= y
<1> DEFINE less == OpToRel(<, Nat)
<1>1. IsWellFoundedOn(less, Nat)
  BY NatLessThanWellFounded
<1> HIDE DEF less
<1>2. PICK x \in T : \A y \in T : ~ (<<y, x>> \in less)
  BY <1>1, WFMin
<1>3. \A y \in T : ~ (y < x)
  BY <1>2 DEF less, OpToRel
<1> QED
  BY <1>3

LEMMA LeastIs ==
    ASSUME NEW T \in SUBSET Nat, T # {}
    PROVE  Min(T) \in T /\ \A y \in T : Min(T) <= y
  BY LeastExists DEF Min

LEMMA GreatestIs ==
    ASSUME NEW n \in Nat, NEW T \in SUBSET (1..n), T # {}
    PROVE  Max(T) \in T /\ \A y \in T : Max(T) >= y
<1> DEFINE below == {n - i : i \in T}
<1>1. below \in SUBSET Nat /\ below # {}
  <2>1. \A i \in T : i \in Int /\ i <= n /\ n - i \in Nat
    OBVIOUS
  <2>2. below # {}
    OBVIOUS
  <2> QED
    BY <2>1, <2>2
<1>2. PICK x \in below : \A y \in below : x <= y
  BY <1>1, LeastExists
<1>3. PICK i \in T : x = n - i
  BY <1>2
<1>4. ASSUME NEW j \in T PROVE i >= j
  <2>1. i \in Int /\ j \in Int /\ n \in Int /\ n - j \in below
    OBVIOUS
  <2>2. n - i <= n - j
    BY <1>2, <1>3, <2>1
  <2> QED
    BY <2>1, <2>2
<1> QED
  BY <1>4 DEF Max

\* A set of numbers that has 0, and with a number the next one, has them all.
LEMMA NumberInduction ==
    ASSUME NEW P, 0 \in P, \A n \in Nat : n \in P => n + 1 \in P
    PROVE  Nat \subseteq P
<1> SUFFICES ASSUME Nat \ P # {} PROVE FALSE
  OBVIOUS
<1>1. PICK x \in Nat \ P : \A y \in Nat \ P : x <= y
  BY LeastExists
<1>2. x # 0 /\ x - 1 \in Nat /\ ~ (x <= x - 1)
  BY <1>1
<1>3. x - 1 \in P
  BY <1>1, <1>2
<1> QED
  BY <1>2, <1>3
----------------------------------------------------------------------------
(* register() and reload_all().                                            *)

\* One more group: it takes the names it claims, and brings the providers that
\* no group before it has.
LEMMA OneMoreGroup ==
    ASSUME NEW S, NEW groups \in Seq(S), NEW g \in S
    PROVE  Snapshot(Append(groups, g)) = Registered(Snapshot(groups), g)
<1> DEFINE more == Append(groups, g)
           n == Len(groups)
<1>1. /\ n \in Nat /\ DOMAIN groups = 1..n /\ DOMAIN more = 1..(n + 1)
      /\ more[n + 1] = g /\ \A i \in 1..n : more[i] = groups[i]
  OBVIOUS
<1>2. 1..(n + 1) = (1..n) \cup {n + 1} /\ n + 1 \notin 1..n
  BY <1>1
<1> HIDE DEF more, n
<1>3. Index(more) = [k \in Keys(g) \cup DOMAIN Index(groups) |->
                       IF k \in Keys(g) THEN n + 1 ELSE Index(groups)[k]]
  <2> DEFINE at(k) == {i \in DOMAIN more : k \in Keys(more[i])}
             before(k) == {i \in DOMAIN groups : k \in Keys(groups[i])}
  <2>1. UNION {Keys(more[i]) : i \in DOMAIN more}
          = Keys(g) \cup UNION {Keys(groups[i]) : i \in DOMAIN groups}
    BY <1>1, <1>2
  <2>2. ASSUME NEW k \in Keys(g) PROVE Max(at(k)) = n + 1
    <3>1. at(k) \in SUBSET (1..(n + 1)) /\ n + 1 \in at(k)
      BY <1>1, <1>2
    <3> HIDE DEF at
    <3>2. n + 1 \in Nat /\ at(k) # {}
      BY <1>1, <3>1
    <3>3. Max(at(k)) \in at(k) /\ \A y \in at(k) : Max(at(k)) >= y
      BY <3>1, <3>2, GreatestIs
    <3>4. Max(at(k)) >= n + 1 /\ Max(at(k)) \in 1..(n + 1)
      BY <3>1, <3>3
    <3> QED
      BY <1>1, <3>4
  <2>3. ASSUME NEW k, k \notin Keys(g) PROVE at(k) = before(k)
    BY <1>1, <1>2, <2>3
  <2> QED
    BY <2>1, <2>2, <2>3 DEF Index
<1>4. Providers(more)
        = [id \in Ids(g) \cup DOMAIN Providers(groups) |->
              IF id \in DOMAIN Providers(groups) THEN Providers(groups)[id]
              ELSE FirstUrl(g, id)]
  <2> DEFINE at(id) == {i \in DOMAIN more : id \in Ids(more[i])}
             before(id) == {i \in DOMAIN groups : id \in Ids(groups[i])}
  <2>1. UNION {Ids(more[i]) : i \in DOMAIN more}
          = Ids(g) \cup UNION {Ids(groups[i]) : i \in DOMAIN groups}
    BY <1>1, <1>2
  <2>2. ASSUME NEW id \in UNION {Ids(groups[i]) : i \in DOMAIN groups}
        PROVE  /\ Min(at(id)) = Min(before(id))
               /\ Min(before(id)) \in DOMAIN groups
    <3>1. /\ before(id) \in SUBSET Nat /\ before(id) # {} /\ before(id) \subseteq 1..n
          /\ at(id) \in SUBSET Nat /\ at(id) # {}
          /\ before(id) \subseteq at(id) /\ at(id) \subseteq before(id) \cup {n + 1}
      BY <1>1, <1>2
    <3> HIDE DEF at, before
    <3>2. /\ Min(before(id)) \in before(id) /\ \A y \in before(id) : Min(before(id)) <= y
          /\ Min(at(id)) \in at(id) /\ \A y \in at(id) : Min(at(id)) <= y
      BY <3>1, LeastIs
    <3>3. Min(at(id)) <= Min(before(id)) /\ Min(before(id)) < n + 1
      BY <1>1, <3>1, <3>2
    <3>4. Min(at(id)) \in before(id)
      BY <1>1, <3>1, <3>2, <3>3
    <3> QED
      BY <1>1, <3>1, <3>2, <3>3, <3>4
  <2>3. ASSUME NEW id \in Ids(g), id \notin UNION {Ids(groups[i]) : i \in DOMAIN groups}
        PROVE  Min(at(id)) = n + 1
    <3>1. at(id) = {n + 1} /\ at(id) \in SUBSET Nat
      BY <1>1, <1>2, <2>3
    <3>2. Min(at(id)) \in at(id)
      BY <3>1, LeastIs
    <3> QED
      BY <3>1, <3>2
  <2> DEFINE old == UNION {Ids(groups[i]) : i \in DOMAIN groups}
             urls == [id \in Ids(g) \cup DOMAIN Providers(groups) |->
                         IF id \in DOMAIN Providers(groups) THEN Providers(groups)[id]
                         ELSE FirstUrl(g, id)]
  <2>4. Providers(more) = [id \in Ids(g) \cup old |-> FirstUrl(more[Min(at(id))], id)]
    BY <2>1 DEF Providers
  <2>5. urls = [id \in Ids(g) \cup old |->
                   IF id \in old THEN FirstUrl(groups[Min(before(id))], id)
                   ELSE FirstUrl(g, id)]
    BY DEF Providers
  <2>6. ASSUME NEW id \in Ids(g) \cup old
        PROVE  FirstUrl(more[Min(at(id))], id)
                 = IF id \in old THEN FirstUrl(groups[Min(before(id))], id)
                   ELSE FirstUrl(g, id)
    <3>1. CASE id \in old
      <4>1. Min(at(id)) = Min(before(id)) /\ Min(before(id)) \in DOMAIN groups
        BY <2>2, <3>1
      <4>2. more[Min(at(id))] = groups[Min(before(id))]
        BY <1>1, <4>1
      <4> QED
        BY <3>1, <4>2
    <3>2. CASE id \notin old
      <4>1. Min(at(id)) = n + 1
        BY <2>3, <2>6, <3>2
      <4>2. more[Min(at(id))] = g
        BY <1>1, <4>1
      <4> QED
        BY <3>2, <4>2
    <3> QED
      BY <3>1, <3>2
  <2> HIDE DEF old, at, before
  <2> QED
    BY <2>4, <2>5, <2>6
<1>5. {more[i].model : i \in DOMAIN more} = {groups[i].model : i \in DOMAIN groups} \cup {g.model}
  BY <1>1, <1>2
<1> QED
  BY <1>3, <1>4, <1>5 DEF Snapshot, Registered, more, n
----------------------------------------------------------------------------
(* What is loaded is a sequence of groups.                                 *)

\* A recursive function over the positions of a sequence of sequences exists.
LEMMA FlattenExists ==
    ASSUME NEW S, NEW ss \in Seq(Seq(S))
    PROVE  \E f : f = [i \in 1..Len(ss) |-> IF i = 1 THEN ss[i] ELSE f[i-1] \o ss[i]]
<1> DEFINE Upto(n, f) == f = [i \in 1..n |-> IF i = 1 THEN ss[i] ELSE f[i-1] \o ss[i]]
           P == {n \in Nat : \E f : Upto(n, f)}
<1>1. 0 \in P
  <2>1. Upto(0, [i \in 1..0 |-> {}])
    OBVIOUS
  <2> QED
    BY <2>1
<1>2. ASSUME NEW n \in Nat, n \in P PROVE n + 1 \in P
  <2>1. PICK f : Upto(n, f)
    BY <1>2
  <2> DEFINE next == IF n + 1 = 1 THEN ss[n + 1] ELSE f[(n + 1) - 1] \o ss[n + 1]
             g == [i \in 1..(n + 1) |-> IF i = n + 1 THEN next ELSE f[i]]
  <2>2. ASSUME NEW i \in 1..(n + 1)
        PROVE  g[i] = IF i = 1 THEN ss[i] ELSE g[i-1] \o ss[i]
    <3>1. CASE i = n + 1
      <4>1. i # 1 => g[i-1] = f[i-1]
        BY <3>1
      <4> QED
        BY <3>1, <4>1
    <3>2. CASE i # n + 1
      <4>1. i \in 1..n /\ g[i] = f[i] /\ (i # 1 => i - 1 \in 1..n /\ g[i-1] = f[i-1])
        BY <3>2
      <4>2. f[i] = IF i = 1 THEN ss[i] ELSE f[i-1] \o ss[i]
        BY <2>1, <4>1
      <4> QED
        BY <4>1, <4>2
    <3> QED
      BY <3>1, <3>2
  <2>3. Upto(n + 1, g)
    <3>1. g = [i \in 1..(n + 1) |-> g[i]]
      OBVIOUS
    <3> HIDE DEF g
    <3> QED
      BY <2>2, <3>1
  <2> HIDE DEF g, Upto
  <2> QED
    BY <2>3
<1> HIDE DEF P
<1>3. Len(ss) \in P
  BY <1>1, <1>2, NumberInduction
<1> QED
  BY <1>3 DEF P

\* Joining sequences over a set gives a sequence over it.
LEMMA FlattenIsSeq ==
    ASSUME NEW S, NEW ss \in Seq(Seq(S))
    PROVE  FlattenSeq(ss) \in Seq(S)
<1> DEFINE Joined(f) == f = [i \in 1..Len(ss) |-> IF i = 1 THEN ss[i] ELSE f[i-1] \o ss[i]]
           flat == CHOOSE f : Joined(f)
<1>1. FlattenSeq(ss) = IF Len(ss) = 0 THEN ss ELSE flat[Len(ss)]
  BY DEF FlattenSeq
<1>2. Joined(flat)
  <2>1. \E f : Joined(f)
    BY FlattenExists
  <2> HIDE DEF Joined
  <2> QED
    BY <2>1
<1>3. CASE Len(ss) = 0
  BY <1>1, <1>3
<1> HIDE DEF flat
<1>4. CASE Len(ss) # 0
  <2> DEFINE P == {n \in Nat : n \in 1..Len(ss) => flat[n] \in Seq(S)}
  <2>1. ASSUME NEW i \in 1..Len(ss)
        PROVE  /\ ss[i] \in Seq(S)
               /\ flat[i] = IF i = 1 THEN ss[i] ELSE flat[i-1] \o ss[i]
    <3>1. ss[i] \in Seq(S)
      OBVIOUS
    <3>2. flat[i] = IF i = 1 THEN ss[i] ELSE flat[i-1] \o ss[i]
      BY ONLY <1>2
    <3> QED
      BY <3>1, <3>2
  <2>2. 0 \in P
    OBVIOUS
  <2>3. ASSUME NEW n \in Nat, n \in P PROVE n + 1 \in P
    <3>1. CASE n + 1 \in 1..Len(ss) /\ n # 0
      <4>1. n \in 1..Len(ss) /\ (n + 1) - 1 = n /\ n + 1 # 1
        BY <3>1
      <4>2. flat[n + 1] = flat[n] \o ss[n + 1] /\ flat[n] \in Seq(S) /\ ss[n + 1] \in Seq(S)
        BY <2>1, <2>3, <3>1, <4>1
      <4>3. flat[n + 1] \in Seq(S)
        BY <4>2
      <4> QED
        BY <4>3
    <3>2. CASE n + 1 \in 1..Len(ss) /\ n = 0
      BY <2>1, <3>2
    <3>3. CASE n + 1 \notin 1..Len(ss)
      BY <3>3
    <3> QED
      BY <3>1, <3>2, <3>3
  <2> HIDE DEF P
  <2>4. Nat \subseteq P
    BY <2>2, <2>3, NumberInduction
  <2>5. Len(ss) \in Nat /\ Len(ss) \in 1..Len(ss)
    BY <1>4
  <2> QED
    BY <1>1, <1>4, <2>4, <2>5 DEF P
<1> QED
  BY <1>3, <1>4

\* The groups that a file may have: one for a route and a protocol.
GroupsOf(file) ==
    {Group(file, file.routes[i], Protocols[j]) : i \in DOMAIN file.routes,
                                                 j \in DOMAIN Protocols}

\* The groups of a file are groups of its routes.
LEMMA FileGroups ==
    ASSUME NEW file \in Files, Groups(file) # Failed
    PROVE  Groups(file) \in Seq(GroupsOf(file))
<1> DEFINE n == Len(file.routes)
           S == GroupsOf(file)
           perRoute == [i \in DOMAIN file.routes |-> RouteGroups(file, file.routes[i])]
<1>1. n \in Nat /\ DOMAIN file.routes = 1..n
  BY RegistryAssumption
<1>2. ASSUME NEW i \in 1..n, RouteGroups(file, file.routes[i]) # Failed
      PROVE  RouteGroups(file, file.routes[i]) \in Seq(S)
  <2> DEFINE sections == [j \in DOMAIN Protocols |->
                             SectionGroups(file, file.routes[i], Protocols[j])]
  <2>1. RouteGroups(file, file.routes[i]) = FlattenSeq(sections)
    BY <1>2 DEF RouteGroups
  <2>2. DOMAIN Protocols = 1..3
    BY DEF Protocols
  <2>3. ASSUME NEW j \in 1..3
        PROVE  SectionGroups(file, file.routes[i], Protocols[j]) \in Seq(S)
    <3>1. Group(file, file.routes[i], Protocols[j]) \in S
      BY <1>1, <2>2 DEF GroupsOf
    <3> HIDE DEF S
    <3>2. CASE SectionGroups(file, file.routes[i], Protocols[j]) = << >>
      BY <3>2
    <3>3. CASE SectionGroups(file, file.routes[i], Protocols[j])
                 = <<Group(file, file.routes[i], Protocols[j])>>
      BY <3>1, <3>3
    <3> QED
      BY <3>2, <3>3 DEF SectionGroups
  <2> HIDE DEF S
  <2>4. sections \in Seq(Seq(S))
    BY <2>2, <2>3
  <2> HIDE DEF sections
  <2> QED
    BY <2>1, <2>4, FlattenIsSeq
<1>3. /\ Groups(file) = FlattenSeq(perRoute)
      /\ \A i \in DOMAIN perRoute : perRoute[i] # Failed
  BY DEF Groups
<1> HIDE DEF S
<1>4. perRoute \in Seq(Seq(S))
  <2>1. \A i \in 1..n : RouteGroups(file, file.routes[i]) \in Seq(S)
    BY <1>1, <1>2, <1>3
  <2> QED
    BY <1>1, <2>1
<1> HIDE DEF perRoute
<1> QED
  BY <1>3, <1>4, FlattenIsSeq DEF S

LEMMA SeqOfItsRange ==
    ASSUME NEW S, NEW s \in Seq(S)
    PROVE  s \in Seq(Range(s))
<1>1. DOMAIN s = 1..Len(s) /\ Len(s) \in Nat /\ s = [i \in 1..Len(s) |-> s[i]]
  OBVIOUS
<1>2. \A i \in 1..Len(s) : s[i] \in Range(s)
  BY <1>1 DEF Range
<1> QED
  BY <1>1, <1>2

LEMMA SameCardinality == \A S : Store!Cardinality(S) = Cardinality(S)
  BY DEF Store!Cardinality, Cardinality

\* So are those of a database, in whatever order its rows come.
LEMMA DatabaseGroups ==
    ASSUME NEW db \in Databases, NEW groups \in Store!DbGroups(db)
    PROVE  groups \in Seq(Range(groups))
<1> DEFINE rows == Store!Live(db)
           entries == {<<row.model, row.protocol>> : row \in rows}
           entry == [row \in rows |-> <<row.model, row.protocol>>]
<1>1. IsFiniteSet(entries)
  <2>1. IsFiniteSet(rows)
    <3>1. rows \subseteq db.routes
      BY DEF Store!Live
    <3> QED
      BY <3>1, RegistryAssumption, FS_Subset
  <2>2. entry \in Surjection(rows, entries)
    <3>1. entry \in [rows -> entries]
      OBVIOUS
    <3>2. \A e \in entries : \E row \in rows : entry[row] = e
      OBVIOUS
    <3> HIDE DEF rows, entries, entry
    <3> QED
      BY <3>1, <3>2 DEF Surjection
  <2> HIDE DEF rows, entries, entry
  <2> QED
    BY <2>1, <2>2, FS_Surjection
<1>2. PICK order \in Store!SetToSeqs(entries) :
          \E rs : groups = [i \in DOMAIN order |-> Store!DbGroup(db, order[i], rs[order[i]])]
  BY DEF Store!DbGroups
<1>3. Cardinality(entries) \in Nat
  <2> HIDE DEF entries
  <2> QED
    BY <1>1, FS_CardinalityType
<1>4. DOMAIN order = 1..Cardinality(entries)
  <2> HIDE DEF entries
  <2> QED
    BY SameCardinality DEF Store!SetToSeqs
<1>5. groups = [i \in DOMAIN groups |-> groups[i]]
  BY DEF Store!DbGroups
<1> HIDE DEF entries
<1>6. \A i \in DOMAIN groups : groups[i] \in Range(groups)
  BY DEF Range
<1> QED
  BY <1>2, <1>3, <1>4, <1>5, <1>6
----------------------------------------------------------------------------
(* The last load, and the requests that have looked at it.                 *)

\* What is loaded is a sequence of groups, those of a file if it came from one.
Loaded ==
    /\ loaded \in Seq(Range(loaded))
    /\ source # None =>
          \E file \in Files :
              source = file /\ Groups(file) # Failed /\ loaded = Groups(file)

\* The limits that a request has read are those of the snapshot it read them
\* from, and of the file that was loaded, as long as that is the current one.
LimitsRead(r) ==
    LET q == request[r]
    IN  /\ q.pc \in Active \ {"limits"} /\ q.target.kind # "stored"
        /\ q.limitsAt = gen
        => q.limits = RateLimits(q.target.name) /\ ruled[r] = source

\* A request went to a group of the name it asks for, under one of the two
\* protocols that get_rate_limits() looks for.
HasGroup(r) ==
    LET q == request[r]
    IN  /\ q.pc = "sent" /\ q.target.kind # "stored" /\ q.up[1] = gen
        => \E protocol \in {"openai", "anthropic"} :
               <<q.target.name, protocol>> \in DOMAIN snapshot.index

LoadInv ==
    /\ RegistryInv
    /\ Loaded
    /\ DOMAIN ruled = Requests
    /\ \A r \in Requests : LimitsRead(r) /\ HasGroup(r)

\* A reload loads a sequence of groups.
LEMMA ReloadLoads ==
    ASSUME NEW groups, NEW from, Reload(groups, from), groups \in Seq(Range(groups)),
           from # None => from \in Files /\ Groups(from) # Failed /\ groups = Groups(from)
    PROVE  Loaded'
  BY DEF Reload, Loaded, Range

\* Who had looked at the old snapshot has not looked at the new one.
LEMMA ReloadForgets ==
    ASSUME LoadInv, NEW groups, NEW from, Reload(groups, from), NEW r \in Requests
    PROVE  LimitsRead(r)' /\ HasGroup(r)'
<1>1. /\ gen' \notin 0..gen /\ request' = request
  BY RegistryAssumption DEF LoadInv, RegistryInv, Typed, Reload
<1>2. Placed(r) /\ SentTo(r)
  BY DEF LoadInv, RegistryInv, RequestInv
<1> QED
  BY <1>1, <1>2 DEF LimitsRead, HasGroup, Placed, SentTo

\* What a request has looked at stays what it is while the snapshot does.
LEMMA LooksKept ==
    ASSUME LoadInv, NEW r \in Requests, request'[r] = request[r],
           ruled'[r] = ruled[r], UNCHANGED <<gen, snapshot, source>>
    PROVE  LimitsRead(r)' /\ HasGroup(r)'
<1>1. LimitsRead(r) /\ HasGroup(r)
  BY DEF LoadInv
<1>2. RateLimits(request[r].target.name)' = RateLimits(request[r].target.name)
  BY DEF RateLimits
<1> QED
  BY <1>1, <1>2 DEF LimitsRead, HasGroup, Active

LEMMA LoadedKept ==
    ASSUME LoadInv, UNCHANGED <<source, loaded>>
    PROVE  Loaded'
  BY DEF LoadInv, Loaded, Range

\* A binding that somebody is sent to is in the group of the name.
LEMMA SentHasGroup ==
    ASSUME NEW name, NEW protocol, NEW b \in Bindings(snapshot, name, protocol)
    PROVE  <<name, protocol>> \in DOMAIN snapshot.index
  BY DEF Bindings

\* The step of a request, as far as its looks are concerned: it ends, or it
\* goes on with the limits it has, to a group of its name if it is sent.
LEMMA LookStep ==
    ASSUME LoadInv, NEW r \in Requests, Shaped', OnlyOf(r),
           UNCHANGED <<gen, snapshot, source, loaded, ruled>>,
           request[r].pc \in Active \ {"limits"},
           \A f \in {"target", "limits", "limitsAt"} : request'[r][f] = request[r][f],
           HasGroup(r)'
    PROVE  /\ Loaded'
           /\ \A s \in Requests : LimitsRead(s)' /\ HasGroup(s)'
<1>1. ASSUME NEW s \in Requests PROVE LimitsRead(s)' /\ HasGroup(s)'
  <2>1. CASE s # r
    BY <2>1, LooksKept DEF OnlyOf
  <2>2. CASE s = r
    <3>1. RateLimits(request[r].target.name)' = RateLimits(request[r].target.name)
      BY DEF RateLimits
    <3>2. LimitsRead(r)
      BY DEF LoadInv
    <3>3. /\ request'[r].target = request[r].target
          /\ request'[r].limits = request[r].limits
          /\ request'[r].limitsAt = request[r].limitsAt
      OBVIOUS
    <3> QED
      BY <2>2, <3>1, <3>2, <3>3 DEF LimitsRead
  <2> QED
    BY <2>1, <2>2
<1> QED
  BY <1>1, LoadedKept

\* Sent and refused requests in particular.
LEMMA SentLooks ==
    ASSUME LoadInv, NEW r \in Requests, NEW arc, NEW url, Sent(r, arc, url),
           UNCHANGED <<gen, snapshot, source, loaded, ruled>>,
           request[r].pc \in Active \ {"limits"},
           request[r].target.kind # "stored" =>
               \E protocol \in {"openai", "anthropic"} :
                   <<request[r].target.name, protocol>> \in DOMAIN snapshot.index
    PROVE  /\ Loaded'
           /\ \A s \in Requests : LimitsRead(s)' /\ HasGroup(s)'
<1>1. Shaped
  BY DEF LoadInv, RegistryInv
<1>2. /\ Shaped' /\ OnlyOf(r)
      /\ \A f \in Fields \ {"pc", "up", "url"} : request'[r][f] = request[r][f]
  BY <1>1, SentFields
<1>3. /\ \A f \in {"target", "limits", "limitsAt"} : request'[r][f] = request[r][f]
      /\ request'[r].target = request[r].target
  BY <1>2 DEF Fields
<1>4. HasGroup(r)'
  BY <1>3 DEF HasGroup
<1> QED
  BY <1>2, <1>3, <1>4, LookStep

LEMMA RefusedLooks ==
    ASSUME LoadInv, NEW r \in Requests, Refused(r),
           UNCHANGED <<gen, snapshot, source, loaded, ruled>>,
           request[r].pc \in Active \ {"limits"}
    PROVE  /\ Loaded'
           /\ \A s \in Requests : LimitsRead(s)' /\ HasGroup(s)'
<1>1. Shaped
  BY DEF LoadInv, RegistryInv
<1>2. /\ Shaped' /\ OnlyOf(r) /\ request'[r].pc = "over"
      /\ \A f \in Fields \ {"pc", "outcome"} : request'[r][f] = request[r][f]
  BY <1>1, RefusedFields
<1>3. \A f \in {"target", "limits", "limitsAt"} : request'[r][f] = request[r][f]
  BY <1>2 DEF Fields
<1>4. HasGroup(r)'
  BY <1>2 DEF HasGroup
<1> QED
  BY <1>2, <1>3, <1>4, LookStep

LEMMA CallLooks ==
    ASSUME LoadInv, NEW r \in Requests, NEW t \in Targets, Call(r, t)
    PROVE  /\ Loaded'
           /\ \A s \in Requests : LimitsRead(s)' /\ HasGroup(s)'
<1> DEFINE first == IF t.kind = "stored" THEN "select" ELSE "limits"
<1>1. /\ UNCHANGED <<gen, snapshot, source, loaded, ruled>>
      /\ request' = [request EXCEPT ![r] = [Fresh EXCEPT !.target = t, !.pc = first]]
  BY DEF Call
<1>2. OnlyOf(r) /\ request'[r].pc = first /\ request'[r].target = t
  BY <1>1 DEF LoadInv, RegistryInv, Shaped, OnlyOf, Fresh
<1>3. LimitsRead(r)' /\ HasGroup(r)'
  BY <1>2 DEF LimitsRead, HasGroup
<1> QED
  BY <1>1, <1>2, <1>3, LooksKept, LoadedKept DEF OnlyOf

LEMMA ReadLimitsLooks ==
    ASSUME LoadInv, NEW r \in Requests, ReadLimits(r)
    PROVE  /\ Loaded'
           /\ \A s \in Requests : LimitsRead(s)' /\ HasGroup(s)'
<1> DEFINE read == RateLimits(request[r].target.name)
<1>1. /\ UNCHANGED <<gen, snapshot, source, loaded>>
      /\ ruled' = [ruled EXCEPT ![r] = source]
      /\ request' = [request EXCEPT ![r].pc = "capacity", ![r].limits = read,
                                    ![r].limitsAt = gen]
  BY DEF ReadLimits, history
<1>2. /\ OnlyOf(r) /\ request'[r].pc = "capacity" /\ request'[r].limits = read
      /\ request'[r].target = request[r].target
  <2>1. DOMAIN request = Requests /\ DOMAIN request[r] = Fields
    BY DEF LoadInv, RegistryInv, Shaped
  <2> HIDE DEF read
  <2> QED
    BY <1>1, <2>1 DEF OnlyOf, Fields
<1>3. PICK name : name = request[r].target.name
  OBVIOUS
<1>4. RateLimits(name)' = RateLimits(name)
  BY <1>1 DEF RateLimits
<1>5. request'[r].target.name = name /\ request'[r].limits = RateLimits(name)'
  BY <1>2, <1>3, <1>4
<1>6. LimitsRead(r)' /\ HasGroup(r)'
  <2>1. LimitsRead(r)'
    <3>1. ruled'[r] = source'
      BY <1>1 DEF LoadInv
    <3> QED
      BY <1>5, <3>1 DEF LimitsRead, RateLimits
  <2>2. HasGroup(r)'
    BY <1>2 DEF HasGroup
  <2> QED
    BY <2>1, <2>2
<1>7. \A s \in Requests \ {r} : ruled'[s] = ruled[s]
  BY <1>1 DEF LoadInv
<1> QED
  BY <1>1, <1>2, <1>6, <1>7, LooksKept, LoadedKept DEF OnlyOf

LEMMA ReadCapacityLooks ==
    ASSUME LoadInv, NEW r \in Requests, NEW exceeded \in BOOLEAN,
           ReadCapacity(r, exceeded)
    PROVE  /\ Loaded'
           /\ \A s \in Requests : LimitsRead(s)' /\ HasGroup(s)'
<1> DEFINE min == IF exceeded THEN 1 ELSE 0
<1>1. /\ UNCHANGED <<gen, snapshot, source, loaded, ruled>> /\ request[r].pc = "capacity"
      /\ request' = [request EXCEPT ![r].pc = "select", ![r].min = min]
  BY DEF ReadCapacity
<1>2. /\ OnlyOf(r) /\ Shaped' /\ request'[r].pc = "select"
      /\ \A f \in {"target", "limits", "limitsAt"} : request'[r][f] = request[r][f]
  BY <1>1 DEF LoadInv, RegistryInv, Shaped, OnlyOf, Fields
<1>3. HasGroup(r)' /\ request[r].pc \in Active \ {"limits"}
  BY <1>1, <1>2 DEF HasGroup, Active
<1> QED
  BY <1>1, <1>2, <1>3, LookStep

LEMMA SelectTieredLooks ==
    ASSUME LoadInv, NEW r \in Requests, SelectTiered(r)
    PROVE  /\ Loaded'
           /\ \A s \in Requests : LimitsRead(s)' /\ HasGroup(s)'
<1> DEFINE t == request[r].target
<1>1. /\ UNCHANGED <<gen, snapshot, source, loaded, ruled>>
      /\ request[r].pc \in Active \ {"limits"} /\ request[r].pc # "new"
      /\ t.kind = "tiered"
  BY DEF SelectTiered, history, Active
<1>2. t \in Targets
  BY <1>1 DEF LoadInv, RegistryInv, RequestInv, Placed
<1>3. t.protocol \in {"openai", "anthropic"}
  BY <1>1, <1>2, RegistryAssumption
<1>4. CASE Refused(r)
  BY <1>1, <1>4, RefusedLooks
<1>5. ASSUME NEW b \in Bindings(snapshot, t.name, t.protocol),
             Sent(r, Arc(b), At(snapshot, b).url)
      PROVE  /\ Loaded'
             /\ \A s \in Requests : LimitsRead(s)' /\ HasGroup(s)'
  <2>1. <<t.name, t.protocol>> \in DOMAIN snapshot.index
    BY SentHasGroup
  <2> QED
    BY <1>1, <1>3, <1>5, <2>1, SentLooks
<1>6. \/ Refused(r)
      \/ \E b \in Bindings(snapshot, t.name, t.protocol) : Sent(r, Arc(b), At(snapshot, b).url)
  BY DEF SelectTiered
<1> QED
  BY <1>4, <1>5, <1>6

\* The two looks of a POST to a provider, one for each protocol.
LEMMA MatchLooks ==
    ASSUME LoadInv, NEW r \in Requests, NEW protocol \in {"openai", "anthropic"},
           Match(r, protocol) # {}, request[r].pc \in {"select", "second"},
           Sent(r, Arc(FirstOf(Match(r, protocol))),
                At(snapshot, FirstOf(Match(r, protocol))).url),
           UNCHANGED <<gen, snapshot, source, loaded, ruled>>
    PROVE  /\ Loaded'
           /\ \A s \in Requests : LimitsRead(s)' /\ HasGroup(s)'
<1>1. <<request[r].target.name, protocol>> \in DOMAIN snapshot.index
  BY SentHasGroup DEF Match
<1>2. request[r].pc \in Active \ {"limits"}
  BY DEF Active
<1> QED
  BY <1>1, <1>2, SentLooks

LEMMA LookInOpenAiLooks ==
    ASSUME LoadInv, NEW r \in Requests, LookInOpenAi(r)
    PROVE  /\ Loaded'
           /\ \A s \in Requests : LimitsRead(s)' /\ HasGroup(s)'
<1>1. UNCHANGED <<gen, snapshot, source, loaded, ruled>> /\ request[r].pc = "select"
  BY DEF LookInOpenAi, history
<1>2. CASE Match(r, "openai") # {}
  BY <1>1, <1>2, MatchLooks DEF LookInOpenAi
<1>3. CASE Match(r, "openai") = {}
  <2>1. request' = [request EXCEPT ![r].pc = "second", ![r].lookedAt = gen]
    BY <1>3 DEF LookInOpenAi
  <2>2. /\ OnlyOf(r) /\ Shaped' /\ request'[r].pc = "second"
        /\ \A f \in {"target", "limits", "limitsAt"} : request'[r][f] = request[r][f]
    BY <2>1 DEF LoadInv, RegistryInv, Shaped, OnlyOf, Fields
  <2>3. HasGroup(r)' /\ request[r].pc \in Active \ {"limits"}
    BY <1>1, <2>2 DEF HasGroup, Active
  <2> QED
    BY <1>1, <2>2, <2>3, LookStep
<1> QED
  BY <1>2, <1>3

LEMMA LookInAnthropicLooks ==
    ASSUME LoadInv, NEW r \in Requests, LookInAnthropic(r)
    PROVE  /\ Loaded'
           /\ \A s \in Requests : LimitsRead(s)' /\ HasGroup(s)'
<1>1. /\ UNCHANGED <<gen, snapshot, source, loaded, ruled>> /\ request[r].pc = "second"
      /\ request[r].pc \in Active \ {"limits"}
  BY DEF LookInAnthropic, history, Active
<1>2. CASE Match(r, "anthropic") # {}
  BY <1>1, <1>2, MatchLooks DEF LookInAnthropic
<1>3. CASE Match(r, "anthropic") = {}
  BY <1>1, <1>3, RefusedLooks DEF LookInAnthropic
<1> QED
  BY <1>2, <1>3

LEMMA FindStoredLooks ==
    ASSUME LoadInv, NEW r \in Requests, FindStored(r)
    PROVE  /\ Loaded'
           /\ \A s \in Requests : LimitsRead(s)' /\ HasGroup(s)'
<1>1. /\ UNCHANGED <<gen, snapshot, source, loaded, ruled>> /\ request[r].target.kind = "stored"
      /\ request[r].pc \in Active \ {"limits"}
  BY DEF FindStored, history, Active
<1>2. Refused(r) \/ \E arc, url : Sent(r, arc, url)
  BY DEF FindStored
<1> QED
  BY <1>1, <1>2, RefusedLooks, SentLooks

LEMMA ReportLooks ==
    ASSUME LoadInv, NEW r \in Requests, NEW ok \in BOOLEAN, NEW trips \in BOOLEAN,
           Report(r, ok, trips)
    PROVE  /\ Loaded'
           /\ \A s \in Requests : LimitsRead(s)' /\ HasGroup(s)'
<1> DEFINE end == IF ok THEN "ok" ELSE "failed"
<1>1. /\ UNCHANGED <<gen, snapshot, source, loaded, ruled>>
      /\ request' = [request EXCEPT ![r].pc = "over", ![r].outcome = end]
  BY DEF Report
<1>2. OnlyOf(r) /\ request'[r].pc = "over"
  BY <1>1 DEF LoadInv, RegistryInv, Shaped, OnlyOf, Fields
<1>3. LimitsRead(r)' /\ HasGroup(r)'
  BY <1>2 DEF LimitsRead, HasGroup, Active
<1> QED
  BY <1>1, <1>2, <1>3, LooksKept, LoadedKept DEF OnlyOf

\* What each request read its limits from is known of all requests.
LEMMA RuledStep ==
    ASSUME DOMAIN ruled = Requests, [Next]_vars
    PROVE  DOMAIN ruled' = Requests
<1>1. ruled' = ruled \/ \E r \in Requests : ruled' = [ruled EXCEPT ![r] = source]
  BY DEF Next, LoadFile, LoadDatabase, Reload, Call, ReadLimits, ReadCapacity, SelectTiered,
         LookInOpenAi, LookInAnthropic, FindStored, Report, Recover, vars, history
<1> QED
  BY <1>1

LEMMA LoadInvariant == Spec => []LoadInv
<1>1. Init => LoadInv
  <2> SUFFICES ASSUME Init PROVE LoadInv
    OBVIOUS
  <2>1. Loaded
    <3>1. Range(<< >>) = {} /\ << >> \in Seq({})
      BY DEF Range
    <3> QED
      BY <3>1 DEF Init, Loaded
  <2>2. \A r \in Requests : LimitsRead(r) /\ HasGroup(r)
    BY DEF Init, Fresh, LimitsRead, HasGroup, Active
  <2>3. DOMAIN ruled = Requests
    BY DEF Init
  <2> QED
    BY <2>1, <2>2, <2>3, InitRegistryInv DEF LoadInv
<1>2. LoadInv /\ [Next]_vars => LoadInv'
  <2> SUFFICES ASSUME LoadInv, [Next]_vars
               PROVE  /\ Loaded'
                      /\ \A s \in Requests : LimitsRead(s)' /\ HasGroup(s)'
    BY RegistryInvStep, RuledStep DEF LoadInv
  <2>1. ASSUME NEW file \in Files, LoadFile(file)
        PROVE  /\ Loaded'
               /\ \A s \in Requests : LimitsRead(s)' /\ HasGroup(s)'
    <3>1. Groups(file) # Failed /\ Reload(Groups(file), file)
      BY <2>1 DEF LoadFile
    <3>2. Groups(file) \in Seq(Range(Groups(file)))
      BY <3>1, FileGroups, SeqOfItsRange
    <3> QED
      BY <3>1, <3>2, ReloadLoads, ReloadForgets
  <2>2. ASSUME NEW db \in Databases, LoadDatabase(db)
        PROVE  /\ Loaded'
               /\ \A s \in Requests : LimitsRead(s)' /\ HasGroup(s)'
    <3>1. PICK groups \in Store!DbGroups(db) : Reload(groups, None)
      BY <2>2 DEF LoadDatabase
    <3>2. groups \in Seq(Range(groups))
      BY DatabaseGroups
    <3> QED
      BY <3>1, <3>2, ReloadLoads, ReloadForgets
  <2>3. ASSUME NEW arc \in open, Recover(arc)
        PROVE  /\ Loaded'
               /\ \A s \in Requests : LimitsRead(s)' /\ HasGroup(s)'
    BY <2>3, LooksKept, LoadedKept DEF Recover
  <2>4. CASE UNCHANGED vars
    BY <2>4, LooksKept, LoadedKept DEF vars, history
  <2> QED
    BY <2>1, <2>2, <2>3, <2>4, CallLooks, ReadLimitsLooks, ReadCapacityLooks,
       SelectTieredLooks, LookInOpenAiLooks, LookInAnthropicLooks, FindStoredLooks,
       ReportLooks
    DEF Next
<1> QED
  BY <1>1, <1>2, PTL DEF Spec
----------------------------------------------------------------------------
\* Groups registered one after another make the snapshot that a reload of them
\* makes, as registry.rs has it twice.
THEOREM RegisterAgreesHolds == Spec => []RegisterAgrees
<1>1. LoadInv => RegisterAgrees
  <2> SUFFICES ASSUME LoadInv, NEW n \in DOMAIN snapshot.groups
               PROVE  Snapshot(SubSeq(snapshot.groups, 1, n))
                        = Registered(Snapshot(SubSeq(snapshot.groups, 1, n - 1)),
                                     snapshot.groups[n])
    BY DEF RegisterAgrees
  <2> DEFINE groups == snapshot.groups
             S == Range(groups)
             first(m) == SubSeq(groups, 1, m)
  <2>1. groups \in Seq(S)
    BY SnapshotOfLoaded DEF LoadInv, RegistryInv, Typed, Loaded
  <2> HIDE DEF groups
  <2>2. n \in 1..Len(groups) /\ Len(groups) \in Nat /\ groups[n] \in S
    BY <2>1 DEF groups
  <2> HIDE DEF S
  <2>3. first(n - 1) \in Seq(S) /\ first(n) = Append(first(n - 1), groups[n])
    BY <2>1, <2>2
  <2> HIDE DEF first
  <2>4. Snapshot(first(n)) = Registered(Snapshot(first(n - 1)), groups[n])
    BY <2>2, <2>3, OneMoreGroup
  <2> QED
    BY <2>4 DEF first, groups
<1> QED
  BY LoadInvariant, <1>1, PTL

\* What the index has under a name, after a load from a file, carries the limits
\* of a route that claims the name.
LEMMA IndexedGroup ==
    ASSUME LoadInv, NEW file \in Files, Groups(file) # Failed, loaded = Groups(file),
           NEW name, NEW protocol, <<name, protocol>> \in DOMAIN snapshot.index
    PROVE  \E m \in DOMAIN file.routes :
               /\ name \in {file.routes[m].model} \cup file.routes[m].aliases
               /\ snapshot.groups[snapshot.index[<<name, protocol>>]].limits
                    = file.routes[m].limits
<1> DEFINE k == <<name, protocol>>
           n == Len(loaded)
           T == {i \in DOMAIN loaded : k \in Keys(loaded[i])}
           top == Max(T)
<1>1. loaded \in Seq(GroupsOf(file))
  BY FileGroups
<1>2. n \in Nat /\ DOMAIN loaded = 1..n
  BY <1>1
<1>3. /\ snapshot.groups = loaded /\ snapshot.index = Index(loaded)
  BY DEF LoadInv, RegistryInv, Typed, Snapshot
<1>4. /\ k \in UNION {Keys(loaded[i]) : i \in DOMAIN loaded}
      /\ snapshot.index[k] = top
  BY <1>3 DEF Index
<1>5. T \in SUBSET (1..n) /\ T # {}
  BY <1>2, <1>4
<1>6. top \in T
  <2> HIDE DEF T, n
  <2> QED
    BY <1>2, <1>5, GreatestIs
<1>7. loaded[top] \in GroupsOf(file) /\ k \in Keys(loaded[top])
  BY <1>1, <1>6
<1> HIDE DEF top
<1>8. PICK m \in DOMAIN file.routes, j \in DOMAIN Protocols :
          loaded[top] = Group(file, file.routes[m], Protocols[j])
  BY <1>7 DEF GroupsOf
<1>9. /\ loaded[top].model = file.routes[m].model
      /\ loaded[top].aliases = file.routes[m].aliases
      /\ loaded[top].limits = file.routes[m].limits
  BY <1>8 DEF Group
<1>10. name \in {loaded[top].model} \cup loaded[top].aliases
  BY <1>7 DEF Keys
<1> QED
  BY <1>3, <1>4, <1>9, <1>10


\* The limits a request has read are a route's.
FromFile(r) ==
    ruled[r] # None =>
        \E i \in Claims(ruled[r], request[r].target.name) :
            request[r].limits = ruled[r].routes[i].limits

\* A request past the limits, that could have any.
Limited(r) ==
    request[r].pc \in Active \ {"limits"} /\ request[r].target.kind # "stored"

\* What was read from the current snapshot came from a group, if it is not
\* nothing, or if a group of the name served the request.
RuledNow(r) ==
    /\ Limited(r)
    /\ request[r].limitsAt = gen
    /\ request[r].limits # None \/ (request[r].pc = "sent" /\ request[r].up[1] = gen)
    => FromFile(r)

\* Whoever found a group of the name found limits of a route that claims it.
LEMMA ReadFromFile ==
    ASSUME LoadInv, NEW r \in Requests
    PROVE  RuledNow(r)
<1> SUFFICES ASSUME Limited(r), request[r].limitsAt = gen, ruled[r] # None,
                    \/ request[r].limits # None
                    \/ request[r].pc = "sent" /\ request[r].up[1] = gen
             PROVE  \E i \in Claims(ruled[r], request[r].target.name) :
                        request[r].limits = ruled[r].routes[i].limits
  BY DEF RuledNow, FromFile
<1>1. PICK name : name = request[r].target.name
  OBVIOUS
<1>2. request[r].limits = RateLimits(name) /\ ruled[r] = source
  BY <1>1 DEF LoadInv, LimitsRead, Limited
<1>3. PICK file \in Files :
          source = file /\ Groups(file) # Failed /\ loaded = Groups(file)
  BY <1>2 DEF LoadInv, Loaded
<1>4. \E protocol \in {"openai", "anthropic"} : <<name, protocol>> \in DOMAIN snapshot.index
  <2>1. CASE request[r].limits # None
    BY <1>2, <2>1 DEF RateLimits
  <2>2. CASE request[r].pc = "sent" /\ request[r].up[1] = gen
    BY <1>1, <2>2 DEF LoadInv, HasGroup, Limited
  <2> QED
    BY <2>1, <2>2
<1>5. PICK protocol \in {"openai", "anthropic"} :
          /\ <<name, protocol>> \in DOMAIN snapshot.index
          /\ request[r].limits = snapshot.groups[snapshot.index[<<name, protocol>>]].limits
  BY <1>2, <1>4 DEF RateLimits
<1>6. PICK m \in DOMAIN file.routes :
          /\ name \in {file.routes[m].model} \cup file.routes[m].aliases
          /\ snapshot.groups[snapshot.index[<<name, protocol>>]].limits
               = file.routes[m].limits
  BY <1>3, <1>5, IndexedGroup
<1> QED
  BY <1>1, <1>2, <1>3, <1>5, <1>6 DEF Claims

\* What a step leaves of a request that has read its limits: it has read them
\* just now, or it goes on with what it had, and is sent from the snapshot of the
\* moment.
Onward(r) ==
    /\ Limited(r)
    /\ UNCHANGED <<request[r].target, request[r].limits, request[r].limitsAt, ruled[r]>>
    /\ request'[r].pc = "sent" =>
          \/ request'[r].up[1] = gen'
          \/ request[r].pc = "sent" /\ request'[r].up = request[r].up

Moved(r) ==
    \/ ~Limited(r)'
    \/ request'[r].limitsAt = gen'
    \/ Onward(r)

\* So does one that no step touches.
LEMMA StaysAsItIs ==
    ASSUME NEW r \in Requests, request'[r] = request[r], ruled'[r] = ruled[r]
    PROVE  Moved(r)
  BY DEF Moved, Onward, Limited

\* The action of one request leaves the others where they are.
LEMMA OneMoves ==
    ASSUME NEW r \in Requests, OnlyOf(r), Moved(r),
           \A s \in Requests \ {r} : ruled'[s] = ruled[s]
    PROVE  \A s \in Requests : Moved(s)
<1>1. ASSUME NEW s \in Requests, s # r PROVE Moved(s)
  BY <1>1, StaysAsItIs DEF OnlyOf
<1> QED
  BY <1>1

\* Sent and refused requests in particular.
LEMMA SentMoves ==
    ASSUME LoadInv, NEW r \in Requests, request[r].pc \in Active \ {"limits"},
           UNCHANGED ruled,
           Refused(r) \/ \E arc, url : arc[1] = gen' /\ Sent(r, arc, url)
    PROVE  \A s \in Requests : Moved(s)
<1>1. Shaped
  BY DEF LoadInv, RegistryInv
<1>2. CASE Refused(r)
  <2>1. OnlyOf(r) /\ request'[r].pc = "over"
    BY <1>1, <1>2, RefusedFields
  <2>2. Moved(r)
    BY <2>1 DEF Moved, Limited, Active
  <2> QED
    BY <2>1, <2>2, OneMoves
<1>3. ASSUME NEW arc, NEW url, arc[1] = gen', Sent(r, arc, url)
      PROVE  \A s \in Requests : Moved(s)
  <2>1. /\ OnlyOf(r) /\ request'[r].up[1] = gen'
        /\ \A f \in Fields \ {"pc", "up", "url"} : request'[r][f] = request[r][f]
    BY <1>1, <1>3, SentFields
  <2>2. /\ request'[r].target = request[r].target
        /\ request'[r].limits = request[r].limits
        /\ request'[r].limitsAt = request[r].limitsAt
    BY <2>1 DEF Fields
  <2>3. Moved(r)
    BY <2>1, <2>2 DEF Moved, Onward, Limited
  <2> QED
    BY <2>1, <2>3, OneMoves
<1> QED
  BY <1>2, <1>3

\* No step moves a request otherwise.
LEMMA EveryStepMoves ==
    ASSUME LoadInv, [Next]_vars
    PROVE  \A s \in Requests : Moved(s)
<1>1. /\ DOMAIN ruled = Requests /\ DOMAIN request = Requests
      /\ \A r \in Requests : DOMAIN request[r] = Fields
  BY DEF LoadInv, RegistryInv, Shaped
<1>2. CASE UNCHANGED <<request, ruled>>
  BY <1>2, StaysAsItIs
<1>3. ASSUME NEW r \in Requests, NEW t \in Targets, Call(r, t)
      PROVE  \A s \in Requests : Moved(s)
  <2> DEFINE first == IF t.kind = "stored" THEN "select" ELSE "limits"
  <2>1. /\ request' = [request EXCEPT ![r] = [Fresh EXCEPT !.target = t, !.pc = first]]
        /\ UNCHANGED ruled
    BY <1>3 DEF Call
  <2>2. OnlyOf(r) /\ request'[r].pc = first /\ request'[r].target = t
    BY <1>1, <2>1 DEF OnlyOf, Fresh
  <2>3. Moved(r)
    BY <2>2 DEF Moved, Limited
  <2> QED
    BY <2>1, <2>2, <2>3, OneMoves
<1>4. ASSUME NEW r \in Requests, ReadLimits(r)
      PROVE  \A s \in Requests : Moved(s)
  <2> DEFINE read == RateLimits(request[r].target.name)
  <2>1. /\ request' = [request EXCEPT ![r].pc = "capacity", ![r].limits = read,
                                      ![r].limitsAt = gen]
        /\ gen' = gen /\ ruled' = [ruled EXCEPT ![r] = source]
    BY <1>4 DEF ReadLimits
  <2> HIDE DEF read
  <2>2. OnlyOf(r) /\ request'[r].limitsAt = gen'
    BY <1>1, <2>1 DEF OnlyOf, Fields
  <2>3. \A s \in Requests \ {r} : ruled'[s] = ruled[s]
    BY <1>1, <2>1
  <2> QED
    BY <2>2, <2>3, OneMoves DEF Moved
<1>5. ASSUME NEW r \in Requests, NEW exceeded \in BOOLEAN, ReadCapacity(r, exceeded)
      PROVE  \A s \in Requests : Moved(s)
  <2> DEFINE min == IF exceeded THEN 1 ELSE 0
  <2>1. /\ request' = [request EXCEPT ![r].pc = "select", ![r].min = min]
        /\ UNCHANGED ruled /\ request[r].pc = "capacity"
    BY <1>5 DEF ReadCapacity
  <2> HIDE DEF min
  <2>2. /\ OnlyOf(r) /\ request'[r].pc = "select"
        /\ request'[r].target = request[r].target
        /\ request'[r].limits = request[r].limits
        /\ request'[r].limitsAt = request[r].limitsAt
    BY <1>1, <2>1 DEF OnlyOf, Fields
  <2>3. Moved(r)
    BY <2>1, <2>2 DEF Moved, Onward, Limited, Active
  <2> QED
    BY <2>1, <2>2, <2>3, OneMoves
<1>6. ASSUME NEW r \in Requests,
             SelectTiered(r) \/ LookInAnthropic(r) \/ FindStored(r)
      PROVE  \A s \in Requests : Moved(s)
  <2>1. /\ UNCHANGED <<gen, ruled>> /\ request[r].pc \in Active \ {"limits"}
        /\ \/ Refused(r)
           \/ \E b, url : Sent(r, Arc(b), url)
           \/ \E id, url : Sent(r, ProviderArc(id), url)
    BY <1>6 DEF SelectTiered, LookInAnthropic, FindStored, history, Active
  <2>2. \A b, id : Arc(b)[1] = gen' /\ ProviderArc(id)[1] = gen'
    BY <2>1 DEF Arc, ProviderArc
  <2> QED
    BY <2>1, <2>2, SentMoves
<1>7. ASSUME NEW r \in Requests, LookInOpenAi(r)
      PROVE  \A s \in Requests : Moved(s)
  <2>1. /\ UNCHANGED <<gen, ruled>> /\ request[r].pc = "select"
        /\ \/ \E b, url : Sent(r, Arc(b), url)
           \/ request' = [request EXCEPT ![r].pc = "second", ![r].lookedAt = gen]
    BY <1>7 DEF LookInOpenAi, history
  <2>2. CASE \E b, url : Sent(r, Arc(b), url)
    <3>1. \A b : Arc(b)[1] = gen'
      BY <2>1 DEF Arc
    <3> QED
      BY <2>1, <2>2, <3>1, SentMoves DEF Active
  <2>3. CASE request' = [request EXCEPT ![r].pc = "second", ![r].lookedAt = gen]
    <3>1. /\ OnlyOf(r) /\ request'[r].pc = "second"
          /\ request'[r].target = request[r].target
          /\ request'[r].limits = request[r].limits
          /\ request'[r].limitsAt = request[r].limitsAt
      BY <1>1, <2>3 DEF OnlyOf, Fields
    <3>2. Moved(r)
      BY <2>1, <3>1 DEF Moved, Onward, Limited, Active
    <3> QED
      BY <2>1, <3>1, <3>2, OneMoves
  <2> QED
    BY <2>1, <2>2, <2>3
<1>8. ASSUME NEW r \in Requests, NEW ok \in BOOLEAN, NEW trips \in BOOLEAN,
             Report(r, ok, trips)
      PROVE  \A s \in Requests : Moved(s)
  <2> DEFINE end == IF ok THEN "ok" ELSE "failed"
  <2>1. /\ request' = [request EXCEPT ![r].pc = "over", ![r].outcome = end]
        /\ UNCHANGED ruled
    BY <1>8 DEF Report
  <2> HIDE DEF end
  <2>2. OnlyOf(r) /\ request'[r].pc = "over"
    BY <1>1, <2>1 DEF OnlyOf, Fields
  <2>3. Moved(r)
    BY <2>2 DEF Moved, Limited, Active
  <2> QED
    BY <2>1, <2>2, <2>3, OneMoves
<1>9. \/ UNCHANGED <<request, ruled>>
      \/ \E r \in Requests :
            \/ \E t \in Targets : Call(r, t)
            \/ ReadLimits(r)
            \/ \E exceeded \in BOOLEAN : ReadCapacity(r, exceeded)
            \/ SelectTiered(r) \/ LookInAnthropic(r) \/ FindStored(r)
            \/ LookInOpenAi(r)
            \/ \E ok, trips \in BOOLEAN : Report(r, ok, trips)
  BY DEF Next, LoadFile, LoadDatabase, Reload, Recover, vars, history
<1> QED
  BY <1>2, <1>3, <1>4, <1>5, <1>6, <1>7, <1>8, <1>9

\* The inductive form: limits once read, if they are not nothing, stay a
\* route's, and so does what a request has that read and was sent under one
\* snapshot, current or not.
Ruled(r) ==
    /\ Limited(r)
    /\ \/ request[r].limits # None
       \/ request[r].pc = "sent" /\ request[r].limitsAt = request[r].up[1]
    => FromFile(r)

\* Whatever the names, protocols and reloads, a request that is sent has limits
\* that a route gives its name in the file it read them from, unless it has none
\* because it looked before the reload that brought its group.
THEOREM HeldToItsLimitsHolds == Spec => []HeldToItsLimits
<1>1. LoadInv => \A r \in Requests : RuledNow(r)
  BY ReadFromFile
<1>2. Init => \A r \in Requests : Ruled(r)
  BY DEF Init, Fresh, Ruled, Limited, Active
<1>3. LoadInv /\ (\A r \in Requests : RuledNow(r))' /\ (\A r \in Requests : Ruled(r))
        /\ [Next]_vars
      => (\A r \in Requests : Ruled(r))'
  <2> SUFFICES ASSUME LoadInv, [Next]_vars, NEW r \in Requests, RuledNow(r)', Ruled(r),
                      Limited(r)',
                      \/ request'[r].limits # None
                      \/ request'[r].pc = "sent" /\ request'[r].limitsAt = request'[r].up[1]
               PROVE  FromFile(r)'
    BY DEF Ruled
  <2>1. Moved(r)
    BY EveryStepMoves
  <2>2. CASE request'[r].limitsAt = gen'
    BY <2>2 DEF RuledNow
  <2>3. CASE request'[r].limitsAt # gen'
    <3>1. Onward(r)
      BY <2>1, <2>3 DEF Moved
    <3>2. FromFile(r)
      BY <2>3, <3>1 DEF Onward, Ruled
    <3> QED
      BY <3>1, <3>2 DEF Onward, FromFile, Claims
  <2> QED
    BY <2>2, <2>3
<1>4. (\A r \in Requests : Ruled(r)) => HeldToItsLimits
  BY DEF HeldToItsLimits, Ruled, Limited, FromFile, Active
<1> QED
  BY LoadInvariant, <1>1, <1>2, <1>3, <1>4, PTL DEF Spec
=============================================================================
