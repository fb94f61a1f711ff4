------------------------------ MODULE Registry ------------------------------
(***************************************************************************)
(* The upstream registry (core/src/upstream/registry.rs): a snapshot of    *)
(* the groups by name and protocol and of the providers by credential,     *)
(* replaced as a whole by each reload, and the requests that read it, each *)
(* several times and each from the snapshot it then finds.                 *)
(*                                                                         *)
(* What is loaded comes from FileConfig or RouteStore, when is ConfigSync's*)
(* concern.  A binding is an Arc: <<snapshot, group, position>> in a group,*)
(* <<snapshot, credential>> in the provider map, and whoever was given it  *)
(* keeps it.  Of its circuit breaker only matters whether it refuses;      *)
(* Gateway has the retries, UpstreamGroup the choice within a tier.        *)
(***************************************************************************)
EXTENDS FileConfig, FiniteSets

CONSTANTS Files, Databases,  \* what may be loaded
          U32Max,            \* the largest u32
          Requests,
          Targets,           \* what a request may ask for
          MaxReloads         \* bound: snapshots stored

ASSUME RegistryAssumption ==
    /\ IsFiniteSet(Requests)
    /\ MaxReloads \in Nat
    /\ U32Max \in Nat \ {0}
    /\ \A file \in Files : file.routes \in Seq(Range(file.routes))
    /\ \A db \in Databases : IsFiniteSet(db.routes)
    /\ None \notin Targets /\ None \notin {"refused", "ok", "failed"}
    /\ \A t \in Targets :
          /\ t.kind \in {"tiered", "create", "stored"}
          /\ t.kind # "stored" => t.protocol \in {"openai", "anthropic"}

Store == INSTANCE RouteStore

VARIABLES gen,       \* snapshots stored so far
          snapshot,  \* the current one
          open,      \* the bindings whose circuit breaker refuses
          request    \* [request -> its record]

(* History, read by no action of the program.                              *)
VARIABLES source,    \* the file that was loaded last, None for a database
          loaded,    \* the groups that were loaded last
          ruled,     \* [request -> the source when it read its limits]
          held       \* [request -> the bindings that could have served it
                     \*             at every moment since it began]

history == <<source, loaded, ruled, held>>
vars == <<gen, snapshot, open, request, history>>
----------------------------------------------------------------------------
\* group_key() of a group's model and of its aliases.
Keys(g) == {<<name, g.protocol>> : name \in {g.model} \cup g.aliases}

\* Mutant: the first group of a name stays.
IndexFirst(groups) ==
    [k \in UNION {Keys(groups[i]) : i \in DOMAIN groups} |->
        Min({i \in DOMAIN groups : k \in Keys(groups[i])})]

\* insert() one group after another: the last one that claims a name has it.
Index(groups) ==
    [k \in UNION {Keys(groups[i]) : i \in DOMAIN groups} |->
        Max({i \in DOMAIN groups : k \in Keys(groups[i])})]

Ids(g) == {g.bindings[j].id : j \in DOMAIN g.bindings}
FirstUrl(g, id) ==
    g.bindings[Min({j \in DOMAIN g.bindings : g.bindings[j].id = id})].url

\* build_provider_map(): the first binding seen of each credential.
Providers(groups) ==
    [id \in UNION {Ids(groups[i]) : i \in DOMAIN groups} |->
        FirstUrl(groups[Min({i \in DOMAIN groups : id \in Ids(groups[i])})], id)]

\* reload_all().
Snapshot(groups) ==
    [groups |-> groups,
     index |-> Index(groups),
     models |-> {groups[i].model : i \in DOMAIN groups},
     providers |-> Providers(groups)]

\* register(), a copy of the loop body of reload_all with its own order.
Registered(snap, g) ==
    [groups |-> Append(snap.groups, g),
     index |-> [k \in Keys(g) \cup DOMAIN snap.index |->
                   IF k \in Keys(g) THEN Len(snap.groups) + 1 ELSE snap.index[k]],
     models |-> snap.models \cup {g.model},
     providers |-> [id \in Ids(g) \cup DOMAIN snap.providers |->
                       IF id \in DOMAIN snap.providers THEN snap.providers[id]
                       ELSE FirstUrl(g, id)]]
----------------------------------------------------------------------------
\* get_protocol_group().
Bindings(snap, name, protocol) ==
    IF <<name, protocol>> \in DOMAIN snap.index
    THEN LET i == snap.index[<<name, protocol>>]
         IN  {<<i, j>> : j \in DOMAIN snap.groups[i].bindings}
    ELSE {}

At(snap, b) == snap.groups[b[1]].bindings[b[2]]
Arc(b) == <<gen, b[1], b[2]>>

\* Mutant: the provider map holds the group's own binding.
ProviderArcShared(id) ==
    LET i == Min({n \in DOMAIN snapshot.groups : id \in Ids(snapshot.groups[n])})
    IN  <<gen, i, Min({j \in DOMAIN snapshot.groups[i].bindings :
                          snapshot.groups[i].bindings[j].id = id})>>

ProviderArc(id) == <<gen, id>>
IsOfProvider(arc) == Len(arc) = 2

\* What could serve a request, by what was loaded and not by what is stored.
Eligible(groups, n, t, min) ==
    LET snap == Snapshot(groups)
        of(protocol) == Bindings(snap, t.name, protocol)
    IN  CASE t.kind = "tiered" ->
               {<<n, b[1], b[2]>> : b \in {c \in of(t.protocol) :
                                              At(snap, c).priority >= min}}
          [] t.kind = "create" ->
               {<<n, b[1], b[2]>> : b \in {c \in of("openai") \cup of("anthropic") :
                                              At(snap, c).id = t.id}}
          [] t.kind = "stored" -> {<<n, t.id>>} \cap {<<n, id>> : id \in DOMAIN snap.providers}

\* pc: not called; about to read the limits, the capacity, the snapshot it
\* selects from, or, for a POST to a provider, the second group; sent; over.
Fresh == [pc |-> "new", target |-> None, limits |-> None, limitsAt |-> 0, min |-> 0,
          lookedAt |-> 0, up |-> None, url |-> None, outcome |-> None]

TypeOK ==
    /\ gen \in 0..MaxReloads
    /\ snapshot = Snapshot(snapshot.groups)
    /\ \A r \in Requests :
          LET q == request[r]
          IN  /\ q.pc \in {"new", "limits", "capacity", "select", "second", "sent", "over"}
              /\ q.pc = "new" <=> q.target = None
              /\ q.target \in Targets \cup {None}
              /\ q.limitsAt \in 0..gen /\ q.lookedAt \in 0..gen
              /\ q.min \in {0, 1}
              /\ q.pc = "sent" => q.up[1] \in 0..gen
              /\ q.outcome \in {None, "refused", "ok", "failed"}
              /\ q.outcome # None <=> q.pc = "over"
    /\ \A arc \in open : arc[1] \in 0..gen
    /\ \A r \in Requests : held[r] \cap open = {} \/ request[r].pc = "over"

Init ==
    /\ gen = 0
    /\ snapshot = Snapshot(<< >>)
    /\ open = {}
    /\ request = [r \in Requests |-> Fresh]
    /\ source = None
    /\ loaded = << >>
    /\ ruled = [r \in Requests |-> None]
    /\ held = [r \in Requests |-> {}]
----------------------------------------------------------------------------
\* A binding of the old snapshot is no part of the new one.
HeldAfter(groups) ==
    [r \in Requests |->
        IF request[r].pc \in {"new", "over"} \/ held[r] = {} THEN held[r]
        ELSE Eligible(groups, gen + 1, request[r].target, request[r].min)]

\* Mutant: a reload clears the registry first.
ReloadCleared(groups, from) ==
    /\ gen < MaxReloads
    /\ gen' = gen + 1
    /\ snapshot' = Snapshot(IF snapshot.groups = << >> THEN groups ELSE << >>)
    /\ source' = from
    /\ loaded' = groups
    /\ held' = HeldAfter(groups)
    /\ UNCHANGED <<open, request, ruled>>

\* A reload: all bindings are new, in the groups and in the provider map.
Reload(groups, from) ==
    /\ gen < MaxReloads
    /\ gen' = gen + 1
    /\ snapshot' = Snapshot(groups)
    /\ source' = from
    /\ loaded' = groups
    /\ held' = HeldAfter(groups)
    /\ UNCHANGED <<open, request, ruled>>

\* A file that cannot be loaded leaves everything as it is.
LoadFile(file) == Groups(file) # Failed /\ Reload(Groups(file), file)

LoadDatabase(db) == \E groups \in Store!DbGroups(db) : Reload(groups, None)

\* The endpoints for stored responses check no limits.
Call(r, t) ==
    /\ request[r].pc = "new"
    /\ request' = [request EXCEPT
           ![r] = [Fresh EXCEPT !.target = t,
                                !.pc = IF t.kind = "stored" THEN "select" ELSE "limits"]]
    /\ held' = [held EXCEPT ![r] = Eligible(loaded, gen, t, 0) \ open]
    /\ UNCHANGED <<gen, snapshot, open, source, loaded, ruled>>

\* get_rate_limits(): of the openai group, or else of the anthropic group.
RateLimits(name) ==
    LET has(protocol) == <<name, protocol>> \in DOMAIN snapshot.index
        of(protocol) == snapshot.groups[snapshot.index[<<name, protocol>>]].limits
    IN  IF has("openai") THEN of("openai")
        ELSE IF has("anthropic") THEN of("anthropic")
        ELSE None

ReadLimits(r) ==
    /\ request[r].pc = "limits"
    /\ request' = [request EXCEPT ![r].pc = "capacity",
                                  ![r].limits = RateLimits(request[r].target.name),
                                  ![r].limitsAt = gen]
    /\ ruled' = [ruled EXCEPT ![r] = source]
    /\ UNCHANGED <<gen, snapshot, open, source, loaded, held>>

\* get_primary_capacity(), and what the limiter says of it.
Capacity(name, protocol) ==
    IF <<name, protocol>> \in DOMAIN snapshot.index
    THEN snapshot.groups[snapshot.index[<<name, protocol>>]].capacity
    ELSE None

ReadCapacity(r, exceeded) ==
    LET t == request[r].target
    IN  /\ request[r].pc = "capacity"
        /\ exceeded => Capacity(t.name, t.protocol) # None
        /\ request' = [request EXCEPT ![r].pc = "select",
                                      ![r].min = IF exceeded THEN 1 ELSE 0]
        /\ held' = IF exceeded /\ t.kind = "tiered"
                   THEN [held EXCEPT ![r] = @ \cap Eligible(loaded, gen, t, 1)]
                   ELSE held
        /\ UNCHANGED <<gen, snapshot, open, source, loaded, ruled>>
----------------------------------------------------------------------------
Sent(r, arc, url) ==
    request' = [request EXCEPT ![r].pc = "sent", ![r].up = arc, ![r].url = url]

\* Mutant: the request is left without an answer.
RefusedSilently(r) ==
    request' = [request EXCEPT ![r].pc = "over"]

Refused(r) ==
    request' = [request EXCEPT ![r].pc = "over", ![r].outcome = "refused"]

\* select_with_min_priority(): the lowest tier that has somebody available.
SelectTiered(r) ==
    LET t == request[r].target
        candidates == {b \in Bindings(snapshot, t.name, t.protocol) :
                          /\ At(snapshot, b).priority >= request[r].min
                          /\ Arc(b) \notin open}
    IN  /\ request[r].pc = "select"
        /\ t.kind = "tiered"
        /\ \/ candidates = {} /\ Refused(r)
           \/ \E b \in candidates :
                /\ \A c \in candidates :
                      At(snapshot, b).priority <= At(snapshot, c).priority
                /\ Sent(r, Arc(b), At(snapshot, b).url)
        /\ UNCHANGED <<gen, snapshot, open, history>>

\* find_by_provider_id(): the openai group, then the anthropic group, each
\* from the snapshot of its moment.
Match(r, protocol) ==
    LET t == request[r].target
    IN  {b \in Bindings(snapshot, t.name, protocol) :
            At(snapshot, b).id = t.id /\ Arc(b) \notin open}

FirstOf(matches) == CHOOSE b \in matches : \A c \in matches : b[2] <= c[2]

LookInOpenAi(r) ==
    LET matches == Match(r, "openai")
    IN  /\ request[r].pc = "select"
        /\ request[r].target.kind = "create"
        /\ IF matches # {}
           THEN Sent(r, Arc(FirstOf(matches)), At(snapshot, FirstOf(matches)).url)
           ELSE request' = [request EXCEPT ![r].pc = "second", ![r].lookedAt = gen]
        /\ UNCHANGED <<gen, snapshot, open, history>>

LookInAnthropic(r) ==
    LET matches == Match(r, "anthropic")
    IN  /\ request[r].pc = "second"
        /\ IF matches # {}
           THEN Sent(r, Arc(FirstOf(matches)), At(snapshot, FirstOf(matches)).url)
           ELSE Refused(r)
        /\ UNCHANGED <<gen, snapshot, open, history>>

\* find_for_responses().
FindStored(r) ==
    LET id == request[r].target.id
    IN  /\ request[r].pc = "select"
        /\ request[r].target.kind = "stored"
        /\ IF id \in DOMAIN snapshot.providers /\ ProviderArc(id) \notin open
           THEN Sent(r, ProviderArc(id), snapshot.providers[id])
           ELSE Refused(r)
        /\ UNCHANGED <<gen, snapshot, open, history>>

\* What is open now can hold nobody's request any more.
Opened(arcs) ==
    /\ open' = arcs
    /\ held' = [r \in Requests |->
                   IF request[r].pc = "over" THEN held[r] ELSE held[r] \ arcs]

\* The outcome goes to the breaker of the binding that served the request: a
\* failure may make it refuse, a success leaves it as it is, open or not.
Report(r, ok, trips) ==
    /\ request[r].pc = "sent"
    /\ request' = [request EXCEPT ![r].pc = "over",
                                  ![r].outcome = IF ok THEN "ok" ELSE "failed"]
    /\ Opened(IF ~ok /\ trips THEN open \cup {request[r].up} ELSE open)
    /\ UNCHANGED <<gen, snapshot, source, loaded, ruled>>

\* The timeout of an open breaker is over.
Recover(arc) ==
    /\ arc \in open
    /\ Opened(open \ {arc})
    /\ UNCHANGED <<gen, snapshot, request, source, loaded, ruled>>

Next ==
    \/ \E file \in Files : LoadFile(file)
    \/ \E db \in Databases : LoadDatabase(db)
    \/ \E r \in Requests :
         \/ \E t \in Targets : Call(r, t)
         \/ ReadLimits(r)
         \/ \E exceeded \in BOOLEAN : ReadCapacity(r, exceeded)
         \/ SelectTiered(r)
         \/ LookInOpenAi(r)
         \/ LookInAnthropic(r)
         \/ FindStored(r)
         \/ \E ok, trips \in BOOLEAN : Report(r, ok, trips)
    \/ \E arc \in open : Recover(arc)

Spec == Init /\ [][Next]_vars
----------------------------------------------------------------------------
\* The two ways to fill the registry agree (registry.rs repeats the insertion
\* into all three indexes): what reload_all stores of the first n groups is what
\* register() makes of the n-th and of the groups before it.
RegisterAgrees ==
    LET first(n) == Snapshot(SubSeq(snapshot.groups, 1, n))
    IN  \A n \in DOMAIN snapshot.groups :
            first(n) = Registered(first(n - 1), snapshot.groups[n])

\* A request is refused only if nobody could have served it: at some moment
\* since it came, the configuration then loaded had no available binding for
\* it.  Reloads do not show, they swap one pointer; except that a POST to a
\* provider looks at two groups, and misses whom a reload in between has moved
\* from the one it had yet to look at to the one it had seen.  It misses nobody
\* else: nobody of the snapshot it began its search in, and nobody who is in the
\* group it looked at last.
NobodyIsMissed ==
    \A r \in Requests :
        LET q == request[r]
        IN  q.outcome = "refused" =>
              \/ held[r] = {}
              \/ /\ q.target.kind = "create"
                 /\ \A arc \in held[r] :
                       /\ arc[1] # q.lookedAt
                       /\ arc[1] = gen =>
                             <<arc[2], arc[3]>> \in Bindings(snapshot, q.target.name, "openai")

\* The two kinds of endpoint keep to their own breakers ("preventing
\* responses-side failures from affecting model routing health",
\* registry.rs:11), and what was sent under an older snapshot changes no
\* breaker of the current one.
OutcomesStayApart ==
    [][\A r \in Requests :
          request[r].pc = "sent" /\ request'[r].pc = "over" =>
              \A arc \in (open \ open') \cup (open' \ open) :
                  /\ IsOfProvider(arc) <=> request[r].target.kind = "stored"
                  /\ arc[1] = gen => request[r].up[1] = gen]_vars

\* The routes of a file that claim a name.
Claims(file, name) ==
    {i \in DOMAIN file.routes :
        name \in {file.routes[i].model} \cup file.routes[i].aliases}

\* A request that is sent is held to limits that a route gives the name it asks
\* for, in the file it read them from, whatever has been reloaded since and
\* whichever protocol's group they stood on ("any protocol group carries the
\* same values", registry.rs:231): those of the route, if only one has the name.
\* It may have no limits that a route gives only if a reload came between: then
\* it was sent to a group that was not there when it looked.
HeldToItsLimits ==
    \A r \in Requests :
        LET q == request[r]
        IN  /\ q.pc = "sent" /\ q.target.kind # "stored" /\ ruled[r] # None
            /\ q.limits # None \/ q.limitsAt = q.up[1]
            => \E i \in Claims(ruled[r], q.target.name) :
                  q.limits = ruled[r].routes[i].limits

\* README.md:277: "Retrieve -- must specify the same provider that created the
\* object".  With no reload in between, a request that names the provider which
\* a POST has reached goes where that POST went.
StoredIsFoundAgain ==
    \A c, s \in Requests :
        /\ request[c].target # None /\ request[c].target.kind = "create"
        /\ request[c].outcome = "ok"
        /\ request[s].pc = "sent" /\ request[s].target.kind = "stored"
        /\ request[s].target.id = request[c].target.id
        /\ request[c].up[1] = request[s].up[1]
        => request[s].url = request[c].url
=============================================================================
