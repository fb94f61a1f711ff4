----------------------------- MODULE FileConfig -----------------------------
(***************************************************************************)
(* What routes.yaml means (server/src/file_config.rs): the upstream groups *)
(* that a load of the file yields, one for each protocol section of each   *)
(* route, or a failure, which leaves the gateway as it is.                 *)
(*                                                                         *)
(* A file that parses is [upstreams, routes].  A provider is [key,         *)
(* regions], a region a function from the protocols it serves to base      *)
(* URLs.  A route is [model, aliases, limits, sections], its sections a    *)
(* function from protocols to [upstreams, primary, fallback] or, for       *)
(* native routes, [upstreams].  Names and URLs are values: that            *)
(* "provider.region" joins two of them is the pair here.                   *)
(***************************************************************************)
EXTENDS Naturals, Sequences, SequencesExt

CONSTANTS Unset,   \* a string that names an environment variable without value
          None,    \* an optional field that is not there
          Failed   \* Err(_)

\* The order in which the sections of a route are built.
Protocols == <<"openai", "anthropic", "native">>

\* expand_env() fails on a variable that is not set.
Expands(string) == string # Unset

\* resolve_endpoints() and resolve_providers(): every provider and region has
\* to make sense, whether a route uses it or not.
Resolves(file) ==
    \A p \in DOMAIN file.upstreams :
        /\ Expands(file.upstreams[p].key)
        /\ \A region \in DOMAIN file.upstreams[p].regions :
               LET urls == file.upstreams[p].regions[region]
               IN  /\ DOMAIN urls # {}
                   /\ \A protocol \in DOMAIN urls : Expands(urls[protocol])

\* The references of a section with their tiers.  Once there is a primary or a
\* fallback, the flat list does not count.
TieredRefs(section) ==
    LET refs(tier) == IF tier = None THEN << >> ELSE tier.upstreams
        tagged(seq, p) == [i \in DOMAIN seq |-> [ref |-> seq[i], priority |-> p]]
    IN  IF section.primary # None \/ section.fallback # None
        THEN tagged(refs(section.primary), 0) \o tagged(refs(section.fallback), 1)
        ELSE tagged(section.upstreams, 0)

\* RoutingStrategyConfig::validate(), after the default.
Weight(ref) == IF ref.weight = None THEN 1 ELSE ref.weight

\* lookup_endpoints(), or the provider of a native route and its URL.
Found(file, protocol, ref) ==
    /\ ref.provider \in DOMAIN file.upstreams
    /\ IF protocol = "native"
       THEN Expands(ref.url)
       ELSE LET regions == file.upstreams[ref.provider].regions
            IN  ref.region \in DOMAIN regions /\ protocol \in DOMAIN regions[ref.region]

\* make_binding(): the node's credential name, URL and protocol, and its share.
Binding(file, protocol, tagged) ==
    LET ref == tagged.ref
    IN  [id |-> IF protocol = "native" THEN <<ref.provider>>
                ELSE <<ref.provider, ref.region>>,
         url |-> IF protocol = "native" THEN ref.url
                 ELSE file.upstreams[ref.provider].regions[ref.region][protocol],
         weight |-> Weight(ref),
         priority |-> tagged.priority]

\* add_tier_bindings() over the tiers: disabled references are not looked at,
\* and one that is wrong fails the load.
SectionBindings(file, protocol, section) ==
    LET active == SelectSeq(TieredRefs(section), LAMBDA t : ~t.ref.disabled)
    IN  IF \A i \in DOMAIN active :
              Found(file, protocol, active[i].ref) /\ Weight(active[i].ref) > 0
        THEN [i \in DOMAIN active |-> Binding(file, protocol, active[i])]
        ELSE Failed

\* UpstreamGroup::new(), with_rate_limits() and with_primary_capacity().
Group(file, route, protocol) ==
    LET section == route.sections[protocol]
    IN  [model |-> route.model,
         aliases |-> route.aliases,
         protocol |-> protocol,
         bindings |-> SectionBindings(file, protocol, section),
         limits |-> route.limits,
         capacity |-> IF section.primary = None THEN None ELSE section.primary.capacity]

\* Mutant: the sections after the first carry no limits.
SectionGroupsUnlimited(file, route, protocol) ==
    IF /\ protocol \in DOMAIN route.sections
       /\ SectionBindings(file, protocol, route.sections[protocol]) # << >>
    THEN <<[Group(file, route, protocol)
               EXCEPT !.limits = IF protocol = Protocols[1] THEN @ ELSE None]>>
    ELSE << >>

\* The group of a section, if there is one: without active upstreams it has none.
SectionGroups(file, route, protocol) ==
    IF /\ protocol \in DOMAIN route.sections
       /\ SectionBindings(file, protocol, route.sections[protocol]) # << >>
    THEN <<Group(file, route, protocol)>>
    ELSE << >>

\* One iteration of build_groups(): a route without any group fails the load.
RouteGroups(file, route) ==
    LET built == FlattenSeq([i \in DOMAIN Protocols |->
                                SectionGroups(file, route, Protocols[i])])
    IN  IF built = << >> \/ \E i \in DOMAIN built : built[i].bindings = Failed
        THEN Failed
        ELSE built

\* FileConfigSource::load() of a file that can be read and parsed.
Groups(file) ==
    LET perRoute == [i \in DOMAIN file.routes |-> RouteGroups(file, file.routes[i])]
    IN  IF Resolves(file) /\ \A i \in DOMAIN perRoute : perRoute[i] # Failed
        THEN FlattenSeq(perRoute)
        ELSE Failed
=============================================================================
