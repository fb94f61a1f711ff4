---------------------------- MODULE MC_Registry ----------------------------
EXTENDS Registry

Ref(provider, disabled) ==
    [provider |-> provider, region |-> "default", weight |-> None, disabled |-> disabled]
Flat(refs) == [upstreams |-> refs, primary |-> None, fallback |-> None]
Tiered(primary, capacity, fallback) ==
    [upstreams |-> << >>,
     primary |-> [upstreams |-> primary, capacity |-> capacity],
     fallback |-> [upstreams |-> fallback, capacity |-> None]]

Upstreams(key) ==
    [aliyun |-> [key |-> key,
                 regions |-> [default |-> [openai |-> "compatible", anthropic |-> "apps"]]],
     anthropic |-> [key |-> None, regions |-> [default |-> [anthropic |-> "api"]]]]

\* After examples/routes.example.yaml: aliyun serves one model as the fallback
\* of its anthropic section and another one under both protocols.
Claude(primaryDisabled) ==
    [model |-> "claude", aliases |-> {}, limits |-> 200,
     sections |-> [anthropic |-> Tiered(<<Ref("anthropic", primaryDisabled)>>, 1000,
                                        <<Ref("aliyun", FALSE)>>)]]
Qwen(aliases, sections) ==
    [model |-> "qwen", aliases |-> aliases, limits |-> 500, sections |-> sections]

Example ==
    [upstreams |-> Upstreams("key"),
     routes |-> <<Claude(FALSE), Qwen({"qwen-plus"}, [openai |-> Flat(<<Ref("aliyun", FALSE)>>),
                                                      anthropic |-> Flat(<<Ref("aliyun", FALSE)>>)])>>]
Rerank ==
    [model |-> "rerank", aliases |-> {}, limits |-> 50,
     sections |-> [native |-> Flat(<<[provider |-> "aliyun", url |-> "rerank",
                                      weight |-> 2, disabled |-> FALSE]>>)]]

\* One protocol is gone, a primary is out of rotation, the routes have changed
\* places, and two of them claim one name.
Edited ==
    [upstreams |-> Upstreams("key"),
     routes |-> <<Qwen({"qwen-plus", "claude"}, [anthropic |-> Flat(<<Ref("aliyun", FALSE)>>)]),
                 Claude(TRUE), Rerank>>]
\* The environment lacks the key, or nobody is left to serve a route.
Broken == [Example EXCEPT !.upstreams = Upstreams(Unset)]
Empty == [Example EXCEPT !.routes[1].sections.anthropic = Flat(<<Ref("aliyun", TRUE)>>)]

Row(model, protocol, fallback, provider, url) ==
    [model |-> model, protocol |-> protocol, fallback |-> fallback, weight |-> 0,
     provider |-> provider, url |-> url]
\* A protocol that is none makes a second group of the name and protocol.
Database ==
    [routes |-> {Row("qwen", "OpenAI", FALSE, "aliyun", "compatible"),
                 Row("qwen", "gemini", FALSE, "google", "beta"),
                 Row("claude", "anthropic", FALSE, "anthropic", "api"),
                 Row("claude", "anthropic", TRUE, "aliyun", "apps")},
     models |-> [qwen |-> [limits |-> -1, disabled |-> FALSE],
                 claude |-> [limits |-> None, disabled |-> FALSE]],
     aliases |-> {<<"qwen-plus", "qwen">>},
     capacity |-> (<<"claude", "anthropic">> :> 1000)]

FilesValue == {Example, Edited, Broken, Empty}
DatabasesValue == {Database}

Target(kind, name, protocol, id) ==
    [kind |-> kind, name |-> name, protocol |-> protocol, id |-> id]
Aliyun == <<"aliyun", "default">>
TargetsValue ==
    {Target("tiered", "claude", "anthropic", None),
     Target("tiered", "qwen-plus", "openai", None),
     Target("create", "qwen", "openai", Aliyun),
     Target("stored", None, None, Aliyun),
     Target("stored", None, None, <<"aliyun">>)}

Symmetry == Permutations(Requests)
=============================================================================
