--------------------------- MODULE Configuration ---------------------------
(***************************************************************************)
(* The gateway's configuration (crates/config): its schema and the rules   *)
(* `validate` applies before anything is built from it.  `Problems` is the *)
(* set of rules a configuration breaks; the program reports the first one  *)
(* it meets and starts only when there is none.                            *)
(*                                                                         *)
(* An Option is a set with at most one member.  A model pattern is an      *)
(* exact name, a prefix (`claude-*`), the catch-all (`*`) or malformed (a  *)
(* star elsewhere); a name is the sequence of its tokens.  Ratios are      *)
(* percentages.                                                            *)
(***************************************************************************)
EXTENDS Integers, Sequences, FiniteSets

Option(S) == {{}} \cup {{x} : x \in S}

(* The members of a sequence at the given positions, in their order.       *)
Kept(s, positions) ==
    LET kept[i \in 0..Len(s)] ==
            IF i = 0 THEN << >>
            ELSE IF i \in positions THEN Append(kept[i - 1], s[i]) ELSE kept[i - 1]
    IN  kept[Len(s)]

FrontendKind == {"AnthropicMessages", "OpenAiChat", "OpenAiResponses"}

(* The spellings of a frontend that routes may use.                        *)
SpelledFrontend ==
    [anthropic_messages |-> "AnthropicMessages", anthropic |-> "AnthropicMessages",
     openai_chat |-> "OpenAiChat", openai |-> "OpenAiChat",
     openai_responses |-> "OpenAiResponses", responses |-> "OpenAiResponses"]
VALID_FRONTENDS == DOMAIN SpelledFrontend

Exact(name) == [kind |-> "exact", name |-> name]
PrefixOf(name) == [kind |-> "prefix", name |-> name]
CatchAll == [kind |-> "any", name |-> << >>]
Malformed == [kind |-> "malformed", name |-> << >>]

(* upstream_model: "*", the inbound name is passed on.                     *)
Star == <<"*">>

Efforts == {"minimal", "low", "medium", "high", "xhigh", "max"}
TierRank == [economy |-> 1, standard |-> 2, premium |-> 3]

Hooks == {"on_decoded_request", "on_resolved", "on_stream_event", "on_response_complete"}
NoHooks == [h \in Hooks |-> << >>]
-----------------------------------------------------------------------------
(* The schema's defaults, which the YAML overrides field by field.         *)
DefaultServer == [bind |-> "local", port |-> 8787]
DefaultAdmin == [bind |-> "local", port |-> 9100]

DefaultUpstream(kind) ==
    [kind |-> kind, api_key |-> TRUE, base_url |-> "https", request_timeout_secs |-> 30,
     anthropic_version |-> TRUE, headers_valid |-> TRUE, tier |-> "standard", cost |-> {},
     p95_latency_budget_ms |-> {}]

DefaultRetry ==
    [max_attempts |-> 2, initial_backoff_ms |-> 100, multiplier |-> 200, jitter_pct |-> 25,
     total_budget_ms |-> 5000]
DefaultBreaker == [failure_threshold_pct |-> 50, min_requests |-> 20]

Singular(frontend, model, upstream, upstream_model) ==
    [frontend |-> frontend, model |-> model, upstream |-> {upstream},
     upstream_model |-> {upstream_model}, upstreams |-> << >>, retry |-> DefaultRetry,
     breaker |-> DefaultBreaker, reasoning_mapping |-> {}, min_tier |-> {},
     max_cost_usd |-> {}, plugins |-> NoHooks]

Chained(frontend, model, upstreams) ==
    [Singular(frontend, model, "none", Star) EXCEPT !.upstream = {}, !.upstream_model = {},
                                                    !.upstreams = upstreams]

DefaultAuth == [enabled |-> FALSE, required |-> FALSE, keys |-> {}]
DefaultRateLimit ==
    [enabled |-> FALSE, per_route |-> {}, per_upstream |-> {}, per_key |-> {}, overrides |-> {},
     per_ip |-> {}]

(* plugins: one entry. timeout_ms holds the values given for its slots;    *)
(* parses, whether its own section fits the schema of its kind. The rest   *)
(* is that section: rules of a scrubber ([name, regex], whether they are   *)
(* valid), turns kept by a compressor and the upstream it summarizes with. *)
PluginRule(name) == [name |-> name, named |-> TRUE, regex |-> TRUE]
DefaultPlugin(kind) ==
    [kind |-> kind, on_error |-> "skip", timeout_ms |-> {}, enabled |-> TRUE, parses |-> TRUE,
     inbound |-> <<PluginRule("email")>>, outbound |-> <<PluginRule("email")>>,
     keep_last_n |-> 1, summarizer |-> {}]

DefaultConfig ==
    [server |-> DefaultServer, admin |-> {}, sample_ratio |-> {}, plugin_flush_secs |-> 5,
     upstreams |-> << >>, routes |-> << >>, plugins |-> << >>, auth |-> DefaultAuth,
     rate_limit |-> DefaultRateLimit, strict_upstream_models |-> FALSE]

(* What the schema's types alone promise of a file that could be parsed,   *)
(* valid or not: the lists are lists, a pattern is one of the four kinds,  *)
(* and every hook has its list of plugins.                                 *)
Schema(cfg) ==
    /\ cfg.routes \in Seq({cfg.routes[i] : i \in DOMAIN cfg.routes})
    /\ \A i \in DOMAIN cfg.routes :
          LET r == cfg.routes[i]
          IN  /\ r.model \in [kind : {"exact", "prefix", "any", "malformed"}, name : Seq(STRING)]
              /\ r.upstreams \in Seq([name : STRING, model : Seq(STRING)])
              /\ r.plugins \in [Hooks -> Seq(STRING)]
-----------------------------------------------------------------------------
Broken(problem, cond) == IF cond THEN {problem} ELSE {}

RoutesOf(cfg) == {cfg.routes[i] : i \in DOMAIN cfg.routes}

(* The upstreams a route names: the array form wins over the singular one. *)
Referenced(route) ==
    IF route.upstreams # << >> THEN {route.upstreams[i].name : i \in DOMAIN route.upstreams}
    ELSE route.upstream

(* "copilot" also stands for whatever Copilot upstream is configured.      *)
Copilots(cfg) == {u \in DOMAIN cfg.upstreams : cfg.upstreams[u].kind = "GithubCopilot"}
upstream_is_configured(cfg, name) ==
    name \in DOMAIN cfg.upstreams \/ (name = "copilot" /\ Copilots(cfg) # {})

ListenerProblems(cfg) ==
    Broken("ZeroPort", cfg.server.port = 0 \/ \E a \in cfg.admin : a.port = 0)
    \cup Broken("PortCollision", cfg.server \in cfg.admin)
    \cup Broken("SampleRatio", \E r \in cfg.sample_ratio : r \notin 0..100)
    \cup Broken("FlushSecs", cfg.plugin_flush_secs > 300)

(* Duplicates are told by their spelling: two spellings of one frontend    *)
(* are two routes here.                                                    *)
RouteTableProblems(cfg) ==
    Broken("UnknownFrontend", \E r \in RoutesOf(cfg) : r.frontend \notin VALID_FRONTENDS)
    \cup Broken("UnknownUpstream", \E r \in RoutesOf(cfg) : \E u \in Referenced(r) :
                                       ~upstream_is_configured(cfg, u))
    \cup Broken("DuplicateAlias", \E i, j \in DOMAIN cfg.routes :
                    /\ i # j
                    /\ cfg.routes[i].frontend = cfg.routes[j].frontend
                    /\ cfg.routes[i].model = cfg.routes[j].model)

validate_oai_style_upstream(u) ==
    u.api_key /\ u.base_url \in {"http", "https"} /\ u.request_timeout_secs > 0

(* Only these kinds are checked: an openai_compatible upstream is not.     *)
UpstreamProblems(cfg) ==
    Broken("InvalidUpstream", \E n \in DOMAIN cfg.upstreams :
        LET u == cfg.upstreams[n]
        IN  /\ u.kind \in {"Anthropic", "Deepseek", "Gemini", "Glm"}
            /\ ~(validate_oai_style_upstream(u) /\ (u.kind = "Anthropic" => u.anthropic_version)))

(* Mutant of ShapeProblems: half of the singular form is enough.           *)
ShapeProblemsHalfEnough(route) ==
    LET singular == route.upstream # {} \/ route.upstream_model # {}
        array == route.upstreams # << >>
    IN  Broken("BothForms", singular /\ array) \cup Broken("NoUpstream", ~singular /\ ~array)

(* A route names its upstreams in exactly one of two forms.                *)
ShapeProblems(route) ==
    LET singular == route.upstream # {} \/ route.upstream_model # {}
        array == route.upstreams # << >>
    IN  Broken("BothForms", singular /\ array)
        \cup Broken("NoUpstream", ~singular /\ ~array)
        \cup Broken("HalfSingular", singular /\ ~array
                                    /\ (route.upstream = {} \/ route.upstream_model = {}))

PolicyProblems(route) ==
    LET retry == route.retry
        b == route.breaker
    IN  Broken("Retry", \/ retry.max_attempts = 0
                        \/ retry.total_budget_ms < retry.initial_backoff_ms
                        \/ retry.multiplier <= 100
                        \/ retry.jitter_pct \notin 0..100)
        \cup Broken("Breaker", b.failure_threshold_pct \notin 1..100 \/ b.min_requests = 0)
        \cup Broken("Mapping", ~(route.reasoning_mapping \subseteq Efforts))
        \cup Broken("Pattern", route.model.kind = "malformed")

validate_routes(cfg) == UNION {ShapeProblems(r) \cup PolicyProblems(r) : r \in RoutesOf(cfg)}

(* A hash that starts with sha256: and has 64 hex digits, of either case.  *)
check_sha256_key(key) == key.hash \in {"lower", "upper"}

Unusable(bucket) == bucket.rate = 0 \/ bucket.burst = 0

(* Nothing is checked while rate limiting is off.                          *)
validate_rate_limit(cfg) ==
    LET rl == cfg.rate_limit
        buckets == {l.bucket : l \in rl.per_route \cup rl.per_upstream \cup rl.overrides}
                   \cup rl.per_key \cup rl.per_ip
    IN  IF ~rl.enabled THEN {}
        ELSE Broken("LimitedRoute", \E l \in rl.per_route :
                        ~\E r \in RoutesOf(cfg) : l.route = <<r.frontend, r.model>>)
             \cup Broken("LimitedUpstream", \E l \in rl.per_upstream :
                             l.upstream \notin DOMAIN cfg.upstreams)
             \cup Broken("LimitedKey", \E l \in rl.overrides : ~check_sha256_key(l.key))
             \cup Broken("Bucket", \E b \in buckets : Unusable(b))

validate_auth(cfg) ==
    Broken("AuthRequired", cfg.auth.required /\ ~cfg.auth.enabled)
    \cup Broken("AuthKey", \E k \in cfg.auth.keys : ~check_sha256_key(k))

CostProblems(cfg) ==
    Broken("NegativeCost", \E n \in DOMAIN cfg.upstreams : \E c \in cfg.upstreams[n].cost :
                               c.input < 0 \/ c.output < 0)

(* The tier of the upstream a reference stands for: of the first Copilot   *)
(* upstream for "copilot".                                                 *)
TiersOf(cfg, name) ==
    {cfg.upstreams[u].tier : u \in IF name \in DOMAIN cfg.upstreams THEN {name}
                                   ELSE IF name = "copilot" /\ Copilots(cfg) # {}
                                        THEN {CHOOSE u \in Copilots(cfg) : TRUE} ELSE {}}

TierProblems(cfg) ==
    Broken("ImpossibleMinTier", \E r \in RoutesOf(cfg) : \E t \in r.min_tier :
        LET tiers == UNION {TiersOf(cfg, u) : u \in Referenced(r)}
        IN  tiers # {} /\ \A have \in tiers : TierRank[have] < TierRank[t])

(* The plugins a route names, on any hook.                                 *)
iter_references(route) ==
    UNION {{route.plugins[h][i] : i \in DOMAIN route.plugins[h]} : h \in Hooks}

validate_plugins(cfg) ==
    Broken("ZeroTimeoutMs", \E p \in DOMAIN cfg.plugins : 0 \in cfg.plugins[p].timeout_ms)
    \cup Broken("UndeclaredPlugin", \E r \in RoutesOf(cfg) :
                    ~(iter_references(r) \subseteq DOMAIN cfg.plugins))

Problems(cfg) ==
    UNION {ListenerProblems(cfg), RouteTableProblems(cfg), UpstreamProblems(cfg),
           validate_routes(cfg), validate_rate_limit(cfg), validate_auth(cfg), CostProblems(cfg),
           TierProblems(cfg), validate_plugins(cfg)}

(* validate_with_index, once the models are discovered: a literal upstream *)
(* model must be one of its upstream's, compared letter for letter.        *)
Pairs(route) ==
    IF route.upstreams # << >>
    THEN {<<u.name, u.model>> : u \in {route.upstreams[i] : i \in DOMAIN route.upstreams}}
    ELSE route.upstream \X route.upstream_model

validate_with_index(cfg, discovered) ==
    Broken("UnknownUpstreamModel",
        /\ cfg.strict_upstream_models
        /\ \E r \in RoutesOf(cfg) : \E pair \in Pairs(r) :
              /\ pair[2] # Star
              /\ ~(pair[1] \in DOMAIN discovered /\ pair[2] \in discovered[pair[1]]))
=============================================================================
