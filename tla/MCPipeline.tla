----------------------------- MODULE MCPipeline -----------------------------
(***************************************************************************)
(* Pipeline on small configurations: a sound one and its neighbours, each  *)
(* with one section changed. Two upstreams ("ant" speaks Anthropic, "oai"  *)
(* chat) and a Copilot one; models of one to three tokens.                 *)
(***************************************************************************)
EXTENDS Pipeline

Claude == <<"claude">>
Opus == <<"claude", "opus">>
Gpt == <<"gpt">>

Upstreams == [ant |-> DefaultUpstream("Anthropic"), oai |-> DefaultUpstream("OpenAiCompatible"),
              gh |-> DefaultUpstream("GithubCopilot")]

(* Plugins of every kind, and the hooks a route gives them.                *)
PluginSection ==
    [scrub |-> [DefaultPlugin("pii_scrubber") EXCEPT !.on_error = "fail"],
     lax |-> DefaultPlugin("pii_scrubber"),
     record |-> DefaultPlugin("usage_recorder")]
Hooked(route) ==
    [route EXCEPT !.plugins = [on_decoded_request |-> <<"lax", "scrub">>, on_resolved |-> << >>,
                               on_stream_event |-> <<"scrub", "lax">>,
                               on_response_complete |-> <<"record">>]]

ClaudeRoute == Singular("anthropic", Exact(Claude), "ant", Opus)
ChainRoute == Chained("openai_chat", Exact(Gpt),
                      <<[name |-> "oai", model |-> Gpt], [name |-> "ant", model |-> Opus]>>)
CopilotRoute == Singular("responses", Exact(Gpt), "copilot", Gpt)
AnyRoute == Singular("anthropic_messages", CatchAll, "oai", Star)

Base == [DefaultConfig EXCEPT !.upstreams = Upstreams, !.plugins = PluginSection,
            !.routes = <<ClaudeRoute, ChainRoute, CopilotRoute, Hooked(AnyRoute)>>]

Key(name, hash) == [hash |-> hash, of |-> name]
Bucket(rate) == [rate |-> rate, burst |-> 1]
WithRoutes(routes) == [Base EXCEPT !.routes = routes]
WithRoute(route) == WithRoutes(<<route>>)

Sound ==
    {Base,
     [Base EXCEPT !.auth = [enabled |-> TRUE, required |-> TRUE,
                            keys |-> {Key("alice", "lower"), Key("bob", "upper")}]],
     [Base EXCEPT !.strict_upstream_models = TRUE],
     [WithRoute(ChainRoute) EXCEPT !.upstreams.ant = DefaultUpstream("Deepseek"),
                                   !.upstreams.oai = DefaultUpstream("Glm")],
     WithRoutes(<<Hooked(ChainRoute), Hooked([CopilotRoute EXCEPT !.model = CatchAll])>>),
     WithRoutes(<<Hooked(ClaudeRoute), [ClaudeRoute EXCEPT !.frontend = "anthropic_messages"]>>),
     [WithRoute(Hooked(ClaudeRoute)) EXCEPT !.plugins.scrub.enabled = FALSE],
     [WithRoutes(<<Singular("responses", Exact(Gpt), "gh", Gpt),
                   Singular("anthropic", Exact(Claude), "gem", <<"gemini">>),
                   Chained("openai_chat", Exact(Gpt), <<[name |-> "glm", model |-> Gpt],
                                                        [name |-> "ds", model |-> Gpt]>>)>>)
         EXCEPT !.upstreams = [gh |-> DefaultUpstream("GithubCopilot"),
                               gem |-> DefaultUpstream("Gemini"),
                               glm |-> [DefaultUpstream("Glm") EXCEPT !.headers_valid = FALSE],
                               ds |-> DefaultUpstream("Deepseek")],
                !.strict_upstream_models = TRUE]}

(* Tiers, prices, a budget and caps: the cap of the Anthropic route is     *)
(* just enough for 4 tokens of text and 10 of output.                      *)
CostAware ==
    [WithRoutes(<<[ChainRoute EXCEPT !.min_tier = {"standard"}],
                  [ClaudeRoute EXCEPT !.max_cost_usd = {54}],
                  Hooked([AnyRoute EXCEPT !.max_cost_usd = {54}])>>)
        EXCEPT !.upstreams.ant.cost = {[input |-> 1, output |-> 5]},
               !.upstreams.ant.p95_latency_budget_ms = {100},
               !.upstreams.oai.cost = {[input |-> 1, output |-> 5]},
               !.upstreams.oai.tier = "economy"]

(* Tables in which the router and find_route_entry mean different entries, *)
(* of which only one has a floor: a prefix route beside a catch-all, and   *)
(* two spellings of one frontend.                                          *)
BothUpstreams == <<[name |-> "oai", model |-> Gpt], [name |-> "ant", model |-> Opus]>>
Floored(route) == [route EXCEPT !.min_tier = {"standard"}]
TwoMinds ==
    {[WithRoutes(routes) EXCEPT !.upstreams.oai.tier = "economy"] : routes \in
        {<<Floored(Chained("anthropic", PrefixOf(Claude), BothUpstreams)),
           Singular("anthropic_messages", CatchAll, "ant", Star)>>,
         <<Singular("anthropic", Exact(Claude), "oai", Star),
           Floored(Chained("anthropic_messages", Exact(Claude), BothUpstreams))>>}}

(* A prefix route, next to which there is no catch-all.                    *)
Prefixed == {WithRoute(Singular("anthropic", PrefixOf(Claude), "ant", Star))}

BadPolicies ==
    {[ClaudeRoute EXCEPT !.retry.max_attempts = 0], [ClaudeRoute EXCEPT !.retry.total_budget_ms = 99],
     [ClaudeRoute EXCEPT !.retry.multiplier = 100], [ClaudeRoute EXCEPT !.retry.jitter_pct = 101],
     [ClaudeRoute EXCEPT !.breaker.failure_threshold_pct = 0],
     [ClaudeRoute EXCEPT !.breaker.min_requests = 0],
     [ClaudeRoute EXCEPT !.reasoning_mapping = {"extreme"}], [ClaudeRoute EXCEPT !.model = Malformed],
     [ClaudeRoute EXCEPT !.min_tier = {"premium"}]}
BadShapes ==
    {[ClaudeRoute EXCEPT !.upstream = {}], [ClaudeRoute EXCEPT !.upstream_model = {}],
     [ChainRoute EXCEPT !.upstreams = << >>], [ChainRoute EXCEPT !.upstream = {"ant"}],
     [ClaudeRoute EXCEPT !.frontend = "claude"], [ClaudeRoute EXCEPT !.upstream = {"aunt"}],
     [ClaudeRoute EXCEPT !.plugins.on_resolved = <<"unknown">>],
     [ClaudeRoute EXCEPT !.plugins.on_resolved = <<"scrub">>]}

Limits(limits) == [Base EXCEPT !.rate_limit = limits]
LimitsOn == [DefaultRateLimit EXCEPT !.enabled = TRUE]
BadLimits ==
    {[LimitsOn EXCEPT !.per_route = {[route |-> <<"openai", Exact(Gpt)>>, bucket |-> Bucket(1)]}],
     [LimitsOn EXCEPT !.per_upstream = {[upstream |-> "copilot", bucket |-> Bucket(1)]}],
     [LimitsOn EXCEPT !.overrides = {[key |-> Key("bob", "short"), bucket |-> Bucket(1)]}],
     [LimitsOn EXCEPT !.per_ip = {Bucket(0)}]}

BadSections ==
    {[Base EXCEPT !.server.port = 0], [Base EXCEPT !.admin = {DefaultServer}],
     [Base EXCEPT !.sample_ratio = {101}], [Base EXCEPT !.plugin_flush_secs = 301],
     [Base EXCEPT !.upstreams.ant.request_timeout_secs = 0],
     [Base EXCEPT !.upstreams.oai.cost = {[input |-> -1, output |-> 0]}],
     [Base EXCEPT !.auth.required = TRUE], [Base EXCEPT !.auth.keys = {Key("bob", "short")}],
     [Base EXCEPT !.plugins.lax.timeout_ms = {0}], [Base EXCEPT !.plugins.lax.kind = "unknown"],
     [Base EXCEPT !.plugins.lax.parses = FALSE], [Base EXCEPT !.plugins.lax.inbound = << >>],
     [Base EXCEPT !.plugins.scrub.outbound = @ \o @],
     [WithRoute(ClaudeRoute) EXCEPT !.plugins = [short |-> [DefaultPlugin("prompt_compressor")
                                                     EXCEPT !.keep_last_n = 0]]],
     WithRoutes(<<ClaudeRoute, ClaudeRoute>>)}

(* The mistakes, one each; rate limits that are off are not looked at.     *)
Unsound == {WithRoute(r) : r \in BadPolicies \cup BadShapes} \cup BadSections
           \cup {Limits(l) : l \in BadLimits}
           \cup {Limits([l EXCEPT !.enabled = FALSE]) : l \in BadLimits}

MCConfigs == Sound \cup Prefixed \cup TwoMinds \cup Unsound \cup {CostAware}
PrefixConfigs == Prefixed

Asked(frontend, model, key, body, stream) ==
    [frontend |-> frontend, model |-> model, key |-> key, body |-> body, stream |-> stream,
     size |-> [text |-> 4, images |-> 0, max_tokens |-> {10}]]
MCInbound ==
    {Asked("AnthropicMessages", Claude, "alice", "good", TRUE),
     Asked("AnthropicMessages", Claude, "bob", "good", FALSE),
     [Asked("AnthropicMessages", Claude, "bob", "good", FALSE) EXCEPT !.size.text = 5],
     [Asked("AnthropicMessages", Opus, "bob", "good", TRUE) EXCEPT !.size.max_tokens = {}],
     Asked("AnthropicMessages", Opus, "none", "good", TRUE),
     Asked("AnthropicMessages", Opus, "mallory", "good", FALSE),
     Asked("AnthropicMessages", Claude, "alice", "undecodable", TRUE),
     Asked("AnthropicMessages", Claude, "alice", "modelless", TRUE),
     Asked("OpenAiChat", Gpt, "alice", "good", TRUE),
     [Asked("OpenAiChat", Gpt, "alice", "good", TRUE) EXCEPT !.size.images = 1],
     Asked("OpenAiChat", Gpt, "none", "undecodable", FALSE),
     Asked("OpenAiResponses", Gpt, "alice", "good", FALSE)}

Listed(names) == [what |-> "listing", names |-> names]
Heard(what) == [what |-> what, names |-> {}]
MCCatalogues ==
    {<< >>,
     [ant |-> Listed({Opus, <<"claude", "opus", "latest">>}), oai |-> Listed({<<"gpt", "mini">>}),
      gh |-> Heard("shapeless")],
     [ant |-> Heard("refused"), oai |-> Heard("unreadable"), gh |-> Listed({Gpt}),
      gem |-> Listed({<<"models/", "gemini">>, <<"gemini", "tuned">>})],
     [ant |-> Heard("shapeless"), oai |-> Listed({}), gh |-> Heard("tokenless")]}
=============================================================================
