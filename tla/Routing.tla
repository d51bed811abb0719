------------------------------ MODULE Routing ------------------------------
(***************************************************************************)
(* From (frontend, model) to upstream targets: the StaticRouter built at   *)
(* boot from the routes, the ModelIndex that upgrades a target's model to  *)
(* a name its upstream advertises, the catalogue built from both, and the  *)
(* second lookup of the route, `find_route_entry`, whose entry governs     *)
(* admission and which the pipeline does in the current snapshot; and the  *)
(* cost filter, which drops targets of the chain.                          *)
(*                                                                         *)
(* Names are sequences of tokens in lower case: `starts_with` and the      *)
(* lengths in the scores are taken token by token.                         *)
(***************************************************************************)
EXTENDS Configuration, SequencesExt, FiniteSetsExt

(* Routes of one frontend with one pattern, by position.                   *)
Matching(cfg, frontend, pattern) ==
    {i \in DOMAIN cfg.routes : /\ SpelledFrontend[cfg.routes[i].frontend] = frontend
                               /\ cfg.routes[i].model = pattern}

(* Inserting into a HashMap: the later entry replaces the earlier one.     *)
Latest(S) == IF S = {} THEN {} ELSE {cfg_i \in S : \A j \in S : j <= cfg_i}

ExactRoute(cfg, frontend, model) == Latest(Matching(cfg, frontend, Exact(model)))
WildcardRoute(cfg, frontend) == Latest(Matching(cfg, frontend, CatchAll))

(* The longest prefix that matches; of equal prefixes the later entry.     *)
PrefixRoute(cfg, frontend, model) ==
    LET hits == {n \in 1..Len(model) : Matching(cfg, frontend, PrefixOf(SubSeq(model, 1, n))) # {}}
    IN  IF hits = {} THEN {}
        ELSE Latest(Matching(cfg, frontend, PrefixOf(SubSeq(model, 1, Max(hits)))))

(* The targets an entry lists.                                             *)
Targets(route) ==
    IF route.upstreams # << >>
    THEN [i \in DOMAIN route.upstreams |->
             [provider |-> route.upstreams[i].name, model |-> route.upstreams[i].model]]
    ELSE <<[provider |-> CHOOSE u \in route.upstream : TRUE,
            model |-> CHOOSE m \in route.upstream_model : TRUE]>>

PassedOn(target, model) == IF target.model = Star THEN [target EXCEPT !.model = model] ELSE target

(* A prefix route passes the inbound name on only in its singular form; a  *)
(* catch-all keeps only the head of its chain.                             *)
PrefixChain(route, model) ==
    IF route.upstreams = << >> THEN <<PassedOn(Targets(route)[1], model)>> ELSE Targets(route)
WildcardChain(route, model) == <<PassedOn(Targets(route)[1], model)>>

(* StaticRouter::resolve_route: the position of the route and its chain,   *)
(* as an Option.                                                           *)
resolve_route(cfg, frontend, model) ==
    LET exact == ExactRoute(cfg, frontend, model)
        prefix == PrefixRoute(cfg, frontend, model)
        wildcard == WildcardRoute(cfg, frontend)
    IN  IF exact # {} THEN {[at |-> i, chain |-> Targets(cfg.routes[i])] : i \in exact}
        ELSE IF prefix # {} THEN {[at |-> i, chain |-> PrefixChain(cfg.routes[i], model)]
                                     : i \in prefix}
        ELSE {[at |-> i, chain |-> WildcardChain(cfg.routes[i], model)] : i \in wildcard}
-----------------------------------------------------------------------------
(* The weight 1/i of the i-th token, in sixtieths: exact up to 6 tokens.   *)
Weight(i) == 60 \div i
WeightOf(S) == FoldSet(LAMBDA i, sum : sum + Weight(i), 0, S)

(* score, as a fraction <<numerator, denominator>>.                        *)
score(requested, candidate) ==
    LET r == Len(requested)
        c == Len(candidate)
    IN  IF requested = candidate THEN <<1, 1>>
        ELSE IF IsPrefix(requested, candidate) THEN <<4 * c + r, 5 * c>>
        ELSE IF IsPrefix(candidate, requested) THEN <<4 * r + c, 5 * r>>
        ELSE <<WeightOf({i \in 1..r : \E j \in 1..c : candidate[j] = requested[i]}),
               WeightOf(1..Max({r, c}))>>

AtLeast(a, b) == a[1] * b[2] >= b[1] * a[2]
THRESHOLD == <<1, 2>>

(* ModelIndex::resolve: the best candidate at or over the threshold, the   *)
(* shorter one of equals (and then the first in name order).               *)
ModelIndex_resolve(discovered, provider, requested) ==
    IF provider \notin DOMAIN discovered THEN requested
    ELSE IF requested \in discovered[provider] THEN requested
    ELSE LET over == {m \in discovered[provider] : AtLeast(score(requested, m), THRESHOLD)}
             best == {m \in over : \A n \in over : AtLeast(score(requested, m), score(requested, n))}
             short == {m \in best : \A n \in best : Len(m) <= Len(n)}
         IN  IF over = {} THEN requested ELSE CHOOSE m \in short : TRUE

apply_fuzzy_upgrades(discovered, chain) ==
    [i \in DOMAIN chain |->
        [chain[i] EXCEPT !.model = ModelIndex_resolve(discovered, chain[i].provider, @)]]

(* ModelResolver::resolve_route.                                           *)
Resolve(cfg, discovered, frontend, model) ==
    {[route EXCEPT !.chain = apply_fuzzy_upgrades(discovered, @)]
        : route \in resolve_route(cfg, frontend, model)}
-----------------------------------------------------------------------------
(* find_route_entry: exact or catch-all, and the first entry that matches. *)
FirstOf(S) == {i \in S : \A j \in S : i <= j}

find_route_entry(cfg, frontend, model) ==
    LET specific == Matching(cfg, frontend, Exact(model))
    IN  IF specific # {} THEN FirstOf(specific) ELSE FirstOf(Matching(cfg, frontend, CatchAll))
-----------------------------------------------------------------------------
(* Mutant of list_routes: prefix patterns are listed under their literal.  *)
ListRoutesPrefixesToo(cfg) ==
    {<<SpelledFrontend[r.frontend], r.model.name>> : r \in {x \in RoutesOf(cfg) : x.model # CatchAll}}

(* Only the exact routes have a name to list.                              *)
list_routes(cfg) ==
    {<<SpelledFrontend[r.frontend], r.model.name>>
        : r \in {x \in RoutesOf(cfg) : x.model.kind = "exact"}}

(* list_catalog: one record per alias, with the frontends that serve it,   *)
(* and one without frontend per discovered model whose name is not taken.  *)
list_catalog(cfg, discovered) ==
    LET aliases == {a[2] : a \in list_routes(cfg)}
        found == UNION {discovered[p] : p \in DOMAIN discovered}
    IN  {[id |-> id, frontends |-> {f \in FrontendKind : <<f, id>> \in list_routes(cfg)}]
            : id \in aliases \cup found}
-----------------------------------------------------------------------------
(* Cost-aware routing (crates/router/src/cost_filter.rs): admission drops  *)
(* the targets of a chain that are below the route's tier, slower than     *)
(* their own budget or, by an estimate, dearer than the route's cap.       *)
(*                                                                         *)
(* The size of a request is a record: text, the tokens of the text blocks  *)
(* of its messages; images, their number; max_tokens, empty if the client  *)
(* gave none. Nothing else of a request is counted. Prices are per million *)
(* tokens and caps in millionths, so that nothing is divided.              *)

(* select_image_estimator: the canonical image has no dimensions, so each  *)
(* counts as the worst case of the vendor the inbound frontend speaks for. *)
ANTHROPIC_UNKNOWN_TOKENS == 1600
OPENAI_UNKNOWN_TOKENS == 1105
select_image_estimator ==
    [AnthropicMessages |-> ANTHROPIC_UNKNOWN_TOKENS, OpenAiChat |-> OPENAI_UNKNOWN_TOKENS,
     OpenAiResponses |-> OPENAI_UNKNOWN_TOKENS]

DEFAULT_MAX_OUTPUT_TOKENS == 4096
output_token_cap(size) ==
    IF size.max_tokens = {} THEN DEFAULT_MAX_OUTPUT_TOKENS ELSE CHOOSE n \in size.max_tokens : TRUE

(* Of the messages only text blocks and images are counted, and nothing of *)
(* the system prompt, the tools, their calls and their results.            *)
estimate_text_tokens(size) == size.text
estimate_image_tokens(size, frontend) == size.images * select_image_estimator[frontend]

(* Nothing for an upstream without prices.                                 *)
estimate_request_cost(size, cost, frontend) ==
    LET input == estimate_text_tokens(size) + estimate_image_tokens(size, frontend)
    IN  {input * c.input + output_token_cap(size) * c.output : c \in cost}

(* PrometheusLatencyProbe reads the histogram of upstream durations from   *)
(* the process's own metrics. record_upstream_call, the one function that  *)
(* writes it, has no caller: the scrape holds no bucket of any upstream,   *)
(* and the probe answers None.                                             *)
recent_p95_ms(upstream) == {}

(* Mutant of Survives: the tier of the route is a ceiling.                 *)
SurvivesBelowTier(cfg, route, t, size, frontend) ==
    t.provider \in DOMAIN cfg.upstreams =>
        \A min_tier \in route.min_tier : TierRank[cfg.upstreams[t.provider].tier] <= TierRank[min_tier]

(* Mutant of Survives: the estimate need only stay below twice the cap.    *)
SurvivesNearCap(cfg, route, t, size, frontend) ==
    t.provider \in DOMAIN cfg.upstreams =>
        LET upstream == cfg.upstreams[t.provider]
        IN  /\ \A min_tier \in route.min_tier : TierRank[upstream.tier] >= TierRank[min_tier]
            /\ \A cap \in route.max_cost_usd :
                 \A estimate \in estimate_request_cost(size, upstream.cost, frontend) :
                    estimate <= 2 * cap

(* A target whose upstream is not in the configuration is kept; one with   *)
(* no budget, no samples or no prices passes that axis.                    *)
Survives(cfg, route, t, size, frontend) ==
    t.provider \in DOMAIN cfg.upstreams =>
        LET upstream == cfg.upstreams[t.provider]
        IN  /\ \A min_tier \in route.min_tier : TierRank[upstream.tier] >= TierRank[min_tier]
            /\ \A budget \in upstream.p95_latency_budget_ms :
                 \A p95 \in recent_p95_ms(t.provider) : p95 <= budget
            /\ \A cap \in route.max_cost_usd :
                 \A estimate \in estimate_request_cost(size, upstream.cost, frontend) :
                    estimate <= cap

filter_chain(cfg, route, chain, size, frontend) ==
    Kept(chain, {i \in DOMAIN chain : Survives(cfg, route, chain[i], size, frontend)})
=============================================================================
