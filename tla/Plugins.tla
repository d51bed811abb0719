------------------------------ MODULE Plugins ------------------------------
(***************************************************************************)
(* The plugin registry (crates/plugins): how `PluginRegistry::build` turns *)
(* the plugin and route sections into per-route hook plans, which plan a   *)
(* request gets, and what one invocation of a plugin amounts to.           *)
(*                                                                         *)
(* A canonical request is [own, edits]: its protected fields (id,          *)
(* frontend, model, stream), one value for all four, and the plugins whose *)
(* changes it carries.                                                     *)
(***************************************************************************)
EXTENDS Routing

(* The built-in kinds and the hooks their plugins subscribe to: a scrubber *)
(* only to those it has rules for.                                         *)
Kinds == {"pii_scrubber", "prompt_compressor", "usage_recorder"}
ScrubberHooks(plugin) ==
    (IF plugin.inbound # << >> THEN {"on_decoded_request"} ELSE {})
    \cup (IF plugin.outbound # << >> THEN {"on_stream_event"} ELSE {})
SubscribedHooks(plugin) ==
    CASE plugin.kind = "pii_scrubber" -> ScrubberHooks(plugin)
      [] plugin.kind = "prompt_compressor" -> {"on_decoded_request"}
      [] plugin.kind = "usage_recorder" -> {"on_response_complete"}

(* The factories. Names of rules are unique in one direction.              *)
compile_rules(rules) ==
    /\ \A i \in DOMAIN rules : rules[i].named /\ rules[i].regex
    /\ \A i, j \in DOMAIN rules : rules[i].name = rules[j].name => i = j
compile_strategy(plugin, providers) == plugin.keep_last_n > 0 /\ plugin.summarizer \subseteq providers
Instantiates(plugin, providers) ==
    /\ plugin.parses
    /\ plugin.kind = "pii_scrubber" => compile_rules(plugin.inbound) /\ compile_rules(plugin.outbound)
    /\ plugin.kind = "prompt_compressor" => compile_strategy(plugin, providers)

(* PluginRegistry::build fails on any of these. Disabled plugins are       *)
(* instantiated and checked like the others.                               *)
RegistryBuildErrors(cfg, providers) ==
    LET known == {p \in DOMAIN cfg.plugins : cfg.plugins[p].kind \in Kinds}
    IN  Broken("UnknownKind", known # DOMAIN cfg.plugins)
        \cup Broken("Instantiation", \E p \in known : ~Instantiates(cfg.plugins[p], providers))
        \cup Broken("UnknownFrontend", \E r \in RoutesOf(cfg) : r.frontend \notin VALID_FRONTENDS)
        \cup Broken("UndeclaredPluginReference", \E r \in RoutesOf(cfg) :
                        ~(iter_references(r) \subseteq DOMAIN cfg.plugins))
        \cup Broken("HookSubscriptionMismatch", \E r \in RoutesOf(cfg), h \in Hooks :
                        \E i \in DOMAIN r.plugins[h] :
                            /\ r.plugins[h][i] \in known
                            /\ h \notin SubscribedHooks(cfg.plugins[r.plugins[h][i]]))

(* The plan of one route: disabled plugins are left out. A route without a *)
(* plugins block gets no plan.                                             *)
PlanOf(cfg, i) ==
    [h \in Hooks |->
        LET listed == cfg.routes[i].plugins[h]
        IN  Kept(listed, {k \in DOMAIN listed : cfg.plugins[listed[k]].enabled})]

HasBlock(cfg, S) == {i \in S : cfg.routes[i].plugins # NoHooks}

(* lookup: the plan under the exact name, or else the catch-all's. Plans   *)
(* of prefix routes are filed under the pattern, which no request asks for,*)
(* and an exact route without plugins falls through to the catch-all's.    *)
lookup(cfg, frontend, model) ==
    LET specific == Latest(HasBlock(cfg, Matching(cfg, frontend, Exact(model))))
    IN  IF specific # {} THEN specific
        ELSE Latest(HasBlock(cfg, Matching(cfg, frontend, CatchAll)))

Plan(cfg, frontend, model) ==
    LET found == lookup(cfg, frontend, model)
    IN  IF found = {} THEN NoHooks ELSE PlanOf(cfg, CHOOSE i \in found : TRUE)
-----------------------------------------------------------------------------
(* How a plugin's future can end: with a value, with an error of its own,  *)
(* or not in time.                                                         *)
Endings == {"value", "failed", "timeout", "aborted"}

(* Mutant of InvokeOutcome: a plugin that is late is skipped.              *)
InvokeOutcomeTimeoutSkips(ending, on_error) ==
    IF ending = "value" THEN "success"
    ELSE IF ending = "aborted" \/ (on_error = "fail" /\ ending # "timeout") THEN "propagate"
    ELSE "skipped"

(* invoke: an abort always propagates, any other error is skipped or       *)
(* propagated as the plugin's on_error says.                               *)
InvokeOutcome(ending, on_error) ==
    IF ending = "value" THEN "success"
    ELSE IF ending = "aborted" \/ on_error = "fail" THEN "propagate"
    ELSE "skipped"

(* Mutant of Walked: the protected fields are not compared.                *)
WalkedUnchecked(before, after, ending, on_error) ==
    IF InvokeOutcome(ending, on_error) = "success" THEN [outcome |-> "success", req |-> after]
    ELSE [outcome |-> InvokeOutcome(ending, on_error), req |-> before]

(* One plugin of walk_request_hook: `after` is what it made of its own     *)
(* copy of the request when it ended; check_protected_fields turns a       *)
(* forbidden change into a failure.                                        *)
Walked(before, after, ending, on_error) ==
    LET verdict == IF ending = "value" /\ after.own # before.own THEN "failed" ELSE ending
        outcome == InvokeOutcome(verdict, on_error)
    IN  [outcome |-> outcome, req |-> IF outcome = "success" THEN after ELSE before]

(* What can become of a plugin's copy of the request.                      *)
Copies(req, plugin) ==
    {req, [req EXCEPT !.edits = @ \cup {plugin}], [req EXCEPT !.own = "altered"]}
=============================================================================
