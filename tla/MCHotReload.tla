---------------------------- MODULE MCHotReload ----------------------------
(* A boot configuration with one route, a reload that removes the route,   *)
(* one with a broken plugin section, one that adds an upstream, one that   *)
(* moves the port, one that moves the endpoint, one that is invalid and    *)
(* one that does not parse; a file can also be unreadable.                 *)
EXTENDS HotReload

CONSTANTS a1, r1

MCModels == {"m"}
MCBoot == [parses |-> TRUE, listen |-> "p", otel |-> "e", upstreams |-> {"u"}, valid |-> TRUE,
           plugins |-> TRUE, routes |-> {"m"}]
MCLess == [MCBoot EXCEPT !.routes = {}]
MCConfig == {MCBoot, MCLess, [MCLess EXCEPT !.plugins = FALSE],
             [MCLess EXCEPT !.upstreams = {"u", "w"}], [MCLess EXCEPT !.listen = "q"],
             [MCLess EXCEPT !.otel = "f"], [MCLess EXCEPT !.valid = FALSE],
             [MCLess EXCEPT !.parses = FALSE]}
=============================================================================
