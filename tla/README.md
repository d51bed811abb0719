# AgentShim: TLA+ models, checks and proofs

AgentShim is an HTTP gateway between agent clients (Anthropic Messages, OpenAI
Chat, OpenAI Responses) and LLM upstreams (Anthropic, OpenAI-compatible, Gemini,
DeepSeek, GLM, GitHub Copilot). It decodes a request into a canonical form, runs
plugins over it, resolves a chain of upstreams, passes admission (rate limits,
cost filter, capabilities, circuit breakers), calls the upstreams with retries
and fallback, and streams the answer back in the client's protocol. Paths in
this file are relative to the repository root; `crates/router/src/` is
abbreviated to `router/`, `crates/gateway/src/` to `gateway/`,
`crates/plugins/src/` to `plugins/`.

The modules fall into two groups. The first is about actors that share state:
the breakers, admission and the chain walk, the retry loop, hot reload,
shutdown, and the Copilot token. The second follows one request and its answer
through the translation: decoders and request builders, plugins and routing from
the configuration file on, upstream parsers and client encoders, and the three
places where the program works on bytes (the Gemini scanner, the PII scrubber,
the model rewrite of a passed-through body).

Contents:
1. [Inventory](#1-inventory)
2. [Modules and their correspondence to the code](#2-modules-and-their-correspondence-to-the-code)
3. [Runs: what is checked, within which bounds](#3-runs)
4. [Fairness](#4-fairness)
5. [Proofs](#5-proofs)
6. [Disagreements between code and documentation](#6-disagreements-between-code-and-documentation)
7. [What is not modelled](#7-what-is-not-modelled)
8. [Plan](#8-plan)

## 1. Inventory

### Components, their state and operations

| Component | Source | State | Operations |
|---|---|---|---|
| Circuit breaker | `router/circuit_breaker.rs` | per (provider, model): sample deque, `open_since`, `probe_in_flight` | `try_hold`, `consume`, drop of a hold, `record`, `decision` |
| Admission | `router/admission.rs` | `AdmissionTicket` (filtered chain, one hold per element) | `admit`, `consume`, drop |
| Rate limiter | `router/rate_limit.rs` | token buckets per key, key and model, address, route, upstream | `check_pre_chain`, `check_per_upstream` |
| Cost filter | `router/cost_filter.rs`, `cost_estimate.rs`, `latency_probe.rs` | none (the latency histogram is never written) | `filter_chain`, `estimate_request_cost` |
| Resilient caller | `router/resilient_caller.rs`, `retry.rs`, `fallback.rs` | position in the chain, attempts, elapsed backoff | `complete`, `retry_with_policy`, first event of the stream |
| Pipeline | `gateway/pipeline.rs`, `gateway/handlers/mod.rs` | the request's snapshot, ticket and guards | `dispatch`, passthrough, unary and streaming answers |
| Route resolution | `router/resolver.rs`, `static_routes.rs`, `model_index.rs` | table built at boot, model catalogue | `resolve` |
| Hot reload | `gateway/commands/serve.rs`, `gateway/admin/reload_handler.rs`, `gateway/state.rs`, `crates/config/src/validation.rs` | `ArcSwap` snapshot, `ArcSwap` limiter, bounded channel | SIGHUP, `POST /admin/reload`, `handle_reload` |
| Plugins | `plugins/registry.rs`, `plugins/invoke.rs` | registry per snapshot, supervisor with pending count and `JoinSet` | seven hooks, `spawn_h7`, `flush_pending_h7` |
| Shutdown | `gateway/server.rs`, `gateway/shutdown.rs`, `run_core` | listeners, graceful drain | signal, drain, flush, exit |
| Copilot token manager | `crates/providers/src/github_copilot/` | actor with a cached token, bounded channel | `get`, `invalidate`, exchange |
| Stream contract | `crates/protocol-tests/src/lifecycle.rs`, `crates/core/src/stream.rs` | open blocks, open tools, ended | one event at a time |
| Upstream parsers | `crates/providers/src/{oai_chat_wire,anthropic,gemini,deepseek,openai_compatible}` | SSE buffers, block indices, usage so far | feed, finish |
| Client encoders | `crates/frontends/src/*/encode_stream.rs`, `encode_unary.rs`, `gateway/handlers/mod.rs` | block and output indices, sums of usage, buffers | one event at a time, `collect_stream` |
| Decoders and request builders | `crates/frontends/src/*/decode.rs`, `crates/providers/src/**/request.rs`, `encode_request.rs` | none: the history comes with every request | `decode_request`, `build` |
| Built-in plugins | `plugins/builtin/` | text held back per stream | H2, H5, H7 |
| Configuration and boot | `crates/config/src/`, `gateway/state.rs` | none | `validate`, `validate_with_index`, `validate_plugins`, `AppState::build` |
| Authentication | `gateway/pipeline.rs` | hashes of the configured keys | `check_auth` |
| Observability, command line, device login, token counting | see PROJECT.json | none or output only | |

### Interactions

* A request captures the policy snapshot once, and *loads the limiter again* at
  admission; its routes come from a table built at boot. A reload replaces
  snapshot and limiter with two separate stores.
* Admission takes one breaker hold for every element of the chain before the
  first upstream call. The ticket with these holds travels through passthrough,
  the chain walk and into the response stream; wherever it is consumed or
  dropped, every hold reports to its breaker. A dropped hold is a failure.
* The retry loop runs under one hold and one rate-limit token.
* The end of a response spawns H7 tasks on the supervisor of the snapshot the
  request captured; shutdown flushes the supervisor captured at boot.
* The Copilot provider's calls talk to the token actor over one channel, Gets and
  invalidations alike.

* The gateway keeps nothing of a conversation: the client sends the whole history
  every turn, in its own dialect, with ids that were made up by an upstream of
  another dialect or by the gateway.
* A response is pulled: body, encoder, plugins, parser, upstream, in this order.
  Each has a queue of its own, and each can be dropped at any poll.
* Validation, the router's constructor, its lookup and the pipeline's second
  lookup of the route read the same section of the configuration, each by its
  own rules.

### What is hard here, and the properties that answer it

The list of hazards with their lines is in `PROJECT.json`. In groups:

| Hazard | Property |
|---|---|
| a late record of another call clears the half-open flag; a hold is forgotten on some path out of the pipeline and the breaker is wedged | `ProbeHasOwner`, `ProbeHasTicket` |
| front eviction with several window lengths and a young clock | `RecordsKeepWindow` |
| two ways to an upstream (walk, passthrough), retries that bypass the bucket, cancellation at any await | `CallsBounded`, `EveryRequestAnswered` |
| off-by-one and overflow in the retry loop; four tables of errors that must agree | `AttemptsCounted`, `SleepsWithinBudget`, `OnlyEligibleRetried`, `Terminates` |
| two commit points of a reload; validation against a moving baseline; three views of the configuration in one request | `NoPartialCommit`, `FixedFieldsKept`, `LimitsRecent` |
| a full reload channel, coalesced signals | `PostAnswered`, `HangupReadsFile` |
| tasks that end during the flush, panic, or never end; two listeners | `CountExact`, `BootTasksReported`, `ExitsAfterDrain` |
| an invalidation racing other callers' Gets and exchanges | `RefreshedAfter401`, `GetAnswered` |
| fragments in any order, three numberings of blocks, cumulative and incremental usage, finish reasons translated twice, an upstream that vanishes | `LifecycleKept`, `ClientKept`, `DrainTail`, `UsageExact`, `ReasonKept`, `UnaryComplete`, `BodyEnds` |
| histories rebuilt in another dialect every turn | `ContentKept`, `ToolResultsKept`, `ToolPairing`, `OptionsHonoured` |
| plugins that time out or fail after an edit; raw bytes that predate the edits; answers that end in a destructor | `CallNeedsGates`, `EditsHonoured`, `FailPluginsSeeAll`, `H7Once`, `RefusedUncalled` |
| four readings of one routing table | `AcceptedConfigServes`, `RouteEntryFound` |
| bytes cut anywhere: in strings, escapes, characters, matches | `ScannerExact`, `ScrubExact`, `MatchesCaught`, `RewriteExact` |
| history cut by a token budget or replaced by a summary | `TurnsKept` |

## 2. Modules and their correspondence to the code

`PROJECT.json` maps every definition to its lines. Mutants (the variants of an
action or helper that a plausible bug would give) stand before the definition
they change and are marked as such; no action uses them.

**BreakerState** holds the data part of one breaker, as operators on a record
(`samples`, `openSince`, `probe`): `Record` is `BreakerState::record` and
`Decision`/`AfterDecision` are `decision` with its compare-exchange. Time is a
natural number, percentages use integer division as in the code. Both state
machines below use these operators, so what is proved of them holds in both.

**CircuitBreaker** is one breaker shared by concurrent callers, each with the
policy of its own route (the registry shares a breaker between routes). One
action per operation: `TryHold`, `Consume`, `Abandon` (the destructor), `Tick`.
A step is one critical section of the breaker's mutex.

**Resilience** composes the components a request passes between resolution and
the first byte. Per request a record with a program counter: `CheckGate` (one
bucket of `check_pre_chain`), `FilterChain`, `CheckUpstreamQuota`,
`CheckCapability`, `TryHold`, `Admit` are `admit` in its order; `ProxyRaw` and
`ProxyAnswer` are the passthrough branch of `dispatch_inner`; `WalkSkip`,
`WalkCall`, `RetryCall`, `CallAnswer`, `WalkExhausted`, `FirstEvent` are the
resilient caller; `Cancel` drops the handler's future at an await; `SettleHold`
is `AdmissionTicket::consume` or its destructor, one hold (one lock) at a time.
Abstractions: the cost filter keeps an arbitrary set of providers (Routing has
its rules); upstream
answers are nondeterministic; the buckets each request is charged to are a
constant; governor's cells are token counters that refill with the clock.
Requests and targets are assumed to be finite sets (`FiniteAssumption`): the
calls of an upstream are a sum over them.

**Retry** is `retry_with_policy` with its counters as words of `WordSize`
values, `compute_backoff` as the set of values jitter can produce, rounded and
saturated, and the three error matches of `fallback.rs` (`error_tag`,
`error_class_label`, `EligibleByDefault`). In Resilience the same loop is
reduced to "up to `MaxAttempts` calls".

**HotReload**: the SIGHUP task (`ListenHup`, `SendHup`), the handler (`Post`,
`SendPost`, `Leave`), the applying task (`Receive`, `ReadSource`, `Apply`,
`StoreLimiter`, `Reply`) and requests (`Begin`, `Resolve`, `AdmitRequest`) that
read what it stores. A configuration is a record of the facts that reload
distinguishes. `Verdict` is `validate_for_reload` in its order: listeners are
compared with the boot configuration kept in `AppCore`, the otel endpoint and
the upstream names with the snapshot in force. `inForce` and `unread` are
history variables. A server started without `--config` is the initial state
`file = NoPath`.

**Shutdown**: connections, the H7 task of each response on the supervisor of
its version, reloads that install a new supervisor, and `run_core`'s sequence
drain, `FlushTake`, `FlushReport`, `Exit`. `spawn_h7`'s two locks are two steps
(`CountH7`, `SpawnH7`). With an admin listener the drain ends when either
listener has drained, as `select!` has it.

**CopilotToken**: callers (`Start`, `SendGet`, `ApiAnswer`, `SendInvalidate`,
`Cancel`), the actor (`RecvInvalidate`, `RecvCached`, `RecvStale`, `ExchangeOk`,
`ExchangeFails`) and the world (time, revocation, lost entitlement). Tokens are
numbered in the order they are issued. `rejected` is a history variable.

### The answer's way back

**StreamEvents** has the canonical events (`crates/core/src/stream.rs`), the
frames of the three client dialects and the arithmetic of usage. A text is one
fragment; an event keeps what tells it apart (kind, index, stop reason, usage).

**StreamLifecycle** is the abstract specification of a canonical stream: the
validator of `crates/protocol-tests/src/lifecycle.rs` as a state machine, one
event a step, an open set of blocks and tools. **ClientStream** is the abstract
specification of what a client relies on: items are announced before their
fragments, once, closed once, and nothing follows the finish.

**ChatParsers** (the chat wire, and DeepSeek with its reasoning) and **EventParsers**
(Anthropic, Responses and Gemini) are the parsers: a state record, a
function of state and piece to state and events for each kind of piece, and the
drain tail where there is one.
**StreamEncoders** is the same for the three client encoders. **UnaryResponse** is
the way of an answer that is not streamed: `parse_unary` of each provider,
`collect_stream`, `encode_unary`.

**Streaming** puts them together. Upstream steps are `Arrive` (a piece that its
API allows next; any finish reason of its API, and one the program does not know, may end
a response, tool calls or not), `Fail` (a transport error, garbage, an error it reports), `Eof`
(at any point) and `Answer` (a unary body). The gateway's are `Pull` (one event
through the encoder), `Write` (one frame) and `End`. `life` and `view` record what
was pulled and written, and are the variables of the two abstract
specifications: `LifecycleKept` and `ClientKept` say that Streaming implements
them, for every provider and dialect. GLM and Copilot's chat endpoint use
parsers of ChatParsers.

### The request's way

**CanonicalRequest** has the messages, blocks and efforts of
`crates/core/src/`, with `ParseEffort`, `ResolveEffort`, `ResolveBeta` and the clamping.
**RequestDecoders** are the three `decode.rs`, **RequestBuilders** the providers' request
builders. What a request asks for besides the conversation takes the same way: the word
for the effort, the tool choice and the tools are written in the client's dialect, decoded
(`Asks`; no decoder reads a token budget), merged with the route's policy and written in
the upstream's words.
**Conversation** is a client that talks for some turns: `Say`, `Instruct`,
`SayNonsense` (a message of an unknown role),
`Answer` (tool results), `Submit`; then `DecodeRequest` and `BuildRequest`; then
the model's `Reply` and its `Deliver`y in the client's dialect, from which the
next history is made. Contents are numbers, so that loss, repetition and
reordering show. `transcript` is the history variable the others are compared
with. Copilot picks its API by `decide_use_responses_api`.

**Configuration** is the schema's facts that validation looks at, and `validate`,
`validate_with_index` and `validate_plugins` as the set of problems they report.
`Schema` is what the types of `schema.rs` promise of any file that parses, accepted
or not, and the only thing the proofs assume of a configuration.
**Routing** is `static_routes.rs`, `model_index.rs` (scores as fractions) and
`find_route_entry`, `list_catalog` of the pipeline. **Plugins** is the registry's
`build`, plans and `InvokeOutcome`, **Providers** the constructors, discovery and
passthrough matching. Routing also has `filter_chain` with its three axes and the
estimate behind the cap: a request has a size (text, images, output asked for), prices and caps are integers. The latency probe answers nothing, because
nothing records what it reads (section 6). **Pipeline** composes these: `Boot` or `Refuse` a
configuration, then `dispatch` in its order, from `Arrive` to an answer, with the
hooks walked plugin by plugin and event by event (`WalkHook`, `WalkEvent`),
`UpstreamError`, and `ClientLeaves` at every await. `Admit` has the cost filter and
the capability check; buckets, breakers and the caller are their answers here, and
Resilience has them in detail.

**JsonText** is the scanner of `gemini/stream.rs` and the model rewrite of
`anthropic/passthrough.rs`, byte by byte; **PiiScrubber** the scrubber's
stream state (`SplitAt`, flush, rules) over an alphabet with a
two-byte character; **PromptCompressor** the three strategies over grouped
messages. **TextPath**
composes them: a prompt compressed, a body passed through, and an answer that
arrives in chunks through scanner, Gemini events and scrubber to the client.

The `MC` modules give the constants values; `*_proofs` modules hold the theorems, and
**StreamAccounts** the definitions of Streaming's inductive invariant.

## 3. Runs

Ten runs pass. Each checks one instance.

| Run | Shows | Bounds and why they suffice |
|---|---|---|
| `breaker` | `ProbeHasOwner`, `RecordsKeepWindow` | three callers (one before the trip, one probe, one on a route with another window and the breaker disabled), clock to 5 (trip, cooldown 2, reopening), four samples |
| `requests` | `ProbeHasTicket`, `CallsBounded`, `EveryRequestAnswered` | two requests with chains of two and three elements sharing two breakers, one-token buckets so that the second finds them empty, an image, an unbuilt provider, one passthrough request, two attempts, clock to 2: enough to trip a breaker and reach its half-open probe |
| `retry` | `AttemptsCounted`, `SleepsWithinBudget`, `OnlyEligibleRetried`, `Terminates` | seven policies (limits hit by attempts or by budget, full and no jitter, overlays, zero budget), statuses on both sides of 429 and 500 |
| `reload` | `NoPartialCommit`, `FixedFieldsKept`, `LimitsRecent`, `PostAnswered`, `HangupReadsFile` | one configuration per verdict, and a file that cannot be read or is not there; a channel of one slot contended by a handler and two signals, hence chains of three reloads around one request; the second signal comes before, while and after the listener sends for the first, so that signals coalesce and wait, with edits of the file in between |
| `shutdown` | `CountExact`, `BootTasksReported`, `ExitsAfterDrain` | three responses: before a reload, after it, and one that ends during the flush; with and without an admin listener |
| `copilot_token` | `RefreshedAfter401`, `GetAnswered` | two callers with two calls each, a channel of one slot, tokens that expire after a tick or are revoked |
| `streaming` | `LifecycleKept`, `ClientKept`, `DrainTail`, `UsageExact`, `ReasonKept`, `UnaryComplete`, `BodyEnds` | five upstream dialects, three client dialects, streamed and unary; block indices to 2 (text, then two calls), two token counts so that a sum differs from a last value, every finish reason after text and after calls, one fault per stream |
| `conversation` | `ContentKept`, `ToolResultsKept`, `ToolPairing`, `OptionsHonoured` | two requests, so that an answer of the first is history of the second; batches of two messages or results, hence parallel calls answered together or apart; ten sets of options, of which each dialect can write six to eight: efforts above, between and below what is advertised, unknown words, mapping and default of the route, the effort beta of the client, of the route and overruled, every tool choice |
| `pipeline` | `CallNeedsGates`, `EditsHonoured`, `FailPluginsSeeAll`, `AcceptedConfigServes`, `RefusedUncalled`, `H7Once` | 52 configurations, a sound one and neighbours with one section changed, two tables in which the router and `find_route_entry` mean different entries, and one with tiers, prices and a cap that one request meets exactly and others miss by a token, by a default or by an edit; one request on each frontend with and without key and image; two plugins per hook, so that one fails before and one after the other's edit; two events |
| `text_path` | `TurnsKept`, `ScannerExact`, `RewriteExact`, `ScrubExact` | every cut into chunks of up to three bytes and every early end of answers of two or three parts; a scrubber window of four bytes of which two are kept, so that three deltas overflow it; conversations of up to three turns with tool calls |

`RecordsKeepWindow` and `H7Once` are action properties; `LifecycleKept` and
`ClientKept` are refinements; `EveryRequestAnswered`, `Terminates`, `PostAnswered`,
`HangupReadsFile`, `ExitsAfterDrain`, `GetAnswered` and `BodyEnds` are liveness.
Deadlock is checked except in `breaker`, where the bound on the clock and the
samples ends the traffic; the other modules say explicitly (`Quiescent`,
`Exited`) in which states nothing is left to do. Bounds that the program does not
have are constants with a comment: `MaxClock`, `MaxSamples`, `MaxHangups`,
`MaxReloads`, `MaxStarts`, `MaxIndex`, `MaxTokens`, `MaxSaid`, `MaxBatch`,
`MaxTurns`, `MaxEvents`, `MaxChunk`.

Three restrictions of the instances leave out what the code is known not to keep
(section 6): `TextAfterTools = FALSE` (a chat upstream that goes on with text after
a tool call), `EchoIds = FALSE` (a Responses client that sends the ids of output
items back), and the pair of an Anthropic client with a Copilot model that has
only the Responses API.

Some properties say less than their names, on purpose:

* `UsageExact` is about counts that a client is told. A Chat client over a Chat or DeepSeek
  upstream is told none in a stream: its encoder leaves usage deltas to the final event
  (`openai_chat/encode_stream.rs:202`), and those parsers' final event carries no usage. It is
  silent on answers that are not streamed.
* `ReasonKept` is about Chat and Anthropic clients of upstreams that give a reason. The
  Responses API has a status instead, and its parser always says `EndTurn`.
* `ToolPairing` asks that a result follows its call. The comment at
  `canonical_to_chat.rs:150-158` says that it must follow immediately; the parallel calls of a
  Responses client are assistant messages of their own there, with the results behind the
  last of them, so that is not asserted.
* `ScrubExact` is checked on the Gemini route, whose usage comes with the end. On a route
  where usage arrives inside a block (DeepSeek) the scrubber flushes what it holds on that
  event, which has no index, under index 0 (`plugins/builtin/pii_scrubber.rs:329`); no run
  covers that.
* `OptionsHonoured` leaves out Gemini's tool choice (it has none on the wire, section 6).

Two runs find a violation of a statement in the repository: `route_entry` and
`scrub_leak`; see section 6.

## 4. Fairness

* *Resilience*: weak fairness of each request's step. The runtime polls a
  handler that can proceed, and an upstream that says nothing is cut off by the
  HTTP client's `connect_timeout` and `read_timeout`
  (`crates/providers/src/http_client.rs`), which makes `CallAnswer` or
  `FirstEvent` happen.
* *Retry*: weak fairness of the loop: the sleep ends, the call returns (as above).
* *HotReload*: weak fairness of the signal task and the applying task; strong
  fairness of a send, because tokio queues the senders of a full channel in
  order, so a send that is possible again and again is made. Nothing is assumed
  of operators and clients.
* *Shutdown*: weak fairness of `run_core`'s own steps, among them the flush's
  timer. Nothing is assumed of plugins, clients and upstreams: a task that
  never ends is the case the deadline is for. The drain has no deadline in the
  code, so `ExitsAfterDrain` starts where it ends.
* *CopilotToken*: weak fairness of the actor (its exchange is bounded by the
  client's timeouts), strong fairness of the sends.
* *Streaming*: weak fairness of `Pull`, `Write` and `End`: the server polls the body
  while the client reads it. Nothing is assumed of the upstream; `BodyEnds` starts
  where its source ends, which the read timeout brings about.

## 5. Proofs

All theorems are about `Spec` (no fairness) and hold for every value of the
constants that satisfies the modules' assumptions.

* **CircuitBreaker_proofs**. Inductive invariant
  `TypeOK /\ SamplesOrdered /\ ProbeHasOwner`. The lemmas about BreakerState's
  operators say what `Evict` drops when the deque is ordered, that `Record` keeps the
  order, and that it leaves `probe` clear unless the breaker was closed.
  `NeverWedged`: a set probe flag always has a holder who owes the record, for
  any number of callers and any policies. `WindowsKept`: front eviction is
  exact. `SamplesOrdered` is what the second needs: without the order the loop
  that only looks at the front could stop early.
* **Retry_proofs**. `Accounts` ties the machine word `elapsed` to the true sum of
  the sleeps and the attempt counter to the number of errors. `BudgetKept` and
  `TypeCorrect` have the hypothesis `NoOverflow`, which validation does not guarantee; it is necessary
  (section 6). `AttemptsExact` and `RetriesEligible` do not: how often the upstream is called
  and which errors are slept after is independent of the sums, and the first has an
  invariant of its own (`Counted`) that holds for counters that wrap as well.
* **HotReload_proofs**. `NoPartialCommit` is not inductive: a commit refers to the
  version that was in force when the request was taken up. `BaseInForce` (only
  the applying task installs, so that version is still in force), `Versions`
  (what is referred to exists) and `Ended` (a request with an outcome is done)
  make it so. `RestartFieldsKept` says that chains of reloads cannot drift,
  although endpoint and upstreams are compared with the snapshot being replaced.
  `LimitsFollow` bounds the mixture of snapshot and limiter in one request.
* **CopilotToken_proofs**. The key is `Covered`: while a token that a caller has
  reported is cached, an invalidation is in the channel *ahead of* the Get that
  caller waits for. It needs `Numbered` (Gets left behind by cancelled calls
  carry older call numbers) and the `Known` facts (reported tokens were issued,
  so a new token is not among them). `NeverReused` follows: a Get answered from
  the cache is at the head, and nothing is ahead of the head.

* **Resilience_proofs**. `NoBreakerWedged` carries
  `NeverWedged` over to the whole pipeline: many breakers, one ticket per request
  with a hold for every element. The invariant (`IInv`) adds that no hold exists before
  the loop that takes them, and that this loop is at the element after the last
  hold (`TicketOK`); every other action keeps the holds (`Moves`), so only
  `TryHold` and `SettleHold` need an argument of their own.

  `CallsWithinQuota` bounds the calls an upstream gets. `CallsBounded` relates a sum
  over all requests to a bucket that other requests drain, and retries and fallbacks
  never look at that bucket, so its invariant (`CInv`) has two halves. `CallsOK`
  bounds the calls of one request to one target by its position: nothing before
  passthrough, one raw call of the head, `max_attempts` for each element the walk has
  left behind, `attempt` for the one it is at. `Ledger` says that the elements which
  requests have paid for (`PaidFor`), with the tokens still in the bucket, are within
  burst plus refill: the quota loop moves one token from the bucket into the ledger, a
  refusal takes elements out of it, and no other action enters one. A call is made
  only for an element in the ledger, because the whole chain is paid for before the
  first call. `CallsCounted` adds the first half up over requests and targets and
  meets the second.
* **Pipeline_proofs**. For every set of configurations that parse (`Schema`), requests
  and catalogues. The invariant `Inv` follows `dispatch`: the shape of the request's
  record, what holds at each `pc`, which entry the two lookups found (`Looked`), which
  edits the canonical request carries and whether the raw bytes still stand for it
  (`Edited`), and which plugins an event has passed (`Streamed`).
  `OnlyFinishedEditsSent`, `RefusedBeforeCalled`, `FailPluginsSeeEveryEvent` and
  `H7RunsOnce` follow from the order of the steps, for plugin lists of any length.
  `AcceptedServes` is about data: validation, the router's table, the catalogue and
  `find_route_entry` read the same list by four rules, and for every accepted list an
  alias that the catalogue shows is found by both lookups. `CallsGated` is
  `CallNeedsGates` without any hypothesis on the table. That the entry whose tier and
  cap were applied is the route that was taken holds for *plain* tables only (`Plain`:
  no prefix patterns, and no two spellings of one frontend for the same pattern), as
  `PlainTableEntry` and the `route_entry` run show from both sides; the property
  says so instead of claiming the route's own tier.
* **Shutdown_proofs**. `CountExact` needs to know on which supervisor a task sits
  (`Placed`), `BootTasksReported` also that a task which is counted and not yet
  spawned still has its connection (`Connected`), and that a drain without an
  admin listener leaves nothing open (`Phased`). The set of responses is assumed
  finite.

* **Streaming_proofs**, with the invariant in **StreamAccounts**. For every `MaxIndex`
  and `MaxTokens`, every frontend and every provider but DeepSeek (`Proved`).
  An *account* is what a reader of a canonical stream has to remember: the envelope
  events seen, the stage of every block (a tool block is raw until it has its name,
  named, halted, closed), the stop reason, the tokens its usage deltas add up to.
  `Book` adds an event to an account; `Regular` says which event may come next, and is
  stronger than the validator's rules (a block index is never used again, a message
  stops with all blocks closed, its reason has the sense of the upstream's, the usage at
  the end is the upstream's). `StreamInv` says that there are accounts `g` (of the events
  pulled) and `h` (of the events parsed) such that

  * the queue leads from `g` to `h` by regular events (`Leads`);
  * the parser agrees with `h` and with what the upstream has said (`ChatBack`,
    `AnthropicBack`, `GeminiBack`, `ResponsesBack`: its flags are the envelope, the
    blocks it would close are the open ones, the indices it would give out are unused);
  * the encoder agrees with `g` and with the view the client will have once the frames
    in flight are written (`FrontHolds`, `Plays`: frames that fit the dialect, one
    after the other);
  * the validator's state is the one `g` stands for (`Of`).

  It is needed in this form because no conjunct of the checked properties is inductive:
  whether an event is legal when it is pulled was decided when it was parsed, a queue
  of any length earlier. From it, `LifecycleImplemented` and `ClientImplemented`
  are the two refinements, step by step; `TailDrained`, `UsageTold` and `ReasonTold`
  are invariants that follow from it. The lemmas go operation by operation: each
  handler of a parser takes a regular queue to a regular queue, each event kind of an
  encoder is written as frames that fit, and `AnswerLeads` does the same for a unary
  body. The hypothesis `TextAfterTools = FALSE` is the run's: with it a chat upstream
  makes the parser open index 0 again (section 6). The invariant speaks of some
  accounts, so TLC checks what follows from it, the five properties, and not the
  formula itself.

`TypeOK` of CircuitBreaker, Retry, HotReload, CopilotToken and Shutdown is proved
and not part of a run: the proofs need it, and it is weaker than what the runs check.

The library's induction theorems take the property as an operator, which the
installed provers do not instantiate. Where an argument runs along a list or over a
finite set, the proofs take the property as a *set*: `UpTo` (positions of a list),
`Shrinking` (subsets of a finite set), each proved from the well-foundedness of the
naturals with a least counterexample. `SumExists` shows in the same way that the recursive function behind
`CallsTo` exists. The filters of lists that the proofs look into (`Kept` in
Configuration, `InOrder` in Resilience, `Keep` in UnaryResponse) are written over sets of positions for this
reason, not with `SelectSeq`; so are `Insert`, `Without`, `Join` and `Ascending` of StreamEvents,
which stand for a map's insertion, removal and sorted keys. What a fold computes is proved
for the lengths that occur (an upstream's chunk has at most one choice and two calls, a
Gemini response two parts).

Only model-checked: every liveness property (the prover does not reach fairness and
`ENABLED`); the streams of DeepSeek and GLM, and `UnaryComplete` of Streaming; the invariants of Conversation, which compare whole
histories rebuilt by folds; those of TextPath, which reaches a recursive operator
through JsonText.

## 6. Disagreements between code and documentation

Checked by a run that expects the violation:

| Run | Property | Code | Statement |
|---|---|---|---|
| `route_entry` | `RouteEntryFound` | a request that a prefix route resolves gets no entry, or the catch-all's, from `find_route_entry` (`gateway/pipeline.rs:1164`): 404, or the tier, cap and policies of another route | `docs/configuration.md:139-143` |
| `scrub_leak` | `MatchesCaught` | `flush_safe_prefix` scrubs the prefix it removes, so a match across the split is sent (`plugins/builtin/pii_scrubber.rs:169`) | the comment at `:167` |

Seen in the models' behaviours, without a run of their own.

Breakers, admission, retries:

* A late record clears `probe_in_flight` under a live probe, and the next cooldown
  authorizes a second one (`router/circuit_breaker.rs:191` against `:118` and
  `docs/resilience.md:172`).
* A success recorded late, by a call admitted before the trip, closes an open
  breaker during its cooldown (`router/circuit_breaker.rs:178` against `:9-10`).
* Passthrough calls the head of the chain whatever its hold
  (`gateway/pipeline.rs:754` against `docs/resilience.md:183-184`).
* Holds of elements never reached are dropped as failures, so upstreams nobody
  called trip (`router/admission.rs:78` against `docs/resilience.md:179`).
* Holds for the whole chain are taken at admission; an element whose breaker
  opens afterwards is still called (`router/admission.rs:243` against
  `docs/resilience.md:219-221`).
* Per-upstream tokens are charged for elements whose breaker is open
  (`router/admission.rs:223` against `docs/resilience.md:236-237`), and twice for
  a chain with two models of one upstream (against `router/rate_limit.rs:54-56`).
  Retries are not charged at all (`router/retry.rs:127` against
  `docs/resilience.md:238-239`); `CallsBounded` states what the bucket still bounds.
* `total_elapsed_ms + backoff_ms` can wrap when a validated policy's backoff
  saturates, and the saturated backoff is then slept (`router/retry.rs:150`
  against `:81-87`). This is the hypothesis `NoOverflow` of the proofs.

Reload, shutdown, Copilot token:

* Routes are not reloaded: the resolver's table is the boot one
  (`gateway/pipeline.rs:539` against `docs/observability.md:357`).
* A request that captured its snapshot before a reload is admitted by the new
  limiter (`router/admission.rs:166` against `gateway/pipeline.rs:481-483`).
  `LimitsRecent` states the bound that holds.
* `gateway/state.rs:406-407` says that a stuck applier makes reloads be rejected;
  the senders wait in `send().await`. `strict_upstream_models` is not checked again.
* With an admin listener `select!` ends with the first listener, and the flush
  starts with responses in flight (`gateway/server.rs:90` against
  `gateway/commands/serve.rs:182-183`).
* After a reload the H7 tasks of the new registry are neither awaited nor
  reported (`gateway/commands/serve.rs:186` against
  `docs/adr/0008-plugin-system.md:156-159`). `BootTasksReported` is about the boot
  registry for this reason.
* A 401 of the Copilot API is returned without a second try
  (`github_copilot/mod.rs:321` against `docs/providers/github-copilot.md:93-96`), and
  the late invalidation of an old token drops the refreshed one
  (`github_copilot/token_manager.rs:97` against `docs/providers/github-copilot.md:59-60`).

Pipeline, plugins, configuration:

* Errors of a unary answer's stream become `ProviderError::Upstream` with status
  200, and the client gets HTTP 200 (`gateway/handlers/mod.rs:562` against
  `docs/architecture.md:327-329`). An upstream's own status is passed on, which
  is why `RefusedUncalled` is about the gateway's own answers.
* A plugin that fails an event ends in an error event, after which the stream goes
  on (`plugins/registry.rs:603` against `docs/adr/0008-plugin-system.md:139-150`).
* `decode_or_dump` turns "unsupported" (422) into "invalid body" (400) when the dump
  succeeds; decoding and the dump come before authentication.
* Passthrough runs neither H5 nor H7; a unary request that is cancelled or fails
  runs no H7; H7 always reports success.
* Per-route rate limits are validated against the pattern as spelled and looked up
  by the route's label: limits of aliases, prefixes and `*` never apply. Keys
  given as sha256 in upper case are accepted and never match.
* `docs/configuration.md:175` says that duplicates are not flagged; they are
  (`crates/config/src/validation.rs:250`), unless the frontend is spelled by an alias.
* Of two routes with the same pattern for two spellings of one frontend the router
  takes the last (its map is overwritten) and `find_route_entry` the first: the request
  goes to the upstreams of one under the tier and cap of the other. `CallNeedsGates`
  is about the entry's tier and cap for this reason.
* An exact route without plugins inherits the catch-all's; plugins of a prefix route
  never run; a catch-all with an `upstreams` array keeps only its head; a route to
  "copilot" is accepted although the provider is registered under its own name.

* No upstream is ever skipped for being slow: `record_upstream_call`
  (`observability/metrics/recorders.rs:114`) has no caller, so the latency probe
  (`gateway/latency_probe.rs:53`) never finds a sample (against
  `docs/configuration.md:399` and `docs/observability.md:439`).
* The cost estimate counts text and image blocks of the messages
  (`router/cost_estimate.rs:119`); the system prompt, tool definitions, calls and
  results are free, so a request above the cap can be sent (against "upper-bound" at
  `router/cost_estimate.rs:3` and `docs/adr/0006-cost-aware-routing.md:66`).
  `CallNeedsGates` is about what the estimate counts for this reason.
* The quantile of the latency probe would mix the series of an upstream: the
  histogram is labelled by model and status as well, and `compute_p95_from_scrape`
  (`gateway/latency_probe.rs:54`) sorts the buckets of all of them into one list and
  takes the last one's count for the total. Nothing reaches it while nothing records.
* `docs/configuration.md:426` gives `max_cost_usd` as a number of at least 0; validation
  does not look at it.

Translation:

* The tool results of an Anthropic client are lost over the Responses API
  (`responses_api/encode_request.rs:33` takes them from tool messages only).
* The Responses decoder prefers an item's `id` to its `call_id`
  (`openai_responses/decode.rs:316`), while the encoder makes ids of its own
  (`encode_stream.rs:260`): with `EchoIds` results match no call.
* Chat tool messages keep the first part of their content only; images are dropped
  in messages with tool calls; a thinking budget may exceed `max_tokens`; Gemini
  gets no tool choice, Anthropic gets one without tools.
* The Anthropic parser has no drain tail (`anthropic/response.rs:41` against
  `CONTEXT.md:86`); `DrainTail` excepts it. With `TextAfterTools` the chat parser
  opens index 0 again. The Responses parser always says `EndTurn`; `ReasonKept`
  excepts it. A truncated Responses upstream is a success for a unary client.
  `collect_stream` and DeepSeek's unary parser drop reasoning.
* A Gemini response that called a tool is told as one that waits for its tools whatever its
  finish reason, also when the token limit cut it short or it was filtered
  (`gemini/response.rs:682`, and its comment there), against the table at
  `gemini/response.rs:26-32`, which maps `MAX_TOKENS` to `MaxTokens` and upgrades `STOP` only.
  The `streaming` run offers every reason after every call; `ReasonKept` says what the code
  does.
* An Anthropic history has tool results in user messages, where the compressor may
  cut (`plugins/builtin/prompt_compressor/groups.rs:29`); `TurnsKept` is about tool
  messages.
* Two scrubbers of one request share a scratch entry (`plugins/context.rs:56`), and
  text that is held back is lost when the stream is dropped.

## 7. What is not modelled

* The quantile of the latency probe, which no sample reaches, and the image
  arithmetic for known sizes, which no image has. `retry_after_secs`.
* The wording of errors, spans, logs and metrics: no decision depends on them.
* Texts beyond the bytes a property tells apart; regular expressions are patterns
  over a small alphabet; SSE framing and serde are the pieces they deliver.
* The loader of the configuration (file, environment, templates): a configuration
  is chosen.
* The device login of Copilot (interactive polling by one user), the command line,
  service registration, tokenizer tables.
* Memory growth that no behaviour depends on: finished handles in the `JoinSet`
  (`plugins/supervisor.rs:45`), breakers of routes that were removed
  (`router/circuit_breaker.rs:434`). A drain has no deadline (`gateway/server.rs:42`),
  nor has the summarizer's stream (`plugins/builtin/prompt_compressor/summarize.rs:57`);
  both wait for their peer, and no property bounds that.

## 8. Plan

Done, in this order: BreakerState and CircuitBreaker with proofs; Resilience;
Retry with proofs; HotReload with proofs; Shutdown; CopilotToken with proofs; the
stream's two abstract specifications, parsers, encoders and Streaming; decoders,
builders and Conversation; Configuration, Routing, Plugins, Providers and Pipeline;
the byte-level components and TextPath; proofs of Shutdown and Resilience; proofs of
Pipeline, of what the retry loop retries, and of the bound on an upstream's calls;
proofs of the stream's contract and of what a client is told.

Next, by importance:

1. Proofs: DeepSeek's parser, along the chat parser's lemmas; `UnaryComplete` for the
   collector's sums.
2. A recovery property of the breaker (an open breaker whose upstream is healthy
   closes) under the fairness of traffic.
3. The latency probe's quantile, once its histogram is written.
