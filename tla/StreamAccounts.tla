--------------------------- MODULE StreamAccounts ---------------------------
(***************************************************************************)
(* The inductive invariant of Streaming.  A parser is described by the     *)
(* account of the events it has produced (Back), an encoder by the account *)
(* of the events it has consumed (FrontHolds), and the two meet in the     *)
(* queue of the events between them (Leads).  Streaming_proofs proves it.  *)
(***************************************************************************)
EXTENDS Streaming

-----------------------------------------------------------------------------
(* The account of a canonical stream: which envelope events it has had,    *)
(* how far each block is, the stop reason and the tokens its usage deltas  *)
(* add up to.  A tool block is "raw" until its ToolCallStart, "named"      *)
(* until its ToolCallStop and then "halted" until it is closed.            *)
Envelopes == {"ResponseStart", "MessageStart", "MessageStop", "ResponseStop"}
Stages == ContentBlockKind \cup {"new", "raw", "named", "halted", "closed"}

OneOf(S) == {{}} \cup {{x} : x \in S}

Account == [seen : SUBSET Envelopes, stage : [BlockIndices -> Stages],
            stop : OneOf(StopReason), spent : Nat]

NoAccount == [seen |-> {}, stage |-> [i \in BlockIndices |-> "new"], stop |-> {}, spent |-> 0]

CanonicalEvent ==
    [ev : {"Err", "Error", "ResponseStart", "MessageStart", "TextDelta", "ReasoningDelta",
           "ToolCallStart", "ToolCallArgumentsDelta", "ToolCallStop", "ContentBlockStop"},
     index : Int]
    \cup [ev : {"ContentBlockStart"}, index : Int, kind : ContentBlockKind]
    \cup [ev : {"MessageStop"}, index : Int, stop : StopReason]
    \cup [ev : {"UsageDelta", "ResponseStop"}, index : Int, usage : OneOf(Nat)]

(* How an event moves the account on.                                      *)
WithSeen(g, x) == [seen |-> g.seen \cup {x}, stage |-> g.stage, stop |-> g.stop, spent |-> g.spent]
WithStage(g, i, x) == [seen |-> g.seen, stage |-> [g.stage EXCEPT ![i] = x],
                       stop |-> g.stop, spent |-> g.spent]
WithStop(g, r) == [seen |-> g.seen \cup {"MessageStop"}, stage |-> g.stage,
                   stop |-> {r}, spent |-> g.spent]
WithSpent(g, n) == [seen |-> g.seen, stage |-> g.stage, stop |-> g.stop, spent |-> g.spent + n]

Book(g, e) ==
    CASE e.ev \in {"ResponseStart", "MessageStart", "ResponseStop"} -> WithSeen(g, e.ev)
      [] e.ev = "MessageStop" -> WithStop(g, e.stop)
      [] e.ev = "ContentBlockStart" ->
            WithStage(g, e.index, IF e.kind = "ToolCall" THEN "raw" ELSE e.kind)
      [] e.ev = "ToolCallStart" -> WithStage(g, e.index, "named")
      [] e.ev = "ToolCallStop" -> WithStage(g, e.index, "halted")
      [] e.ev = "ContentBlockStop" -> WithStage(g, e.index, "closed")
      [] e.ev = "UsageDelta" -> WithSpent(g, CHOOSE n \in e.usage : TRUE)
      [] OTHER -> g

AllQuiet(g) == \A i \in BlockIndices : g.stage[i] \in {"new", "closed"}

(* What the upstream has said so far, as far as the end of a stream has to *)
(* agree with it.                                                          *)
Due(p, u) == IF p = "gemini" /\ u.called THEN "tools" ELSE u.reason

Terms(p, u) == [tokens |-> u.tokens, due |-> Due(p, u),
                final |-> p # "responses" /\ u.reasoned]

(* The stop reason tells what is due, once the upstream has finished.      *)
Sense(stop) ==
    CASE stop = "MaxTokens" -> "cut"
      [] stop = "ContentFilter" -> "filtered"
      [] stop = "ToolUse" -> "tools"
      [] OTHER -> "end"

Honest(stop, t) == t.final => Sense(stop) = t.due

(* The events a parser may add to an account, stronger than the rules of   *)
(* StreamLifecycle: t are the terms while the event is queued.             *)
Regular(g, e, t) ==
    CASE e.ev \in {"Err", "Error"} -> e = Plain(e.ev)
      [] e.ev = "ResponseStart" -> e = ResponseStart /\ g.seen = {}
      [] e.ev = "MessageStart" -> e = MessageStart /\ g.seen = {"ResponseStart"}
      [] e.ev = "ContentBlockStart" ->
            /\ e.index \in BlockIndices /\ e.kind \in ContentBlockKind
            /\ e = ContentBlockStart(e.index, e.kind)
            /\ "MessageStart" \in g.seen /\ "MessageStop" \notin g.seen
            /\ g.stage[e.index] = "new"
      [] e.ev \in {"TextDelta", "ReasoningDelta", "ToolCallStart", "ToolCallArgumentsDelta",
                   "ToolCallStop", "ContentBlockStop"} ->
            /\ e.index \in BlockIndices /\ e = BlockEvent(e.ev, e.index)
            /\ "MessageStart" \in g.seen /\ "MessageStop" \notin g.seen
            /\ e.ev = "TextDelta" => g.stage[e.index] = "Text"
            /\ e.ev = "ReasoningDelta" => g.stage[e.index] = "Reasoning"
            /\ e.ev = "ToolCallStart" => g.stage[e.index] = "raw"
            /\ e.ev \in {"ToolCallArgumentsDelta", "ToolCallStop"} => g.stage[e.index] = "named"
            /\ e.ev = "ContentBlockStop" =>
                  g.stage[e.index] \in {"Text", "Reasoning", "RedactedReasoning", "halted"}
      [] e.ev = "UsageDelta" ->
            /\ \E n \in Nat : e = UsageDelta(n)
            /\ "ResponseStart" \in g.seen /\ "ResponseStop" \notin g.seen
      [] e.ev = "MessageStop" ->
            /\ e.stop \in StopReason /\ e = MessageStop(e.stop)
            /\ "ResponseStart" \in g.seen /\ "MessageStop" \notin g.seen
            /\ "ResponseStop" \notin g.seen
            /\ AllQuiet(g) /\ Honest(e.stop, t)
      [] e.ev = "ResponseStop" ->
            /\ e.usage \in OneOf(Nat) /\ e = ResponseStop(e.usage)
            /\ "MessageStop" \in g.seen /\ "ResponseStop" \notin g.seen
            /\ "ResponseStart" \in g.seen
            /\ FinalUsage(g.spent, e) = t.tokens
      [] OTHER -> FALSE

(* The queue q takes account g to account h by regular events.             *)
Leads(g, q, h, t) ==
    /\ q \in Seq(CanonicalEvent)
    /\ \E p : /\ p[0] = g /\ p[Len(q)] = h
              /\ \A k \in 1 .. Len(q) : /\ Regular(p[k - 1], q[k], t)
                                        /\ p[k] = Book(p[k - 1], q[k])
-----------------------------------------------------------------------------
(* Both ways of adding an event to a queue.                                *)
Moves(g, q, e, k, t) == Leads(g, Append(q, e), k, t) /\ Leads(g, q \o <<e>>, k, t)
-----------------------------------------------------------------------------
(* FlattenSeq adds the sequences up from the left.                         *)
Cat(x, y) == x \o y

FoldTools(a, s) == FoldLeft(ToolDelta, a, s)
-----------------------------------------------------------------------------
Flags(st, h) ==
    /\ st.response_start <=> "ResponseStart" \in h.seen
    /\ st.message_start <=> "MessageStart" \in h.seen
    /\ st.message_stop <=> "MessageStop" \in h.seen
    /\ st.response_stop <=> "ResponseStop" \in h.seen
    /\ st.message_start => st.response_start
    /\ st.message_stop => st.message_start
    /\ st.response_stop => st.message_stop
    /\ st.message_stop <=> h.stop # {}

ChatState ==
    [response_start : BOOLEAN, message_start : BOOLEAN, message_stop : BOOLEAN,
     response_stop : BOOLEAN, completed : BOOLEAN, text_open : BOOLEAN,
     open_tools : SUBSET {1, 2}]

ChatIs(st, started, opened, stopped, over, completed, text, tools) ==
    /\ st \in ChatState
    /\ st.response_start = started /\ st.message_start = opened
    /\ st.message_stop = stopped /\ st.response_stop = over
    /\ st.completed = completed /\ st.text_open = text /\ st.open_tools = tools

ChatHeld(st, h) ==
    /\ st \in ChatState /\ h \in Account /\ Flags(st, h)
    /\ st.text_open => h.stage[0] = "Text"
    /\ ~st.text_open => h.stage[0] \in {"new", "closed"}
    /\ \A i \in st.open_tools : h.stage[i] = "named"
    /\ \A i \in {1, 2} \ st.open_tools : h.stage[i] \in {"new", "closed"}
    /\ \A i \in BlockIndices \ {0, 1, 2} : h.stage[i] = "new"
    /\ st.message_stop \/ ~st.message_start => ~st.text_open /\ st.open_tools = {}

(* While the message is open a tool block that is not open was never       *)
(* opened.                                                                 *)
ToolsReady(st, h) == ~st.message_stop => \A i \in {1, 2} \ st.open_tools : h.stage[i] = "new"
TextReady(st, h) == st.open_tools = {} /\ ~st.message_stop /\ ~st.text_open => h.stage[0] = "new"

Shaped(a) == a = [st |-> a.st, out |-> a.out]

ChatAcc(g, a, t, h) ==
    Shaped(a) /\ Leads(g, a.out, h, t) /\ ChatHeld(a.st, h)

(* From account h on to one that differs in the blocks S at most.          *)
ChatTo(g, b, t, h, S) ==
    \E k : /\ ChatAcc(g, b, t, k) /\ k.spent = h.spent
           /\ \A i \in BlockIndices \ S : k.stage[i] = h.stage[i]

(* Closing a tool block if it is among the open ones.                      *)
Drained(i, T) == When(i \in T, CloseTool(i), <<>>)

(* Only block i is different, and not open any more.                       *)
Rests(h, k, i) ==
    /\ k \in Account /\ k.seen = h.seen /\ k.stop = h.stop /\ k.spent = h.spent
    /\ k.stage[i] \in {"new", "closed"} /\ \A j \in BlockIndices \ {i} : k.stage[j] = h.stage[j]

(* A tool delta: the first one of its block announces it.                  *)
ChatCall(tc, i, T) == tc.index + 1 = i /\ tc.id = (i \notin T) /\ tc.args = (i \in T)

ChatCalled(g, a, b, t, h, i) ==
    /\ ChatIs(b.st, TRUE, TRUE, FALSE, FALSE, a.st.completed, a.st.text_open,
              a.st.open_tools \cup {i})
    /\ ChatTo(g, b, t, h, {i})

(* An accumulator in the middle of the message, with the tool blocks T     *)
(* open and n tokens told, and one whose message has been stopped.         *)
ChatLive(g, a, t, n, T) ==
    \E k : /\ ChatAcc(g, a, t, k) /\ k.spent = n /\ a.st.open_tools = T
           /\ a.st.response_start /\ a.st.message_start /\ ~a.st.message_stop
           /\ ToolsReady(a.st, k) /\ TextReady(a.st, k)

ChatOver(g, a, t, n) ==
    \E k : ChatAcc(g, a, t, k) /\ k.spent = n /\ a.st.message_stop /\ ~a.st.response_stop

(* The tool deltas of one chunk, for the blocks S.                         *)
ChatCalls(tools, T, S) ==
    \/ \E i \in {1, 2} : \E tc : S = {i} /\ tools = <<tc>> /\ ChatCall(tc, i, T)
    \/ /\ T = {} /\ S = {1, 2}
       /\ \E x : \E y : tools = <<x, y>> /\ ChatCall(x, 1, {}) /\ ChatCall(y, 2, {1})

(* A response that has begun and whose message may not have.               *)
ChatNear(g, a, t, n, T) ==
    \E k : /\ ChatAcc(g, a, t, k) /\ k.spent = n /\ a.st.open_tools = T
           /\ a.st.response_start /\ ~a.st.message_stop
           /\ ToolsReady(a.st, k) /\ TextReady(a.st, k)

(* An optional usage report at the end.                                    *)
Plus(n, u) == IF u = {} THEN n ELSE n + (CHOOSE m \in u : TRUE)

UsageSeq(u) == SetToSeq({UsageDelta(n) : n \in u})

UsageTo(g, r, h, t, u) ==
    \E k \in Account : /\ Leads(g, r, k, t) /\ k.spent = Plus(h.spent, u)
                       /\ k.seen = h.seen /\ k.stage = h.stage /\ k.stop = h.stop

FoldChoices(a, s, order) ==
    LET each(b, choice) == Choice(b, choice, order) IN FoldLeft(each, a, s)

(* The three sorts of chunk: a fragment, the finish, and what follows it.  *)
ChatFragment(in, c) ==
    /\ in.kind = "chunk" /\ in.choices = {<<c>>} /\ in.usage = {}
    /\ c.role = (up.phase = "idle") /\ c.finish = {} /\ c.text \in BOOLEAN
    /\ c.text => up.open = {}
    /\ \/ c.tools = {}
       \/ \E i \in {0, 1} : c.tools = {<<ToolDeltaNow(i)>>}
       \/ up.open = {} /\ c.tools = {<<ToolDeltaNow(0), ToolDeltaNow(1)>>}

ChatLast(in, c) ==
    /\ in.kind = "chunk" /\ in.choices = {<<c>>} /\ in.usage \in UsageNow
    /\ c.role = (up.phase = "idle") /\ c.text = FALSE /\ c.tools = {}
    /\ \E r \in ChatReasons : c.finish = {r}

(* The offers while the message is open, set by set.                       *)
ChatContent ==
    {[NoChoice EXCEPT !.text = TRUE]}
    \cup (IF provider = "deepseek"
          THEN {[NoChoice EXCEPT !.reasoning = TRUE],
                [NoChoice EXCEPT !.reasoning = TRUE, !.text = TRUE]}
          ELSE {})
ChatRoom == provider = "chat" \/ parser.next_index < MaxIndex
ChatOneCall(i) == [NoChoice EXCEPT !.tools = {<<ToolDeltaNow(i)>>}]
ChatTwoCalls == [NoChoice EXCEPT !.text = ChatRoom,
                                 !.tools = {<<ToolDeltaNow(0), ToolDeltaNow(1)>>}]
ChatEnding(r, u) == Chunk({<<[NoChoice EXCEPT !.finish = {r}]>>}, u)

(* Between two pieces of the upstream: the parser's state, the account of  *)
(* what it has emitted and the upstream's side.                            *)
ChatBack(st, h, u) ==
    /\ ChatHeld(st, h) /\ ToolsReady(st, h) /\ TextReady(st, h)
    /\ u.phase \in {"idle", "live", "stopped", "gone"} /\ u.open \subseteq {0, 1}
    /\ u.tokens \in Nat /\ h.spent = u.tokens
    /\ u.called \in BOOLEAN /\ u.reasoned \in BOOLEAN /\ (u.called <=> u.open # {})
    /\ u.phase \in {"idle", "live"} =>
          /\ ~st.message_stop /\ ~u.reasoned
          /\ \A i \in {0, 1} : i \in u.open <=> i + 1 \in st.open_tools
    /\ u.phase = "live" => st.message_start
    /\ u.phase = "stopped" => st.message_stop
    /\ u.phase = "gone" => st.response_stop \/ ~st.response_start

ChatFed(h, b, u) == \E k : Leads(h, b.out, k, Terms("chat", u)) /\ ChatBack(b.st, k, u)

ChatToolsFit(in, c, T) ==
    \E S : /\ \/ c.tools = {} /\ S = {}
              \/ \E tools : c.tools = {tools} /\ ChatCalls(tools, T, S)
           /\ \A i \in {0, 1} : i \in ToolsIn(in) <=> i + 1 \in S

(* An error, or nothing at all: the account stays.                         *)
Mishap(r, st) ==
    \/ r = Start(st) \/ r = Say(Start(st), <<StreamErr>>) \/ r = Say(Start(st), <<ErrorEvent>>)
-----------------------------------------------------------------------------
(* The account and the validator of StreamLifecycle.                       *)
Sound(g) ==
    /\ g \in Account
    /\ "MessageStart" \in g.seen => "ResponseStart" \in g.seen
    /\ "MessageStop" \in g.seen => "ResponseStart" \in g.seen /\ AllQuiet(g)
    /\ "ResponseStop" \in g.seen => "MessageStop" \in g.seen
    /\ "MessageStop" \in g.seen <=> g.stop # {}

BlockKind(stage) == IF stage \in {"raw", "named", "halted"} THEN "ToolCall" ELSE stage

LifeShape(l) ==
    l = [seen |-> l.seen, open |-> l.open, tool_stopped |-> l.tool_stopped, closed |-> l.closed,
         error |-> l.error, ended |-> l.ended, last |-> l.last, at |-> l.at, tick |-> l.tick]

Of(l, g) ==
    /\ LifeShape(l) /\ l.seen = g.seen
    /\ l.open \subseteq BlockIndices \X ContentBlockKind
    /\ \A i \in BlockIndices : \A k \in ContentBlockKind :
          <<i, k>> \in l.open <=> BlockKind(g.stage[i]) = k
    /\ l.closed \subseteq BlockIndices
    /\ \A i \in BlockIndices : i \in l.closed <=> g.stage[i] = "closed"
    /\ l.tool_stopped \subseteq BlockIndices
    /\ \A i \in BlockIndices : i \in l.tool_stopped <=> g.stage[i] = "halted"
-----------------------------------------------------------------------------
(* Frames and the client's view.                                           *)
Reasons == {"end_turn", "max_tokens", "tool_use", "stop_sequence", "content_filter", "length", "tool_calls",
            "stop", "completed", "incomplete"}

WireFrame ==
    [fr : {"begin", "open", "delta", "content", "part", "close", "ping", "finish", "error"}, item : Int]
    \cup [fr : {"stop"}, item : Int, reason : Reasons]
    \cup [fr : {"usage"}, item : Int, usage : Nat]

ViewShape(v) ==
    /\ v = [begun |-> v.begun, open |-> v.open, closed |-> v.closed, finished |-> v.finished,
            errored |-> v.errored, reason |-> v.reason, usage |-> v.usage,
            last |-> v.last, at |-> v.at, tick |-> v.tick]
    /\ v.begun \in BOOLEAN /\ v.finished \in BOOLEAN /\ v.errored \in BOOLEAN

(* The reason tells what is due, in the dialects that have one.            *)
Tells(reason, t, d) == t.final /\ d # "responses" => Means(reason) = t.due

(* The frames a client accepts, stronger than ClientStream: the counts and *)
(* the reason agree with the terms.                                        *)
Fits(d, v, f, t) ==
    /\ ~v.finished
    /\ CASE f.fr = "begin" -> f = Frame("begin", NoIndex) /\ ~v.begun
         [] f.fr = "error" -> f = Frame("error", NoIndex)
         [] f.fr = "ping" -> f = Frame("ping", NoIndex) /\ v.begun
         [] f.fr = "content" -> f = Frame("content", NoIndex) /\ v.begun /\ d = "chat"
         [] f.fr = "open" ->
               /\ f = Frame("open", f.item) /\ f.item \in BlockIndices /\ v.begun
               /\ f.item \notin v.open /\ f.item \notin v.closed
         [] f.fr \in {"delta", "part"} ->
               f = Frame(f.fr, f.item) /\ f.item \in BlockIndices /\ v.begun /\ f.item \in v.open
         [] f.fr = "close" ->
               /\ f = Frame("close", f.item) /\ f.item \in BlockIndices /\ v.begun
               /\ f.item \in v.open /\ d # "chat"
         [] f.fr = "stop" ->
               /\ f.reason \in Reasons /\ f = StopFrame("stop", f.reason) /\ v.begun
               /\ v.reason = "none" /\ Tells(f.reason, t, d)
         [] f.fr = "usage" ->
               /\ f.usage \in Nat /\ f = UsageFrame("usage", f.usage) /\ v.begun
               /\ v.usage = {} /\ f.usage = t.tokens
         [] f.fr = "finish" ->
               /\ f = Frame("finish", NoIndex) /\ (v.begun \/ v.errored)
               /\ d # "chat" => v.open = {}
               /\ v.errored \/ v.reason # "none"
         [] OTHER -> FALSE

Plays(d, v, q, w, t) ==
    /\ q \in Seq(WireFrame)
    /\ \E p : /\ p[0] = v /\ p[Len(q)] = w
              /\ \A k \in 1 .. Len(q) : /\ Fits(d, p[k - 1], q[k], t)
                                        /\ p[k] = Client!See(p[k - 1], q[k])

(* What a frame changes in a view.                                         *)
SeenAs(v, f, w) ==
    /\ ViewShape(w)
    /\ w.begun <=> v.begun \/ f.fr = "begin"
    /\ w.open = CASE f.fr = "open" -> v.open \cup {f.item}
                  [] f.fr = "close" -> v.open \ {f.item}
                  [] OTHER -> v.open
    /\ w.closed = IF f.fr = "close" THEN v.closed \cup {f.item} ELSE v.closed
    /\ w.finished <=> v.finished \/ f.fr = "finish"
    /\ w.errored <=> v.errored \/ f.fr = "error"
    /\ w.reason = IF f.fr = "stop" THEN f.reason ELSE v.reason
    /\ w.usage = IF f.fr = "usage" THEN {f.usage} ELSE v.usage

(* What a client has been told so far agrees with the terms.               *)
Says(v, t, d) ==
    /\ v.usage # {} => v.usage = {t.tokens}
    /\ v.reason # "none" => Tells(v.reason, t, d)
    /\ v.finished => v.errored \/ v.reason # "none"

(* The reason so far is honest.                                            *)
Settled(g, t) == \A r \in g.stop : Honest(r, t)
-----------------------------------------------------------------------------
(* The Anthropic encoder: a block is on the wire from its start (a tool    *)
(* block from its ToolCallStart) to its stop.                              *)
AnthropicWire == {"Text", "Reasoning", "RedactedReasoning", "named", "halted"}

AnthropicOpen(g, s, w) ==
    /\ s.tokens = g.spent /\ s.pending_stop = g.stop /\ "ResponseStop" \notin g.seen
    /\ ~w.finished /\ w.reason = "none" /\ w.usage = {}
    /\ w.begun <=> "ResponseStart" \in g.seen
    /\ w.open \subseteq BlockIndices /\ w.closed \subseteq BlockIndices
    /\ \A i \in BlockIndices : /\ i \in w.open <=> g.stage[i] \in AnthropicWire
                               /\ i \in w.closed <=> g.stage[i] = "closed"

AnthropicShape(s) ==
    /\ s = [tokens |-> s.tokens, pending_stop |-> s.pending_stop, done |-> s.done]
    /\ s.done \in BOOLEAN

AnthropicFront(g, s, w) ==
    /\ AnthropicShape(s) /\ ViewShape(w)
    /\ s.done => w.finished
    /\ ~s.done => AnthropicOpen(g, s, w)

AnthropicShown(g, r, w, t) ==
    \E x : Plays("anthropic", w, r.out, x, t) /\ AnthropicFront(g, r.st, x)
-----------------------------------------------------------------------------
(* The Chat encoder: a tool call is on the wire from its ToolCallStart on. *)
ChatOpen(g, w) ==
    /\ ~w.finished /\ w.usage = {} /\ "ResponseStop" \notin g.seen
    /\ w.begun <=> "ResponseStart" \in g.seen
    /\ w.reason = "none" <=> g.stop = {}
    /\ w.open \subseteq BlockIndices /\ w.closed = {}
    /\ \A i \in BlockIndices : /\ g.stage[i] = "named" => i \in w.open
                               /\ i \in w.open => g.stage[i] \in {"named", "halted", "closed"}

ChatFront(g, s, w) ==
    /\ s = [done |-> s.done] /\ s.done \in BOOLEAN /\ ViewShape(w)
    /\ s.done => w.finished
    /\ ~s.done => ChatOpen(g, w)

ChatShown(g, r, w, t) == \E x : Plays("chat", w, r.out, x, t) /\ ChatFront(g, r.st, x)

(* What a block event does to its block and to the others.                 *)
BlockBooked(g, e, h) ==
    /\ h.seen = g.seen /\ h.stop = g.stop /\ h.spent = g.spent
    /\ \A j \in BlockIndices : j # e.index => h.stage[j] = g.stage[j]
    /\ e.ev = "ContentBlockStart" =>
          g.stage[e.index] = "new" /\ h.stage[e.index] = (IF e.kind = "ToolCall" THEN "raw" ELSE e.kind)
          /\ e.kind \in ContentBlockKind
    /\ e.ev = "ToolCallStart" => g.stage[e.index] = "raw" /\ h.stage[e.index] = "named"
    /\ e.ev = "ToolCallStop" => g.stage[e.index] = "named" /\ h.stage[e.index] = "halted"
    /\ e.ev = "ContentBlockStop" =>
          /\ g.stage[e.index] \in {"Text", "Reasoning", "RedactedReasoning", "halted"}
          /\ h.stage[e.index] = "closed"
    /\ e.ev \in {"TextDelta", "ReasoningDelta", "ToolCallArgumentsDelta"} =>
          h.stage[e.index] = g.stage[e.index]
    /\ e.ev = "TextDelta" => g.stage[e.index] = "Text"
    /\ e.ev = "ReasoningDelta" => g.stage[e.index] = "Reasoning"
    /\ e.ev = "ToolCallArgumentsDelta" => g.stage[e.index] = "named"
-----------------------------------------------------------------------------
(* The Responses encoder: items are numbered in the order they are added,  *)
(* so their numbers stay within the number of blocks.                      *)
ItemStages == {"Text", "Reasoning", "named", "halted"}
Used(stage) == {i \in BlockIndices : stage[i] \notin {"new", "raw"}}
BufferOf(x) == IF x = "Text" THEN "text" ELSE IF x = "Reasoning" THEN "reasoning" ELSE "args"

(* n items so far; o is `output`, b is `buffered`; O and C are the items   *)
(* the client has open and closed.                                         *)
Items(stage, n, o, b, O, C) ==
    /\ n \in Nat /\ n <= Cardinality(Used(stage))
    /\ DOMAIN o = {i \in BlockIndices : stage[i] \in ItemStages}
    /\ \A i \in DOMAIN o : o[i] \in Nat /\ o[i] < n
    /\ \A i, j \in DOMAIN o : o[i] = o[j] => i = j
    /\ \A i \in DOMAIN o : IF stage[i] = "halted" THEN o[i] \notin DOMAIN b
                           ELSE o[i] \in DOMAIN b /\ b[o[i]] = BufferOf(stage[i]) /\ o[i] \in O
    /\ \A k \in O : \E i \in DOMAIN o : k = o[i] /\ stage[i] # "halted"
    /\ \A k \in C : k \in Nat /\ k < n

(* Frames about items, one after the other.                                *)
Kept(w, x) ==
    /\ ViewShape(x) /\ x.reason = w.reason /\ x.usage = w.usage
    /\ x.begun <=> w.begun
    /\ x.finished <=> w.finished

Wired(w, q, x, O, C, t) ==
    Plays("responses", w, q, x, t) /\ Kept(w, x) /\ x.open = O /\ x.closed = C

Wires(w, q, O, C, t) == \E x : Wired(w, q, x, O, C, t)

ResponsesOpen(g, s, w) ==
    /\ s.tokens = g.spent /\ s.final_status \in OneOf({"completed", "incomplete"})
    /\ "ResponseStop" \notin g.seen
    /\ ~w.finished /\ w.reason = "none" /\ w.usage = {}
    /\ w.begun <=> "ResponseStart" \in g.seen
    /\ Items(g.stage, s.output_index, s.output, s.buffered, w.open, w.closed)

ResponsesShape(s) ==
    /\ s = [output_index |-> s.output_index, output |-> s.output, buffered |-> s.buffered,
            final_status |-> s.final_status, tokens |-> s.tokens, done |-> s.done]
    /\ s.done \in BOOLEAN

ResponsesFront(g, s, w) ==
    /\ ResponsesShape(s) /\ ViewShape(w)
    /\ s.done => w.finished
    /\ ~s.done => ResponsesOpen(g, s, w)

ResponsesShown(g, r, w, t) ==
    \E x : Plays("responses", w, r.out, x, t) /\ ResponsesFront(g, r.st, x)

(* The same encoder but for its maps.                                      *)
Mapped(s, n, o, b, r) ==
    /\ ResponsesShape(r) /\ r.tokens = s.tokens /\ r.final_status = s.final_status
    /\ r.done = s.done /\ r.output_index = n /\ r.output = o /\ r.buffered = b
-----------------------------------------------------------------------------
(* One response as a whole: g is the account of the events pulled, h that  *)
(* of the events queued too, and w the view once the queued frames are     *)
(* written.                                                                *)
FrontHolds(d, x, g, s, w) ==
    x => /\ d = "anthropic" => AnthropicFront(g, s, w)
         /\ d = "chat" => ChatFront(g, s, w)
         /\ d = "responses" => ResponsesFront(g, s, w)

(* Once the source is gone nothing is open and a response begun has ended. *)
Through(p, h, u) ==
    /\ h \in Account /\ u.tokens \in Nat
    /\ u.phase = "gone" /\ (p # "anthropic" \/ u.reasoned) =>
          AllQuiet(h) /\ ("ResponseStart" \in h.seen => "ResponseStop" \in h.seen)

Holds(p, d, x, u, q, s, fr, l, v, fin, g, h, w) ==
    /\ d \in {"anthropic", "chat", "responses"} /\ x \in BOOLEAN /\ fin \in BOOLEAN
    /\ Sound(g) /\ Of(l, g) /\ Leads(g, q, h, Terms(p, u)) /\ Settled(g, Terms(p, u))
    /\ ViewShape(v) /\ Says(v, Terms(p, u), d) /\ Plays(d, v, fr, w, Terms(p, u))
    /\ ~x => v = Client!Blank /\ fr = <<>>
    /\ FrontHolds(d, x, g, s, w) /\ Through(p, h, u)
    /\ fin => fr = <<>> /\ (s.done \/ (q = <<>> /\ u.phase = "gone"))
    /\ l.ended => fin /\ q = <<>> /\ u.phase = "gone"

HandleOf(d, x, s, e) ==
    CASE ~x -> Start(Collect(s, e))
      [] x /\ d = "anthropic" -> AnthropicHandle(s, e)
      [] x /\ d = "chat" -> ChatHandle(s, e)
      [] x /\ d = "responses" -> ResponsesHandle(s, e)
-----------------------------------------------------------------------------
(* A unary answer: the blocks of a body, each opened and closed at once.   *)
Parts == {"text", "empty", "thought", "redacted", "call", "media"}

InMessage(h) == h \in Account /\ "MessageStart" \in h.seen /\ "MessageStop" \notin h.seen

Opened(h, i, x, k) ==
    /\ InMessage(k) /\ k.seen = h.seen /\ k.stop = h.stop /\ k.spent = h.spent
    /\ k.stage[i] = x /\ \A j \in BlockIndices \ {i} : k.stage[j] = h.stage[j]

(* A message whose blocks are all closed, the ones from n on never used.   *)
Fresh(h, n) ==
    InMessage(h) /\ AllQuiet(h) /\ \A j \in BlockIndices : j >= n => h.stage[j] = "new"

Alike(h, k) == k.seen = h.seen /\ k.stop = h.stop /\ k.spent = h.spent

Counted(u) == IF u = {} THEN 0 ELSE CHOOSE n \in u : TRUE

Ended(k) == k \in Account /\ AllQuiet(k) /\ "ResponseStop" \in k.seen

Sums(h, u, t) == (u = {} => h.spent = t.tokens) /\ (u # {} => u = {t.tokens})

EndedFrom(h, r, k) ==
    /\ Ended(k) /\ k.stage = h.stage /\ k.stop = {r} /\ "ResponseStart" \in k.seen
    /\ k.spent = h.spent /\ k.seen = h.seen \cup {"MessageStop", "ResponseStop"}

(* Every body a unary upstream sends.                                      *)
Settles(k) ==
    k \in Account /\ AllQuiet(k) /\ ("ResponseStart" \in k.seen => "ResponseStop" \in k.seen)
-----------------------------------------------------------------------------
(* Blocks kept in a map from index to kind, numbered upwards: the account  *)
(* has exactly these open, and none from n on.                             *)
StageOf(k) == IF k = "ToolCall" THEN "named" ELSE k

OpenAs(h, o, n) ==
    /\ DOMAIN o \subseteq BlockIndices
    /\ \A j \in DOMAIN o : o[j] \in ContentBlockKind /\ h.stage[j] = StageOf(o[j])
    /\ \A j \in BlockIndices : j \notin DOMAIN o => h.stage[j] \in {"new", "closed"}
    /\ \A j \in BlockIndices : j >= n => h.stage[j] = "new"
-----------------------------------------------------------------------------
(* The Anthropic parser.  Its open tool blocks are the upstream's, and it  *)
(* remembers the counts and the stop reason until the message_stop.        *)
AnthropicParser(st) ==
    st = [stop |-> st.stop, tokens |-> st.tokens, open_tools |-> st.open_tools,
          completed |-> st.completed]

AnthropicCount(st, u) == st.tokens = {u.tokens} \/ (st.tokens = {} /\ u.tokens = 0)

UpTyped(u) ==
    u.tokens \in Nat /\ u.called \in BOOLEAN /\ u.reasoned \in BOOLEAN /\ u.next \in Nat

AnthropicHeld(st, h, u) ==
    /\ AnthropicParser(st) /\ h \in Account /\ UpTyped(u) /\ u.next <= MaxIndex + 1
    /\ OpenAs(h, u.open, u.next)
    /\ st.open_tools = {j \in DOMAIN u.open : u.open[j] = "ToolCall"}
    /\ h.stop # {} => "ResponseStop" \in h.seen
    /\ "ResponseStop" \notin h.seen => ~u.reasoned /\ AnthropicCount(st, u)
    /\ "ResponseStop" \in h.seen => DOMAIN u.open = {}

AnthropicBack(st, h, u) ==
    /\ AnthropicHeld(st, h, u)
    /\ u.phase \in {"idle", "live", "closing", "stopped", "gone"}
    /\ u.phase = "idle" => h.seen = {} /\ DOMAIN u.open = {}
    /\ u.phase \in {"live", "closing"} => h.seen = {"ResponseStart", "MessageStart"}
    /\ u.phase = "closing" => /\ DOMAIN u.open = {}
                              /\ \E r \in StopReason : st.stop = {r} /\ Sense(r) = u.reason
    /\ u.phase = "stopped" => "ResponseStop" \in h.seen

AnthropicFed(h, r, u) ==
    \E k : Leads(h, r.out, k, Terms("anthropic", u)) /\ AnthropicBack(r.st, k, u)

(* message_start and message_delta: counts.                                *)
Latest(n, x) == IF x = {} THEN n ELSE CHOOSE m \in x : TRUE

Grown(n, x) == \A m \in x : m >= n

UsageTaken(g, a, h, u, b, t) ==
    /\ \E k \in Account : /\ Leads(g, b.out, k, t) /\ k.seen = h.seen
                          /\ k.stage = h.stage /\ k.stop = h.stop
    /\ AnthropicParser(b.st) /\ AnthropicCount(b.st, u) /\ u.tokens \in Nat
    /\ b.st.stop = a.st.stop /\ b.st.open_tools = a.st.open_tools

AnthropicAt(h) == AnthropicBack(parser, h, up) /\ "ResponseStop" \notin h.seen /\ up.phase # "gone"
-----------------------------------------------------------------------------
(* The Gemini parser.  At most one text or reasoning block is open, and    *)
(* the blocks are numbered as they come.                                   *)
FoldParts(a, s) == FoldLeft(HandlePart, a, s)

GeminiIs(st) ==
    st = [started |-> st.started, stopped |-> st.stopped, next_block |-> st.next_block,
          open_block |-> st.open_block, has_tool_call |-> st.has_tool_call,
          last_usage |-> st.last_usage]

GeminiBlocks(h, o, n) ==
    /\ n \in Nat /\ n <= MaxIndex + 1 /\ \A j \in BlockIndices : j >= n => h.stage[j] = "new"
    /\ \/ o = {} /\ AllQuiet(h)
       \/ \E i \in BlockIndices, x \in {"Text", "Reasoning"} :
             /\ o = {<<x, i>>} /\ h.stage[i] = x
             /\ \A j \in BlockIndices \ {i} : h.stage[j] \in {"new", "closed"}

Begun(h) ==
    h \in Account /\ h.seen = {"ResponseStart", "MessageStart"} /\ h.stop = {} /\ h.spent = 0

GeminiAcc(g, a, h, t) ==
    /\ Shaped(a) /\ GeminiIs(a.st) /\ Leads(g, a.out, h, t) /\ Begun(h)
    /\ GeminiBlocks(h, a.st.open_block, a.st.next_block)

(* The rest of the parser's state.                                         *)
GeminiSame(a, b) ==
    b.started = a.started /\ b.stopped = a.stopped /\ b.last_usage = a.last_usage

InBlock(o, x) == \E i : o = {<<x, i>>}

GeminiParts == {"text", "thought", "call", "media"}

GeminiHandled(g, a, c, b, t) ==
    /\ \E k : GeminiAcc(g, b, k, t)
    /\ b.st.next_block \in Nat /\ b.st.next_block <= a.st.next_block + 1
    /\ b.st.has_tool_call <=> a.st.has_tool_call \/ c
    /\ b.st.has_tool_call \in BOOLEAN /\ GeminiSame(a.st, b.st)

(* The parts of one response.                                              *)
GeminiBodies == {<<>>, <<"text">>, <<"thought">>, <<"call">>, <<"media">>,
                 <<"text", "call">>, <<"thought", "text">>}

GeminiFolded(g, a, c, b, t) ==
    /\ \E k : GeminiAcc(g, b, k, t)
    /\ b.st.has_tool_call <=> a.st.has_tool_call \/ c
    /\ b.st.has_tool_call \in BOOLEAN /\ GeminiSame(a.st, b.st)

(* The end of a response.                                                  *)
GeminiUsage(x, n) == n \in Nat /\ (x = {n} \/ (x = {} /\ n = 0))

(* The parser between two responses, and after the end.                    *)
GeminiOpenly(st, h, u) ==
    /\ ~st.stopped /\ h.stop = {} /\ h.spent = 0 /\ ~u.reasoned
    /\ st.has_tool_call \in BOOLEAN /\ (st.has_tool_call <=> u.called)
    /\ GeminiUsage(st.last_usage, u.tokens)
    /\ GeminiBlocks(h, st.open_block, st.next_block)
    /\ \/ st.started /\ h.seen = {"ResponseStart", "MessageStart"}
       \/ ~st.started /\ h.seen = {} /\ st.open_block = {}

GeminiBack(st, h, u) ==
    /\ GeminiIs(st) /\ h \in Account
    /\ u.tokens \in Nat /\ u.called \in BOOLEAN /\ u.reasoned \in BOOLEAN
    /\ "ResponseStop" \in h.seen => Ended(h)
    /\ "ResponseStop" \notin h.seen => GeminiOpenly(st, h, u)
    /\ u.phase = "gone" => h.seen = {} \/ "ResponseStop" \in h.seen

GeminiFed(h, r, u) == \E k : Leads(h, r.out, k, Terms("gemini", u)) /\ GeminiBack(r.st, k, u)

(* The envelope and the counts of a response.                              *)
GeminiBegan(s) ==
    IF s.started THEN Start(s)
    ELSE [st |-> [s EXCEPT !.started = TRUE], out |-> <<ResponseStart, MessageStart>>]

GeminiTold(s, x) == [GeminiBegan(s) EXCEPT !.st.last_usage = IF x = {} THEN @ ELSE x]

GeminiCounts(x) == x = {} \/ \E n \in TokenCounts : x = {n}
-----------------------------------------------------------------------------
(* The parsers that keep the envelope's flags: each event of the envelope  *)
(* is said once.                                                           *)
EnvelopeFlags == {"response_start", "message_start", "message_stop", "response_stop", "completed"}

Enveloped(s, h) ==
    /\ EnvelopeFlags \subseteq DOMAIN s /\ h \in Account
    /\ s.response_start <=> "ResponseStart" \in h.seen
    /\ s.message_start <=> "MessageStart" \in h.seen
    /\ s.message_stop <=> "MessageStop" \in h.seen
    /\ s.response_stop <=> "ResponseStop" \in h.seen
    /\ "MessageStart" \in h.seen => "ResponseStart" \in h.seen

(* Two states that differ in flags of the envelope at most.                *)
SameRest(s, z) == DOMAIN z = DOMAIN s /\ \A x \in DOMAIN s \ EnvelopeFlags : z[x] = s[x]

Ahead(g, a, h, t) == Shaped(a) /\ Leads(g, a.out, h, t) /\ Enveloped(a.st, h)

AheadTo(g, a, h, b, k, t) ==
    Ahead(g, b, k, t) /\ k.stage = h.stage /\ k.spent = h.spent /\ SameRest(a.st, b.st)

(* Ascending: the numbers of a set in order, each of them once.            *)
Rising(s, S) ==
    /\ s \in [1 .. Cardinality(S) -> S]
    /\ \A i, j \in DOMAIN s : i < j => s[i] < s[j]

(* Every open block of a map closed, in index order.                       *)
Closers(o) ==
    LET s == Ascending(DOMAIN o)
    IN FlattenSeq([k \in DOMAIN s |-> CloseBlock(s[k], o[s[k]])])

AllClosed(h, o, k) ==
    /\ InMessage(k) /\ Alike(h, k) /\ \A j \in DOMAIN o : k.stage[j] = "closed"
    /\ \A j \in BlockIndices \ DOMAIN o : k.stage[j] = h.stage[j]
-----------------------------------------------------------------------------
(* The Responses parser.  Its open blocks are the upstream's open items of *)
(* the types that make blocks.  A response that failed is left open until  *)
(* the source ends.                                                        *)
ItemBlocks(b, o, n) ==
    /\ \A j \in DOMAIN o : j \in Nat /\ j < n /\ o[j] \in {"message", "function_call", "reasoning"}
    /\ DOMAIN b = {j \in DOMAIN o : o[j] \in {"message", "function_call"}}
    /\ \A j \in DOMAIN b : b[j] = IF o[j] = "message" THEN "Text" ELSE "ToolCall"

ResponsesHeld(st, h, u) ==
    /\ Enveloped(st, h) /\ "open_blocks" \in DOMAIN st /\ UpTyped(u) /\ u.next <= MaxIndex + 1
    /\ h.spent = 0 /\ OpenAs(h, st.open_blocks, u.next)
    /\ u.phase # "gone" => ItemBlocks(st.open_blocks, u.open, u.next)
    /\ "ResponseStop" \notin h.seen => u.tokens = 0 /\ h.stop = {} /\ "MessageStop" \notin h.seen
    /\ "ResponseStop" \in h.seen => DOMAIN st.open_blocks = {}
    /\ DOMAIN st.open_blocks # {} => "MessageStart" \in h.seen

ResponsesBack(st, h, u) ==
    /\ ResponsesHeld(st, h, u)
    /\ u.phase \in {"idle", "live", "stopped", "gone"}
    /\ u.phase = "idle" => h.seen = {}
    /\ u.phase = "live" => "ResponseStart" \in h.seen /\ "ResponseStop" \notin h.seen
    /\ u.phase = "gone" => "ResponseStop" \in h.seen \/ "ResponseStart" \notin h.seen

ResponsesFed(h, r, u) ==
    \E k : Leads(h, r.out, k, Terms("responses", u)) /\ ResponsesBack(r.st, k, u)

(* A block of an item, a tool block with its name.                         *)
ItemQueue(q, i, x, named) ==
    Append(q, ContentBlockStart(i, x)) \o When(named, <<BlockEvent("ToolCallStart", i)>>, <<>>)
-----------------------------------------------------------------------------
(* The invariant of one response.  A parser's state agrees with the        *)
(* account of what it has produced and with what the upstream has said; a  *)
(* unary upstream has not been asked yet or has answered.                  *)
Proved == {"chat", "responses", "anthropic", "gemini"}

ParserBack(p, st, h, u) ==
    /\ p = "chat" => ChatBack(st, h, u)
    /\ p = "responses" => ResponsesBack(st, h, u)
    /\ p = "anthropic" => AnthropicBack(st, h, u)
    /\ p = "gemini" => GeminiBack(st, h, u)

Unasked(h, u) == u.phase = "idle" => h = NoAccount /\ u.tokens = 0 /\ ~u.reasoned

UpShape(u) ==
    u = [phase |-> u.phase, open |-> u.open, next |-> u.next, tokens |-> u.tokens,
         called |-> u.called, reason |-> u.reason, reasoned |-> u.reasoned]

Back(p, x, st, h, u) ==
    IF x \/ p = "responses" THEN ParserBack(p, st, h, u) ELSE Unasked(h, u)

StreamInv ==
    /\ provider \in Proved /\ UpShape(up)
    /\ \E g, h, w :
          /\ Holds(provider, frontend, streamed, up, events, encoder, frames, life, view, ended,
                   g, h, w)
          /\ Back(provider, streamed, parser, h, up)

(* What an input may be, and where it leaves the upstream.                 *)
Input(in, u) ==
    \/ in \in Offers /\ u = Follow(in)
    \/ in \in Faults /\ u = up
    \/ in = [kind |-> "eof"] /\ u = [up EXCEPT !.phase = "gone"]

(* What the steps have to show: the invariant again, a step or a stutter   *)
(* of the validator and one of the client.                                 *)
StepKept == StreamInv' /\ [Lifecycle!Next]_life /\ [Client!Next]_<<frontend, view>>
=============================================================================
