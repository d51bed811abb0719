-------------------------- MODULE Streaming_proofs --------------------------
(***************************************************************************)
(* One response from any upstream to any client, for every bound on        *)
(* indices and tokens: the events pulled from a parser are a canonical     *)
(* stream, what the client is sent is a stream of its dialect, and both    *)
(* end as the upstream did.  StreamAccounts defines the accounts and the   *)
(* invariant; here each operation of a parser, an encoder and the client   *)
(* is shown to keep its part of it.                                        *)
(***************************************************************************)
EXTENDS StreamAccounts, TLAPS, SequenceTheorems, FiniteSetTheorems, WellFoundedInduction

-----------------------------------------------------------------------------
(* Queues: nothing, one event more at the end, one event less in front.    *)
LEMMA LeadsNothing ==
    ASSUME NEW g, NEW t
    PROVE  Leads(g, <<>>, g, t)
<1> DEFINE p == [k \in {0} |-> g]
<1>1. /\ p[0] = g /\ p[Len(<<>>)] = g
      /\ \A k \in 1 .. Len(<<>>) :
            Regular(p[k - 1], <<>>[k], t) /\ p[k] = Book(p[k - 1], <<>>[k])
  OBVIOUS
<1> HIDE DEF p
<1>2. <<>> \in Seq(CanonicalEvent)  OBVIOUS
<1> QED  BY <1>1, <1>2 DEF Leads

LEMMA RegularTyped ==
    ASSUME NEW g, NEW e, NEW t, Regular(g, e, t)
    PROVE  e \in CanonicalEvent
<1>1. CASE e.ev \in {"Err", "Error"}
  BY <1>1 DEF Regular, CanonicalEvent, Plain, NoIndex
<1>2. CASE e.ev \in {"ResponseStart", "MessageStart"}
  BY <1>2 DEF Regular, CanonicalEvent, ResponseStart, MessageStart, Plain, NoIndex
<1>3. CASE e.ev = "ContentBlockStart"
  BY <1>3 DEF Regular, CanonicalEvent, ContentBlockStart, BlockIndices
<1>4. CASE e.ev \in {"TextDelta", "ReasoningDelta", "ToolCallStart", "ToolCallArgumentsDelta",
                     "ToolCallStop", "ContentBlockStop"}
  BY <1>4 DEF Regular, CanonicalEvent, BlockEvent, BlockIndices
<1>5. CASE e.ev = "UsageDelta"
  BY <1>5 DEF Regular, CanonicalEvent, UsageDelta, OneOf, NoIndex
<1>6. CASE e.ev = "MessageStop"
  BY <1>6 DEF Regular, CanonicalEvent, MessageStop, NoIndex
<1>7. CASE e.ev = "ResponseStop"
  BY <1>7 DEF Regular, CanonicalEvent, ResponseStop, NoIndex
<1> QED  BY <1>1, <1>2, <1>3, <1>4, <1>5, <1>6, <1>7 DEF Regular

LEMMA LeadsOn ==
    ASSUME NEW g, NEW q, NEW h, NEW t, NEW e, Leads(g, q, h, t), Regular(h, e, t)
    PROVE  Leads(g, Append(q, e), Book(h, e), t) /\ Leads(g, q \o <<e>>, Book(h, e), t)
<1>1. q \in Seq(CanonicalEvent) /\ e \in CanonicalEvent  BY RegularTyped DEF Leads
<1>2. PICK p : /\ p[0] = g /\ p[Len(q)] = h
               /\ \A k \in 1 .. Len(q) :
                     Regular(p[k - 1], q[k], t) /\ p[k] = Book(p[k - 1], q[k])
  BY DEF Leads
<1> DEFINE r == Append(q, e)
           s == [k \in 0 .. Len(r) |-> IF k = Len(r) THEN Book(h, e) ELSE p[k]]
<1>3. /\ Len(q) \in Nat /\ Len(r) = Len(q) + 1 /\ r \in Seq(CanonicalEvent) /\ r[Len(r)] = e
      /\ \A k \in 1 .. Len(q) : r[k] = q[k]
      /\ q \o <<e>> = r
  BY <1>1
<1> HIDE DEF r
<1>4. /\ s[0] = g /\ s[Len(r)] = Book(h, e)
      /\ \A k \in 1 .. Len(r) : Regular(s[k - 1], r[k], t) /\ s[k] = Book(s[k - 1], r[k])
  <2>1. s[0] = g /\ s[Len(r)] = Book(h, e)  BY <1>2, <1>3
  <2>2. ASSUME NEW k \in 1 .. Len(r)
        PROVE  Regular(s[k - 1], r[k], t) /\ s[k] = Book(s[k - 1], r[k])
    <3>1. CASE k = Len(r)
      <4>1. s[k - 1] = h /\ s[k] = Book(h, e) /\ r[k] = e  BY <1>2, <1>3, <3>1
      <4> QED  BY <4>1
    <3>2. CASE k # Len(r)
      <4>1. k \in 1 .. Len(q) /\ s[k - 1] = p[k - 1] /\ s[k] = p[k] /\ r[k] = q[k]
        BY <1>3, <2>2, <3>2
      <4> QED  BY <1>2, <4>1
    <3> QED  BY <3>1, <3>2
  <2> QED  BY <2>1, <2>2
<1> HIDE DEF s
<1> QED  BY <1>3, <1>4 DEF Leads, r

LEMMA LeadsTail ==
    ASSUME NEW g, NEW q, NEW h, NEW t, Leads(g, q, h, t), q # <<>>
    PROVE  /\ Head(q) \in CanonicalEvent /\ Regular(g, Head(q), t)
           /\ Leads(Book(g, Head(q)), Tail(q), h, t)
<1>1. q \in Seq(CanonicalEvent)  BY DEF Leads
<1>2. PICK p : /\ p[0] = g /\ p[Len(q)] = h
               /\ \A k \in 1 .. Len(q) :
                     Regular(p[k - 1], q[k], t) /\ p[k] = Book(p[k - 1], q[k])
  BY DEF Leads
<1> DEFINE r == Tail(q)
           s == [k \in 0 .. Len(r) |-> p[k + 1]]
<1>3. /\ Len(q) \in Nat \ {0} /\ Len(r) = Len(q) - 1 /\ r \in Seq(CanonicalEvent)
      /\ \A k \in 1 .. Len(r) : r[k] = q[k + 1]
      /\ Head(q) = q[1] /\ Head(q) \in CanonicalEvent
  BY <1>1
<1> HIDE DEF r
<1>4. Regular(g, Head(q), t) /\ p[1] = Book(g, Head(q))
  <2>1. 1 \in 1 .. Len(q) /\ 1 - 1 = 0  BY <1>3
  <2> QED  BY <1>2, <1>3, <2>1
<1>5. s[0] = Book(g, Head(q)) /\ s[Len(r)] = h
  BY <1>2, <1>3, <1>4
<1>6. ASSUME NEW k \in 1 .. Len(r)
      PROVE  Regular(s[k - 1], r[k], t) /\ s[k] = Book(s[k - 1], r[k])
  <2>1. k + 1 \in 1 .. Len(q) /\ s[k - 1] = p[(k + 1) - 1] /\ s[k] = p[k + 1] /\ r[k] = q[k + 1]
    BY <1>3, <1>6
  <2> QED  BY <1>2, <2>1
<1> HIDE DEF s
<1> QED  BY <1>3, <1>4, <1>5, <1>6 DEF Leads, r
-----------------------------------------------------------------------------
(* The moves: what each event does to a queue's account.                   *)
LEMMA MoveTypes ==
    ASSUME NEW h \in Account
    PROVE  /\ \A x \in Envelopes : WithSeen(h, x) \in Account
           /\ \A i \in BlockIndices : \A x \in Stages : WithStage(h, i, x) \in Account
           /\ \A r \in StopReason : WithStop(h, r) \in Account
           /\ \A n \in Nat : WithSpent(h, n) \in Account
<1>1. \A x \in Envelopes : WithSeen(h, x) \in Account
  BY DEF Account, WithSeen, Envelopes
<1>2. \A i \in BlockIndices : \A x \in Stages : WithStage(h, i, x) \in Account
  BY DEF Account, WithStage
<1>3. \A r \in StopReason : WithStop(h, r) \in Account
  BY DEF Account, WithStop, Envelopes, OneOf
<1>4. \A n \in Nat : WithSpent(h, n) \in Account
  BY DEF Account, WithSpent
<1> QED  BY <1>1, <1>2, <1>3, <1>4

LEMMA MovesOut ==
    ASSUME NEW g, NEW q, NEW e, NEW k, NEW t, Moves(g, q, e, k, t), NEW r,
           r = Append(q, e) \/ r = q \o <<e>>
    PROVE  Leads(g, r, k, t)
BY DEF Moves

LEMMA MoveResponseStart ==
    ASSUME NEW g, NEW q, NEW h \in Account, NEW t, Leads(g, q, h, t), h.seen = {}
    PROVE  Moves(g, q, ResponseStart, WithSeen(h, "ResponseStart"), t)
<1>1. Regular(h, ResponseStart, t) /\ Book(h, ResponseStart) = WithSeen(h, "ResponseStart")
  BY DEF Regular, Book, ResponseStart, Plain
<1> QED  BY <1>1, LeadsOn DEF Moves

LEMMA MoveMessageStart ==
    ASSUME NEW g, NEW q, NEW h \in Account, NEW t, Leads(g, q, h, t), h.seen = {"ResponseStart"}
    PROVE  Moves(g, q, MessageStart, WithSeen(h, "MessageStart"), t)
<1>1. Regular(h, MessageStart, t) /\ Book(h, MessageStart) = WithSeen(h, "MessageStart")
  BY DEF Regular, Book, MessageStart, Plain
<1> QED  BY <1>1, LeadsOn DEF Moves

LEMMA MoveBlockStart ==
    ASSUME NEW g, NEW q, NEW h \in Account, NEW t, Leads(g, q, h, t),
           "MessageStart" \in h.seen, "MessageStop" \notin h.seen,
           NEW i \in BlockIndices, NEW k \in ContentBlockKind, h.stage[i] = "new"
    PROVE  Moves(g, q, ContentBlockStart(i, k),
                 WithStage(h, i, IF k = "ToolCall" THEN "raw" ELSE k), t)
<1>1. /\ Regular(h, ContentBlockStart(i, k), t)
      /\ Book(h, ContentBlockStart(i, k)) = WithStage(h, i, IF k = "ToolCall" THEN "raw" ELSE k)
  BY DEF Regular, Book, ContentBlockStart
<1> QED  BY <1>1, LeadsOn DEF Moves

LEMMA MoveDelta ==
    ASSUME NEW g, NEW q, NEW h \in Account, NEW t, Leads(g, q, h, t),
           "MessageStart" \in h.seen, "MessageStop" \notin h.seen, NEW i \in BlockIndices
    PROVE  /\ h.stage[i] = "Text" => Moves(g, q, BlockEvent("TextDelta", i), h, t)
           /\ h.stage[i] = "Reasoning" => Moves(g, q, BlockEvent("ReasoningDelta", i), h, t)
           /\ h.stage[i] = "named" =>
                 Moves(g, q, BlockEvent("ToolCallArgumentsDelta", i), h, t)
<1>1. ASSUME h.stage[i] = "Text" PROVE Moves(g, q, BlockEvent("TextDelta", i), h, t)
  <2>1. Regular(h, BlockEvent("TextDelta", i), t) /\ Book(h, BlockEvent("TextDelta", i)) = h
    BY <1>1 DEF Regular, Book, BlockEvent
  <2> QED  BY <2>1, LeadsOn DEF Moves
<1>2. ASSUME h.stage[i] = "Reasoning" PROVE Moves(g, q, BlockEvent("ReasoningDelta", i), h, t)
  <2>1. Regular(h, BlockEvent("ReasoningDelta", i), t)
        /\ Book(h, BlockEvent("ReasoningDelta", i)) = h
    BY <1>2 DEF Regular, Book, BlockEvent
  <2> QED  BY <2>1, LeadsOn DEF Moves
<1>3. ASSUME h.stage[i] = "named"
      PROVE  Moves(g, q, BlockEvent("ToolCallArgumentsDelta", i), h, t)
  <2>1. Regular(h, BlockEvent("ToolCallArgumentsDelta", i), t)
        /\ Book(h, BlockEvent("ToolCallArgumentsDelta", i)) = h
    BY <1>3 DEF Regular, Book, BlockEvent
  <2> QED  BY <2>1, LeadsOn DEF Moves
<1> QED  BY <1>1, <1>2, <1>3

LEMMA MoveStage ==
    ASSUME NEW g, NEW q, NEW h \in Account, NEW t, Leads(g, q, h, t),
           "MessageStart" \in h.seen, "MessageStop" \notin h.seen, NEW i \in BlockIndices
    PROVE  /\ h.stage[i] = "raw" =>
                 Moves(g, q, BlockEvent("ToolCallStart", i), WithStage(h, i, "named"), t)
           /\ h.stage[i] = "named" =>
                 Moves(g, q, BlockEvent("ToolCallStop", i), WithStage(h, i, "halted"), t)
           /\ h.stage[i] \in {"Text", "Reasoning", "RedactedReasoning", "halted"} =>
                 Moves(g, q, ContentBlockStop(i), WithStage(h, i, "closed"), t)
<1>1. ASSUME h.stage[i] = "raw"
      PROVE  Moves(g, q, BlockEvent("ToolCallStart", i), WithStage(h, i, "named"), t)
  <2>1. Regular(h, BlockEvent("ToolCallStart", i), t)
        /\ Book(h, BlockEvent("ToolCallStart", i)) = WithStage(h, i, "named")
    BY <1>1 DEF Regular, Book, BlockEvent
  <2> QED  BY <2>1, LeadsOn DEF Moves
<1>2. ASSUME h.stage[i] = "named"
      PROVE  Moves(g, q, BlockEvent("ToolCallStop", i), WithStage(h, i, "halted"), t)
  <2>1. Regular(h, BlockEvent("ToolCallStop", i), t)
        /\ Book(h, BlockEvent("ToolCallStop", i)) = WithStage(h, i, "halted")
    BY <1>2 DEF Regular, Book, BlockEvent
  <2> QED  BY <2>1, LeadsOn DEF Moves
<1>3. ASSUME h.stage[i] \in {"Text", "Reasoning", "RedactedReasoning", "halted"}
      PROVE  Moves(g, q, ContentBlockStop(i), WithStage(h, i, "closed"), t)
  <2>1. Regular(h, ContentBlockStop(i), t) /\ Book(h, ContentBlockStop(i)) = WithStage(h, i, "closed")
    BY <1>3 DEF Regular, Book, ContentBlockStop, BlockEvent
  <2> QED  BY <2>1, LeadsOn DEF Moves
<1> QED  BY <1>1, <1>2, <1>3

LEMMA MoveUsage ==
    ASSUME NEW g, NEW q, NEW h \in Account, NEW t, Leads(g, q, h, t), NEW n \in Nat,
           "ResponseStart" \in h.seen, "ResponseStop" \notin h.seen
    PROVE  Moves(g, q, UsageDelta(n), WithSpent(h, n), t)
<1>1. Regular(h, UsageDelta(n), t)  BY DEF Regular, UsageDelta
<1>2. (CHOOSE m \in {n} : TRUE) = n  OBVIOUS
<1>3. Book(h, UsageDelta(n)) = WithSpent(h, n)  BY <1>2 DEF Book, UsageDelta
<1> QED  BY <1>1, <1>3, LeadsOn DEF Moves

LEMMA MoveMessageStop ==
    ASSUME NEW g, NEW q, NEW h \in Account, NEW t, Leads(g, q, h, t), NEW r \in StopReason,
           "ResponseStart" \in h.seen, "MessageStop" \notin h.seen, "ResponseStop" \notin h.seen,
           AllQuiet(h), Honest(r, t)
    PROVE  Moves(g, q, MessageStop(r), WithStop(h, r), t)
<1>1. Regular(h, MessageStop(r), t) /\ Book(h, MessageStop(r)) = WithStop(h, r)
  BY DEF Regular, Book, MessageStop
<1> QED  BY <1>1, LeadsOn DEF Moves

LEMMA MoveResponseStop ==
    ASSUME NEW g, NEW q, NEW h \in Account, NEW t, Leads(g, q, h, t), NEW u \in OneOf(Nat),
           "ResponseStart" \in h.seen, "MessageStop" \in h.seen, "ResponseStop" \notin h.seen,
           u = {} => h.spent = t.tokens, u # {} => u = {t.tokens}
    PROVE  Moves(g, q, ResponseStop(u), WithSeen(h, "ResponseStop"), t)
<1>1. FinalUsage(h.spent, ResponseStop(u)) = t.tokens
  <2>1. CASE u = {}  BY <2>1 DEF FinalUsage, ResponseStop
  <2>2. CASE u # {}
    <3>1. (CHOOSE m \in {t.tokens} : TRUE) = t.tokens  OBVIOUS
    <3> QED  BY <2>2, <3>1 DEF FinalUsage, ResponseStop
  <2> QED  BY <2>1, <2>2
<1>2. Regular(h, ResponseStop(u), t)  BY <1>1 DEF Regular, ResponseStop
<1>3. Book(h, ResponseStop(u)) = WithSeen(h, "ResponseStop")  BY DEF Book, ResponseStop
<1> QED  BY <1>2, <1>3, LeadsOn DEF Moves
-----------------------------------------------------------------------------
(* The library's recursive operators, on the sequences used here.          *)

(* A set of numbers that is not empty has a least one.                     *)
LEMMA LeastNumber ==
    ASSUME NEW T, T \subseteq Nat, T # {}
    PROVE  \E i \in T : \A j \in T : i <= j
<1>1. PICK i \in T : \A j \in T : ~(<<j, i>> \in OpToRel(<, Nat))
  BY NatLessThanWellFounded, WFMin, Zenon
<1>2. \A j \in T : ~(j < i)
  BY <1>1 DEF OpToRel
<1>. QED  BY <1>2

LEMMA FlattenSteps ==
    ASSUME NEW s, Len(s) \in Nat, Len(s) # 0
    PROVE  \E f : /\ \A i \in 1 .. Len(s) : f[i] = IF i = 1 THEN s[i] ELSE Cat(f[i - 1], s[i])
                  /\ FlattenSeq(s) = f[Len(s)]
<1> DEFINE Reaches(n) == \E f : f = [i \in 1 .. n |-> IF i = 1 THEN s[i] ELSE Cat(f[i - 1], s[i])]
           Bad == {n \in Nat : ~Reaches(n)}
<1>1. Bad = {}
  <2> SUFFICES ASSUME Bad # {} PROVE FALSE  OBVIOUS
  <2> Bad \subseteq Nat  OBVIOUS
  <2> HIDE DEF Bad
  <2>1. PICK n \in Bad : \A m \in Bad : n <= m  BY LeastNumber
  <2>2. n \in Nat /\ ~Reaches(n)  BY <2>1 DEF Bad
  <2>3. CASE n = 0
    <3>1. [i \in 1 .. 0 |-> 0] =
            [i \in 1 .. 0 |-> IF i = 1 THEN s[i] ELSE Cat([j \in 1 .. 0 |-> 0][i - 1], s[i])]
      OBVIOUS
    <3> QED  BY <2>2, <2>3, <3>1
  <2>4. CASE n # 0
    <3>1. n - 1 \in Nat /\ ~(n - 1 \in Bad)  BY <2>1, <2>2, <2>4
    <3>2. Reaches(n - 1)  BY <3>1 DEF Bad
    <3>3. PICK f : f = [i \in 1 .. (n - 1) |-> IF i = 1 THEN s[i] ELSE Cat(f[i - 1], s[i])]
      BY <3>2
    <3> DEFINE h == [i \in 1 .. n |-> IF i = n THEN (IF i = 1 THEN s[i] ELSE Cat(f[i - 1], s[i]))
                                      ELSE f[i]]
    <3>4. ASSUME NEW i \in 1 .. n PROVE h[i] = IF i = 1 THEN s[i] ELSE Cat(h[i - 1], s[i])
      <4>1. CASE i = n /\ i # 1
        <5>1. h[i - 1] = f[i - 1]  BY <2>2, <4>1
        <5> QED  BY <4>1, <5>1
      <4>2. CASE i = n /\ i = 1  BY <4>2
      <4>3. CASE i # n
        <5>1. h[i] = f[i] /\ (i # 1 => h[i - 1] = f[i - 1])  BY <2>2, <3>4, <4>3
        <5>2. i \in 1 .. (n - 1)  BY <2>2, <3>4, <4>3
        <5>3. f[i] = IF i = 1 THEN s[i] ELSE Cat(f[i - 1], s[i])  BY <3>3, <5>2
        <5> QED  BY <5>1, <5>3
      <4> QED  BY <4>1, <4>2, <4>3
    <3>5. h = [i \in 1 .. n |-> IF i = 1 THEN s[i] ELSE Cat(h[i - 1], s[i])]  BY <3>4
    <3> HIDE DEF h
    <3> QED  BY <2>2, <3>5
  <2> QED  BY <2>3, <2>4
<1>2. Reaches(Len(s))  BY <1>1
<1> DEFINE F == CHOOSE f : f = [i \in 1 .. Len(s) |-> IF i = 1 THEN s[i] ELSE Cat(f[i - 1], s[i])]
<1>3. F = [i \in 1 .. Len(s) |-> IF i = 1 THEN s[i] ELSE Cat(F[i - 1], s[i])]  BY <1>2, Zenon
<1>4. FlattenSeq(s) = F[Len(s)]  BY Zenon DEF FlattenSeq, Cat
<1> HIDE DEF F
<1>5. \A i \in 1 .. Len(s) : F[i] = IF i = 1 THEN s[i] ELSE Cat(F[i - 1], s[i])  BY <1>3
<1> QED  BY <1>4, <1>5, Zenon

LEMMA FlattenTwo ==
    ASSUME NEW x, NEW y
    PROVE  FlattenSeq(<<x, y>>) = x \o y
<1> DEFINE s == <<x, y>>
<1>1. Len(s) = 2 /\ s[1] = x /\ s[2] = y  OBVIOUS
<1> HIDE DEF s
<1>2. PICK h : /\ \A i \in 1 .. 2 : h[i] = IF i = 1 THEN s[i] ELSE Cat(h[i - 1], s[i])
               /\ FlattenSeq(s) = h[2]
  BY <1>1, FlattenSteps
<1>3. h[1] = s[1] /\ h[2] = Cat(h[1], s[2])  BY <1>2
<1> QED  BY <1>1, <1>2, <1>3, Zenon DEF s, Cat

(* An option written out as a sequence.                                    *)
LEMMA OptionSeq ==
    /\ SetToSeq({}) = <<>>
    /\ \A x : SetToSeq({x}) = <<x>>
<1>1. SetToSeq({}) = <<>>
  <2>1. Cardinality({}) = 0  BY FS_EmptySet
  <2>2. <<>> \in [1 .. 0 -> {}] /\ IsInjective(<<>>)  BY DEF IsInjective
  <2>3. \A f \in [1 .. 0 -> {}] : f = <<>>  OBVIOUS
  <2> QED  BY <2>1, <2>2, <2>3 DEF SetToSeq
<1>2. ASSUME NEW x PROVE SetToSeq({x}) = <<x>>
  <2>1. Cardinality({x}) = 1  BY FS_Singleton
  <2>2. <<x>> \in [1 .. 1 -> {x}] /\ IsInjective(<<x>>)  BY DEF IsInjective
  <2>3. \A f \in [1 .. 1 -> {x}] : f = <<x>>  OBVIOUS
  <2> QED  BY <2>1, <2>2, <2>3 DEF SetToSeq
<1> QED  BY <1>1, <1>2

(* A fold over one or two entries.                                         *)
LEMMA MaxOne == Max({1}) = 1
BY DEF Max

LEMMA MaxTwo == Max({2}) = 2 /\ Max({1, 2}) = 2
BY DEF Max

LEMMA FoldToolDelta1 ==
    ASSUME NEW a, NEW x
    PROVE  FoldLeft(ToolDelta, a, <<x>>) = ToolDelta(a, x)
<1> DEFINE Tree(f) == f = [s \in SUBSET {1} |->
                            IF s = {} THEN a ELSE ToolDelta(f[s \ {Max(s)}], <<x>>[Max(s)])]
           Leaf == ToolDelta(a, x)
           F == CHOOSE f : Tree(f)
           W == [s \in SUBSET {1} |-> IF s = {} THEN a ELSE Leaf]
<1>1. DOMAIN <<x>> = {1}  OBVIOUS
<1>2. FoldLeft(ToolDelta, a, <<x>>) = F[{1}]  BY <1>1, Zenon DEF FoldLeft, MapThenFoldSet
<1>3. Tree(W)
  <2>1. ASSUME NEW s \in SUBSET {1}, s # {}
        PROVE  Max(s) = 1 /\ s \ {Max(s)} = {} /\ <<x>>[1] = x
    BY <2>1, MaxOne
  <2>2. W[{}] = a  OBVIOUS
  <2> HIDE DEF Leaf
  <2>3. ASSUME NEW s \in SUBSET {1}, s # {}
        PROVE  Leaf = ToolDelta(W[s \ {Max(s)}], <<x>>[Max(s)])
    <3> HIDE DEF W
    <3> QED  BY <2>1, <2>2, <2>3 DEF Leaf
  <2> QED  BY <2>3
<1>4. Tree(F)  BY <1>3, Zenon
<1>5. F[{1}] = ToolDelta(F[{1} \ {Max({1})}], <<x>>[Max({1})]) /\ F[{}] = a  BY <1>4
<1> HIDE DEF F
<1> QED  BY <1>2, <1>5, MaxOne

LEMMA FoldToolDelta2 ==
    ASSUME NEW a, NEW x, NEW y
    PROVE  FoldTools(a, <<x, y>>) = ToolDelta(ToolDelta(a, x), y)
<1> DEFINE Tree(f) == f = [s \in SUBSET {1, 2} |->
                            IF s = {} THEN a ELSE ToolDelta(f[s \ {Max(s)}], <<x, y>>[Max(s)])]
           F == CHOOSE f : Tree(f)
           Left == ToolDelta(a, x)
           Right == ToolDelta(a, y)
           Both == ToolDelta(Left, y)
           W == [s \in SUBSET {1, 2} |->
                   IF s = {} THEN a ELSE IF s = {1} THEN Left
                   ELSE IF s = {2} THEN Right ELSE Both]
<1>1. DOMAIN <<x, y>> = {1, 2} /\ <<x, y>>[1] = x /\ <<x, y>>[2] = y  OBVIOUS
<1>2. FoldTools(a, <<x, y>>) = F[{1, 2}]
  BY <1>1, Zenon DEF FoldTools, FoldLeft, MapThenFoldSet
<1>3. \A s \in SUBSET {1, 2} : s \in {{}, {1}, {2}, {1, 2}}  OBVIOUS
<1>4. W[{}] = a /\ W[{1}] = Left /\ W[{2}] = Right /\ W[{1, 2}] = Both
  <2> HIDE DEF Left, Right, Both
  <2> QED  OBVIOUS
<1>5. Tree(W)
  <2>1. ASSUME NEW s \in SUBSET {1, 2}, s # {}
        PROVE  W[s] = ToolDelta(W[s \ {Max(s)}], <<x, y>>[Max(s)])
    <3> HIDE DEF W
    <3>1. CASE s = {1}
      <4>1. Max(s) = 1 /\ s \ {1} = {}  BY <3>1, MaxOne
      <4> QED  BY <1>1, <1>4, <3>1, <4>1 DEF Left
    <3>2. CASE s = {2}
      <4>1. Max(s) = 2 /\ s \ {2} = {}  BY <3>2, MaxTwo
      <4> QED  BY <1>1, <1>4, <3>2, <4>1 DEF Right
    <3>3. CASE s = {1, 2}
      <4>1. Max(s) = 2 /\ s \ {2} = {1}  BY <3>3, MaxTwo
      <4> QED  BY <1>1, <1>4, <3>3, <4>1 DEF Both
    <3> QED  BY <1>3, <2>1, <3>1, <3>2, <3>3
  <2>2. W = [s \in SUBSET {1, 2} |-> W[s]] /\ W[{}] = a  BY <1>4
  <2> HIDE DEF W
  <2> QED  BY <2>1, <2>2
<1>6. Tree(F)  BY <1>5, Zenon
<1>7. /\ F[{1, 2}] = ToolDelta(F[{1, 2} \ {Max({1, 2})}], <<x, y>>[Max({1, 2})])
      /\ F[{1}] = ToolDelta(F[{1} \ {Max({1})}], <<x, y>>[Max({1})]) /\ F[{}] = a
  <2> HIDE DEF F
  <2> QED  BY <1>6
<1> HIDE DEF F
<1>8. {1, 2} \ {2} = {1} /\ {1} \ {1} = {}  OBVIOUS
<1> QED  BY <1>1, <1>2, <1>7, <1>8, MaxOne, MaxTwo
-----------------------------------------------------------------------------
(* The chat parser.  Its flags are the envelope of the account, its text   *)
(* block has index 0 and its tool blocks the indices 1 and 2.              *)
LEMMA SmallIndices ==
    0 \in BlockIndices /\ 1 \in BlockIndices /\ 2 \in BlockIndices /\ 3 \in BlockIndices
BY StreamingAssumption DEF BlockIndices

LEMMA ChatMessageStart ==
    ASSUME NEW g, NEW a, NEW t, NEW h, ChatAcc(g, a, t, h), a.st.response_start,
           NEW b, b = EnsureMessageStart(a)
    PROVE  /\ ChatIs(b.st, TRUE, TRUE, a.st.message_stop, a.st.response_stop, a.st.completed,
                     a.st.text_open, a.st.open_tools)
           /\ ChatTo(g, b, t, h, {})
<1> USE DEF ChatAcc, ChatIs, ChatTo
<1>1. a.st \in ChatState /\ h \in Account  BY DEF ChatHeld
<1>2. CASE a.st.message_start
  <2>1. b = a  BY <1>2 DEF EnsureMessageStart, Ensure
  <2> QED  BY <1>1, <1>2, <2>1 DEF ChatState
<1>3. CASE ~a.st.message_start
  <2> DEFINE k == WithSeen(h, "MessageStart")
  <2>1. /\ Shaped(b) /\ b.out = Append(a.out, MessageStart)
        /\ ChatIs(b.st, TRUE, TRUE, a.st.message_stop, a.st.response_stop, a.st.completed,
                     a.st.text_open, a.st.open_tools)
    BY <1>1, <1>3 DEF EnsureMessageStart, Ensure, ChatState, Shaped
  <2>2. h.seen = {"ResponseStart"}
    BY <1>1, <1>3 DEF ChatHeld, Flags, Account, Envelopes
  <2>3. Moves(g, a.out, MessageStart, k, t)  BY <1>1, <2>2, MoveMessageStart
  <2>4. Leads(g, b.out, k, t)  BY <2>1, <2>3, MovesOut
  <2>5. k \in Account  BY <1>1, MoveTypes DEF Envelopes
  <2>6. /\ k.stage = h.stage /\ k.spent = h.spent /\ k.stop = h.stop
        /\ k.seen = {"ResponseStart", "MessageStart"}  BY <2>2 DEF WithSeen
  <2> HIDE DEF k
  <2>7. ChatHeld(b.st, k)
    <3>1. Flags(b.st, k)  BY <1>3, <2>1, <2>2, <2>6 DEF ChatHeld, Flags
    <3> QED  BY <1>3, <2>1, <2>5, <2>6, <3>1 DEF ChatHeld
  <2> QED  BY <2>1, <2>4, <2>6, <2>7 
<1> QED  BY <1>2, <1>3

LEMMA ChatResponseStart ==
    ASSUME NEW g, NEW a, NEW t, NEW h, ChatAcc(g, a, t, h),
           NEW b, b = Ensure(a, "response_start", ResponseStart)
    PROVE  /\ ChatIs(b.st, TRUE, a.st.message_start, a.st.message_stop, a.st.response_stop,
                     a.st.completed, a.st.text_open, a.st.open_tools)
           /\ ChatTo(g, b, t, h, {})
<1> USE DEF ChatAcc, ChatIs, ChatTo
<1>1. a.st \in ChatState /\ h \in Account  BY DEF ChatHeld
<1>2. CASE a.st.response_start
  <2>1. b = a  BY <1>2 DEF Ensure
  <2> QED  BY <1>1, <1>2, <2>1 DEF ChatState
<1>3. CASE ~a.st.response_start
  <2> DEFINE k == WithSeen(h, "ResponseStart")
  <2>1. /\ Shaped(b) /\ b.out = Append(a.out, ResponseStart)
        /\ ChatIs(b.st, TRUE, a.st.message_start, a.st.message_stop, a.st.response_stop,
                  a.st.completed, a.st.text_open, a.st.open_tools)
    BY <1>1, <1>3 DEF Ensure, ChatState, Shaped
  <2>2. h.seen = {}
    BY <1>1, <1>3 DEF ChatHeld, Flags, Account, Envelopes
  <2>3. Moves(g, a.out, ResponseStart, k, t)  BY <1>1, <2>2, MoveResponseStart
  <2>4. Leads(g, b.out, k, t)  BY <2>1, <2>3, MovesOut
  <2>5. k \in Account  BY <1>1, MoveTypes DEF Envelopes
  <2>6. /\ k.stage = h.stage /\ k.spent = h.spent /\ k.stop = h.stop
        /\ k.seen = {"ResponseStart"}
    BY <2>2 DEF WithSeen
  <2> HIDE DEF k
  <2>7. ChatHeld(b.st, k)
    <3>1. Flags(b.st, k)  BY <1>3, <2>1, <2>2, <2>6 DEF ChatHeld, Flags
    <3> QED  BY <1>3, <2>1, <2>5, <2>6, <3>1 DEF ChatHeld
  <2> QED  BY <2>1, <2>4, <2>6, <2>7
<1> QED  BY <1>2, <1>3

LEMMA ChatCloseText ==
    ASSUME NEW g, NEW a, NEW t, NEW h, ChatAcc(g, a, t, h), NEW b, b = CloseText(a)
    PROVE  /\ ChatIs(b.st, a.st.response_start, a.st.message_start, a.st.message_stop,
                     a.st.response_stop, a.st.completed, FALSE, a.st.open_tools)
           /\ ChatTo(g, b, t, h, {0})
<1> USE DEF ChatAcc, ChatIs, ChatTo
<1>1. a.st \in ChatState /\ h \in Account  BY DEF ChatHeld
<1>2. CASE ~a.st.text_open
  <2>1. b = a  BY <1>2 DEF CloseText
  <2> QED  BY <1>1, <1>2, <2>1 DEF ChatState
<1>3. CASE a.st.text_open
  <2> DEFINE k == WithStage(h, 0, "closed")
  <2>1. /\ Shaped(b) /\ b.out = Append(a.out, ContentBlockStop(0))
        /\ ChatIs(b.st, a.st.response_start, a.st.message_start, a.st.message_stop,
                  a.st.response_stop, a.st.completed, FALSE, a.st.open_tools)
    BY <1>1, <1>3 DEF CloseText, ChatState, Shaped
  <2>2. /\ "MessageStart" \in h.seen /\ "MessageStop" \notin h.seen /\ h.stage[0] = "Text"
    BY <1>1, <1>3 DEF ChatHeld, Flags, ChatState
  <2>3. Moves(g, a.out, ContentBlockStop(0), k, t)  BY <1>1, <2>2, MoveStage, SmallIndices
  <2>4. Leads(g, b.out, k, t)  BY <2>1, <2>3, MovesOut
  <2>5. k \in Account  BY <1>1, MoveTypes, SmallIndices DEF Stages
  <2>6. /\ k.stage[0] = "closed" /\ \A i \in BlockIndices \ {0} : k.stage[i] = h.stage[i]
        /\ k.seen = h.seen /\ k.stop = h.stop /\ k.spent = h.spent
    BY <1>1, SmallIndices DEF WithStage, Account
  <2> HIDE DEF k
  <2>7. ChatHeld(b.st, k)
    <3>1. Flags(b.st, k)  BY <1>3, <2>1, <2>2, <2>6 DEF ChatHeld, Flags
    <3> QED  BY <1>3, <2>1, <2>5, <2>6, <3>1, SmallIndices DEF ChatHeld, ChatState
  <2> QED  BY <2>1, <2>4, <2>6, <2>7
<1> QED  BY <1>2, <1>3

LEMMA FoldTools2 ==
    ASSUME NEW a, NEW s, NEW x, NEW y, s = <<x, y>>
    PROVE  FoldTools(a, s) = ToolDelta(ToolDelta(a, x), y)
BY FoldToolDelta2

(* Two more events, a tool block closed, one sequence after another.       *)
LEMMA Thirds ==
    ASSUME NEW p \in Seq(CanonicalEvent), NEW q \in Seq(CanonicalEvent),
           NEW r \in Seq(CanonicalEvent)
    PROVE  p \o (q \o r) = (p \o q) \o r
OBVIOUS

LEMMA Pairs ==
    ASSUME NEW q \in Seq(CanonicalEvent), NEW x \in CanonicalEvent, NEW y \in CanonicalEvent
    PROVE  q \o <<x, y>> = (q \o <<x>>) \o <<y>>
<1>1. <<x, y>> = <<x>> \o <<y>> /\ <<x>> \in Seq(CanonicalEvent) /\ <<y>> \in Seq(CanonicalEvent)
  <2>1. <<x>> \in Seq(CanonicalEvent) /\ Len(<<x>>) = 1 /\ <<x>>[1] = x  OBVIOUS
  <2>2. <<y>> \in Seq(CanonicalEvent) /\ Len(<<y>>) = 1 /\ <<y>>[1] = y  OBVIOUS
  <2>3. <<x, y>> \in Seq(CanonicalEvent) /\ Len(<<x, y>>) = 2
        /\ <<x, y>>[1] = x /\ <<x, y>>[2] = y
    OBVIOUS
  <2> DEFINE r == <<x>> \o <<y>>
             s == <<x, y>>
  <2>4. r \in Seq(CanonicalEvent) /\ Len(r) = 2 /\ r[1] = x /\ r[2] = y
    BY <2>1, <2>2
  <2>5. \A i \in 1 .. 2 : r[i] = s[i]  BY <2>3, <2>4
  <2> HIDE DEF r, s
  <2>6. r = s  BY <2>3, <2>4, <2>5 DEF s
  <2> QED  BY <2>1, <2>2, <2>6 DEF r, s
<1>2. q \o (<<x>> \o <<y>>) = (q \o <<x>>) \o <<y>>  BY <1>1, Thirds
<1> QED  BY <1>1, <1>2, Zenon

LEMMA ToolEventTypes ==
    ASSUME NEW i \in BlockIndices
    PROVE  /\ BlockEvent("ToolCallStop", i) \in CanonicalEvent
           /\ ContentBlockStop(i) \in CanonicalEvent
           /\ CloseTool(i) \in Seq(CanonicalEvent)
<1>1. BlockEvent("ToolCallStop", i) \in CanonicalEvent /\ ContentBlockStop(i) \in CanonicalEvent
  BY DEF BlockEvent, ContentBlockStop, CanonicalEvent, BlockIndices
<1> QED  BY <1>1 DEF CloseTool

LEMMA MoveCloseTool ==
    ASSUME NEW g, NEW q, NEW h \in Account, NEW t, Leads(g, q, h, t),
           "MessageStart" \in h.seen, "MessageStop" \notin h.seen, NEW i \in BlockIndices,
           h.stage[i] = "named"
    PROVE  Leads(g, q \o CloseTool(i), WithStage(h, i, "closed"), t)
<1> DEFINE k == WithStage(h, i, "halted")
           x == BlockEvent("ToolCallStop", i)
           y == ContentBlockStop(i)
<1>1. Moves(g, q, x, k, t)  BY MoveStage
<1>2. k \in Account /\ k.seen = h.seen /\ k.stage[i] = "halted"
  BY MoveTypes DEF Stages, WithStage, Account
<1>3. WithStage(k, i, "closed") = WithStage(h, i, "closed")  BY DEF WithStage, Account
<1> HIDE DEF k
<1>4. Moves(g, q \o <<x>>, y, WithStage(k, i, "closed"), t)
  <2>1. Leads(g, q \o <<x>>, k, t)  BY <1>1 DEF Moves
  <2> HIDE DEF x
  <2> QED  BY <1>2, <2>1, MoveStage
<1>5. q \in Seq(CanonicalEvent) /\ x \in CanonicalEvent /\ y \in CanonicalEvent
  BY ToolEventTypes DEF Leads
<1>6. q \o CloseTool(i) = (q \o <<x>>) \o <<y>>
  <2>1. CloseTool(i) = <<x, y>>  BY DEF CloseTool
  <2> HIDE DEF x, y
  <2> QED  BY <1>5, <2>1, Pairs
<1> HIDE DEF x, y
<1> QED  BY <1>3, <1>4, <1>6 DEF Moves

LEMMA MoveDrain ==
    ASSUME NEW g, NEW q, NEW h \in Account, NEW t, Leads(g, q, h, t),
           "MessageStart" \in h.seen, "MessageStop" \notin h.seen, NEW i \in BlockIndices, NEW T,
           i \in T => h.stage[i] = "named",
           i \notin T => h.stage[i] \in {"new", "closed"}
    PROVE  /\ Drained(i, T) \in Seq(CanonicalEvent)
           /\ \E k : Leads(g, q \o Drained(i, T), k, t) /\ Rests(h, k, i)
<1>1. CASE i \in T
  <2> DEFINE k == WithStage(h, i, "closed")
  <2>1. Rests(h, k, i)  BY MoveTypes DEF Stages, WithStage, Account, Rests
  <2>2. Leads(g, q \o CloseTool(i), k, t)  BY <1>1, MoveCloseTool
  <2> HIDE DEF k
  <2>3. Drained(i, T) = CloseTool(i)  BY <1>1 DEF Drained, When
  <2> QED  BY <2>1, <2>2, <2>3, ToolEventTypes
<1>2. CASE i \notin T
  <2>1. q \o <<>> = q  BY DEF Leads
  <2>2. Drained(i, T) = <<>>  BY <1>2 DEF Drained, When
  <2>3. Rests(h, h, i)  BY <1>2 DEF Rests
  <2> QED  BY <2>1, <2>2, <2>3
<1> QED  BY <1>1, <1>2

LEMMA ChatDrainTools ==
    ASSUME NEW g, NEW a, NEW t, NEW h, ChatAcc(g, a, t, h), NEW order \in Orders,
           NEW b, b = DrainTools(a, order)
    PROVE  /\ ChatIs(b.st, a.st.response_start, a.st.message_start, a.st.message_stop,
                     a.st.response_stop, a.st.completed, a.st.text_open, {})
           /\ ChatTo(g, b, t, h, {1, 2})
<1> USE DEF ChatAcc, ChatIs, ChatTo
<1> DEFINE T == a.st.open_tools
<1>1. a.st \in ChatState /\ h \in Account /\ a.out \in Seq(CanonicalEvent)
  BY DEF ChatHeld, Leads
<1>2. PICK m \in {1, 2}, n \in {1, 2} : order = <<m, n>> /\ m # n  BY DEF Orders
<1>3. /\ ChatIs(b.st, a.st.response_start, a.st.message_start, a.st.message_stop,
                a.st.response_stop, a.st.completed, a.st.text_open, {})
      /\ Shaped(b)
      /\ b.out = a.out \o FlattenSeq([k \in DOMAIN order |-> Drained(order[k], T)])
  BY <1>1 DEF DrainTools, ChatState, Drained, Shaped
<1>4. [k \in DOMAIN order |-> Drained(order[k], T)] = <<Drained(m, T), Drained(n, T)>>  BY <1>2
<1>5. b.out = a.out \o (Drained(m, T) \o Drained(n, T))
  <2>1. FlattenSeq(<<Drained(m, T), Drained(n, T)>>) = Drained(m, T) \o Drained(n, T)
    BY FlattenTwo
  <2> QED  BY <1>3, <1>4, <2>1, Zenon
<1>6. CASE T = {}
  <2>1. Drained(m, T) = <<>> /\ Drained(n, T) = <<>>  BY <1>6 DEF Drained, When
  <2>2. b.out = a.out  BY <1>1, <1>5, <2>1
  <2>3. ChatHeld(b.st, h)  BY <1>1, <1>3, <1>6 DEF ChatHeld, Flags
  <2> QED  BY <1>3, <2>2, <2>3
<1>7. CASE T # {}
  <2>1. "MessageStart" \in h.seen /\ "MessageStop" \notin h.seen
    BY <1>1, <1>7 DEF ChatHeld, Flags, ChatState
  <2>2. \A i \in {1, 2} : /\ i \in T => h.stage[i] = "named"
                          /\ i \notin T => h.stage[i] \in {"new", "closed"}
    BY <1>1 DEF ChatHeld, ChatState
  <2>3. m \in BlockIndices /\ n \in BlockIndices  BY <1>2, SmallIndices
  <2> HIDE DEF T
  <2>4. /\ Drained(m, T) \in Seq(CanonicalEvent)
        /\ \E j : Leads(g, a.out \o Drained(m, T), j, t) /\ Rests(h, j, m)
    BY <1>1, <2>1, <2>2, <2>3, MoveDrain
  <2>5. PICK j : Leads(g, a.out \o Drained(m, T), j, t) /\ Rests(h, j, m)  BY <2>4
  <2>6. /\ n \in T => j.stage[n] = "named"
        /\ n \notin T => j.stage[n] \in {"new", "closed"}
        /\ "MessageStart" \in j.seen /\ "MessageStop" \notin j.seen /\ j \in Account
    BY <1>2, <2>1, <2>2, <2>3, <2>5 DEF Rests
  <2>7. /\ Drained(n, T) \in Seq(CanonicalEvent)
        /\ \E k : Leads(g, (a.out \o Drained(m, T)) \o Drained(n, T), k, t) /\ Rests(j, k, n)
    BY <2>3, <2>5, <2>6, MoveDrain
  <2>8. PICK k : Leads(g, (a.out \o Drained(m, T)) \o Drained(n, T), k, t) /\ Rests(j, k, n)
    BY <2>7
  <2>9. Leads(g, b.out, k, t)
    <3>1. a.out \o (Drained(m, T) \o Drained(n, T)) = (a.out \o Drained(m, T)) \o Drained(n, T)
      BY <1>1, <2>4, <2>7, Thirds
    <3> QED  BY <1>5, <2>8, <3>1, Zenon
  <2>10. /\ k \in Account /\ k.seen = h.seen /\ k.stop = h.stop /\ k.spent = h.spent
         /\ k.stage[1] \in {"new", "closed"} /\ k.stage[2] \in {"new", "closed"}
         /\ \A i \in BlockIndices \ {1, 2} : k.stage[i] = h.stage[i]
    BY <1>2, <2>3, <2>5, <2>8 DEF Rests
  <2>11. ChatHeld(b.st, k)
    <3>1. Flags(b.st, k)  BY <1>3, <2>10 DEF ChatHeld, Flags
    <3> QED  BY <1>3, <2>10, <3>1, SmallIndices DEF ChatHeld, ChatState
  <2> QED  BY <1>3, <2>9, <2>10, <2>11
<1> QED  BY <1>6, <1>7

(* No block of the message is open.                                        *)
LEMMA ChatQuiet ==
    ASSUME NEW st, NEW h, ChatHeld(st, h), ~st.text_open, st.open_tools = {}
    PROVE  AllQuiet(h)
BY SmallIndices DEF ChatHeld, AllQuiet

LEMMA ChatMessageStop ==
    ASSUME NEW g, NEW a, NEW t, NEW h, ChatAcc(g, a, t, h), a.st.message_start,
           ~a.st.text_open, a.st.open_tools = {}, NEW r \in StopReason,
           a.st.message_stop \/ Honest(r, t),
           NEW b, b = Ensure(a, "message_stop", MessageStop(r))
    PROVE  /\ ChatIs(b.st, a.st.response_start, a.st.message_start, TRUE, a.st.response_stop,
                     a.st.completed, FALSE, {})
           /\ ChatTo(g, b, t, h, BlockIndices)
<1> USE DEF ChatAcc, ChatIs, ChatTo
<1>1. a.st \in ChatState /\ h \in Account  BY DEF ChatHeld
<1>2. CASE a.st.message_stop
  <2>1. b = a  BY <1>2 DEF Ensure
  <2> QED  BY <1>1, <1>2, <2>1 DEF ChatState
<1>3. CASE ~a.st.message_stop
  <2> DEFINE k == WithStop(h, r)
  <2>1. /\ Shaped(b) /\ b.out = Append(a.out, MessageStop(r))
        /\ ChatIs(b.st, a.st.response_start, a.st.message_start, TRUE, a.st.response_stop,
                     a.st.completed, FALSE, {})
    BY <1>1, <1>3 DEF Ensure, ChatState, Shaped
  <2>2. /\ "ResponseStart" \in h.seen /\ "MessageStop" \notin h.seen
        /\ "ResponseStop" \notin h.seen /\ AllQuiet(h)
    BY <1>1, <1>3, ChatQuiet DEF ChatHeld, Flags
  <2>3. Moves(g, a.out, MessageStop(r), k, t)  BY <1>1, <1>3, <2>2, MoveMessageStop
  <2>4. Leads(g, b.out, k, t)  BY <2>1, <2>3, MovesOut
  <2>5. k \in Account  BY <1>1, MoveTypes
  <2>6. /\ k.stage = h.stage /\ k.spent = h.spent /\ k.stop = {r}
        /\ k.seen = h.seen \cup {"MessageStop"}
    BY DEF WithStop
  <2> HIDE DEF k
  <2>7. ChatHeld(b.st, k)
    <3>1. Flags(b.st, k)  BY <1>3, <2>1, <2>6 DEF ChatHeld, Flags
    <3> QED  BY <1>3, <2>1, <2>5, <2>6, <3>1 DEF ChatHeld
  <2> QED  BY <2>1, <2>4, <2>6, <2>7
<1> QED  BY <1>2, <1>3

LEMMA ChatResponseStop ==
    ASSUME NEW g, NEW a, NEW t, NEW h, ChatAcc(g, a, t, h), a.st.message_stop,
           h.spent = t.tokens,
           NEW b, b = Ensure(a, "response_stop", ResponseStop({}))
    PROVE  /\ ChatIs(b.st, TRUE, TRUE, TRUE, TRUE, a.st.completed, FALSE, {})
           /\ ChatTo(g, b, t, h, BlockIndices)
<1> USE DEF ChatAcc, ChatIs, ChatTo
<1>1. a.st \in ChatState /\ h \in Account  BY DEF ChatHeld
<1>2. CASE a.st.response_stop
  <2>1. b = a  BY <1>2 DEF Ensure
  <2> QED  BY <1>1, <1>2, <2>1 DEF ChatState, ChatHeld, Flags
<1>3. CASE ~a.st.response_stop
  <2> DEFINE k == WithSeen(h, "ResponseStop")
  <2>1. /\ Shaped(b) /\ b.out = Append(a.out, ResponseStop({}))
        /\ ChatIs(b.st, TRUE, TRUE, TRUE, TRUE, a.st.completed, FALSE, {})
    BY <1>1, <1>3 DEF Ensure, ChatState, ChatHeld, Flags, Shaped
  <2>2. /\ "ResponseStart" \in h.seen /\ "MessageStop" \in h.seen
        /\ "ResponseStop" \notin h.seen
    BY <1>1, <1>3 DEF ChatHeld, Flags
  <2>3. Moves(g, a.out, ResponseStop({}), k, t)
    BY <1>1, <1>3, <2>2, MoveResponseStop DEF OneOf
  <2>4. Leads(g, b.out, k, t)  BY <2>1, <2>3, MovesOut
  <2>5. k \in Account  BY <1>1, MoveTypes DEF Envelopes
  <2>6. /\ k.stage = h.stage /\ k.spent = h.spent /\ k.stop = h.stop
        /\ k.seen = h.seen \cup {"ResponseStop"}
    BY DEF WithSeen
  <2> HIDE DEF k
  <2>7. ChatHeld(b.st, k)
    <3>1. Flags(b.st, k)  BY <1>3, <2>1, <2>6 DEF ChatHeld, Flags
    <3> QED  BY <1>3, <2>1, <2>5, <2>6, <3>1 DEF ChatHeld
  <2> QED  BY <2>1, <2>4, <2>6, <2>7
<1> QED  BY <1>2, <1>3

LEMMA ChatContentDelta ==
    ASSUME NEW g, NEW a, NEW t, NEW h, ChatAcc(g, a, t, h), a.st.response_start,
           ~a.st.message_stop, ~a.st.text_open => h.stage[0] = "new",
           NEW b, b = ContentDelta(a)
    PROVE  /\ ChatIs(b.st, TRUE, TRUE, FALSE, FALSE, a.st.completed, TRUE, a.st.open_tools)
           /\ ChatTo(g, b, t, h, {0})
<1> DEFINE c == EnsureMessageStart(a)
           d == IF c.st.text_open THEN c
                ELSE [st |-> [c.st EXCEPT !.text_open = TRUE],
                      out |-> Append(c.out, ContentBlockStart(0, "Text"))]
           e == BlockEvent("TextDelta", 0)
<1>1. b = Say(d, <<e>>) /\ c = EnsureMessageStart(a)  BY DEF ContentDelta
<1> HIDE DEF c, e
<1>2. /\ ChatIs(c.st, TRUE, TRUE, a.st.message_stop, a.st.response_stop, a.st.completed,
                a.st.text_open, a.st.open_tools)
      /\ ChatTo(g, c, t, h, {})
  BY <1>1, ChatMessageStart
<1>3. PICK m : /\ ChatAcc(g, c, t, m) /\ m.spent = h.spent
               /\ \A i \in BlockIndices : m.stage[i] = h.stage[i]
  BY <1>2 DEF ChatTo
<1>4. c.st \in ChatState /\ m \in Account /\ ~c.st.message_stop /\ ~c.st.response_stop
  BY <1>2, <1>3 DEF ChatAcc, ChatHeld, ChatIs, Flags
<1>5. /\ ChatIs(d.st, TRUE, TRUE, FALSE, FALSE, a.st.completed, TRUE, a.st.open_tools)
      /\ Shaped(d)
      /\ \E k : /\ Leads(g, d.out, k, t) /\ ChatHeld(d.st, k) /\ k.spent = h.spent
                /\ \A i \in BlockIndices \ {0} : k.stage[i] = h.stage[i]
  <2>1. CASE c.st.text_open
    <3>1. d = c  BY <2>1
    <3> HIDE DEF d
    <3>2. ChatIs(d.st, TRUE, TRUE, FALSE, FALSE, a.st.completed, TRUE, a.st.open_tools)
      BY <1>2, <1>4, <2>1, <3>1 DEF ChatIs, ChatState
    <3> QED  BY <1>3, <3>1, <3>2 DEF ChatAcc
  <2>2. CASE ~c.st.text_open
    <3> DEFINE k == WithStage(m, 0, "Text")
    <3>1. /\ Shaped(d) /\ d.out = Append(c.out, ContentBlockStart(0, "Text"))
          /\ ChatIs(d.st, TRUE, TRUE, FALSE, FALSE, a.st.completed, TRUE, a.st.open_tools)
      BY <1>2, <1>4, <2>2 DEF ChatIs, ChatState, Shaped
    <3> HIDE DEF d
    <3>2. /\ "MessageStart" \in m.seen /\ "MessageStop" \notin m.seen /\ m.stage[0] = "new"
      BY SmallIndices, <1>2, <1>3, <1>4, <2>2 DEF ChatAcc, ChatHeld, Flags, ChatIs
    <3>3. Moves(g, c.out, ContentBlockStart(0, "Text"), k, t)
      BY <1>3, <1>4, <3>2, MoveBlockStart, SmallIndices DEF ContentBlockKind, ChatAcc
    <3>4. Leads(g, d.out, k, t)  BY <3>1, <3>3, MovesOut
    <3>5. k \in Account  BY <1>4, MoveTypes, SmallIndices DEF Stages, ContentBlockKind
    <3>6. /\ k.stage[0] = "Text" /\ \A i \in BlockIndices \ {0} : k.stage[i] = m.stage[i]
          /\ k.seen = m.seen /\ k.stop = m.stop /\ k.spent = m.spent
      BY <1>4, SmallIndices DEF WithStage, Account
    <3> HIDE DEF k
    <3>7. ChatHeld(d.st, k)
      <4>1. Flags(d.st, k)  BY <1>2, <1>3, <1>4, <3>1, <3>6 DEF ChatHeld, Flags, ChatAcc, ChatIs
      <4> QED  BY <1>2, <1>3, <1>4, <3>1, <3>5, <3>6, <4>1, SmallIndices
               DEF ChatHeld, ChatState, ChatIs, ChatAcc
    <3> QED  BY <1>3, <3>1, <3>4, <3>6, <3>7
  <2> QED  BY <2>1, <2>2
<1> HIDE DEF d
<1>6. PICK k : /\ Leads(g, d.out, k, t) /\ ChatHeld(d.st, k) /\ k.spent = h.spent
               /\ \A i \in BlockIndices \ {0} : k.stage[i] = h.stage[i]
  BY <1>5
<1>7. Shaped(b) /\ b.st = d.st /\ b.out = d.out \o <<e>>
  BY <1>1, <1>5 DEF Say, Shaped
<1>8. /\ k \in Account /\ "MessageStart" \in k.seen /\ "MessageStop" \notin k.seen
      /\ k.stage[0] = "Text"
  BY <1>5, <1>6 DEF ChatHeld, Flags, ChatIs
<1>9. Moves(g, d.out, e, k, t)  BY <1>6, <1>8, MoveDelta, SmallIndices DEF e
<1>10. Leads(g, b.out, k, t)  BY <1>7, <1>9, MovesOut
<1> QED  BY <1>5, <1>6, <1>7, <1>10 DEF ChatAcc, ChatTo

LEMMA ChatToolDelta ==
    ASSUME NEW g, NEW a, NEW t, NEW h, ChatAcc(g, a, t, h), a.st.message_start,
           ~a.st.message_stop, NEW i \in {1, 2}, NEW tc, ChatCall(tc, i, a.st.open_tools),
           i \notin a.st.open_tools => h.stage[i] = "new",
           NEW b, b = ToolDelta(a, tc)
    PROVE  ChatCalled(g, a, b, t, h, i)
<1> USE DEF ChatCall, ChatCalled
<1> DEFINE x == ContentBlockStart(i, "ToolCall")
           y == BlockEvent("ToolCallStart", i)
           z == BlockEvent("ToolCallArgumentsDelta", i)
<1>1. a.st \in ChatState /\ h \in Account /\ i \in {1, 2} /\ i \in BlockIndices
  BY SmallIndices DEF ChatHeld, ChatAcc
<1>2. /\ "MessageStart" \in h.seen /\ "MessageStop" \notin h.seen /\ Leads(g, a.out, h, t)
      /\ a.out \in Seq(CanonicalEvent)
  BY DEF ChatHeld, ChatAcc, Flags, Leads
<1>3. /\ ChatIs(b.st, TRUE, TRUE, FALSE, FALSE, a.st.completed, a.st.text_open,
                a.st.open_tools \cup {i})
      /\ Shaped(b)
  BY <1>1 DEF ToolDelta, ChatState, ChatIs, ChatAcc, ChatHeld, Flags, Shaped
<1>4. CASE i \notin a.st.open_tools
  <2>1. b.out = ((a.out \o <<x>>) \o <<y>>) \o <<>>
    BY <1>4 DEF ToolDelta, When
  <2> DEFINE j == WithStage(h, i, "raw")
             k == WithStage(j, i, "named")
  <2>2. j \in Account /\ k \in Account  BY <1>1, MoveTypes DEF Stages
  <2>3. j.seen = h.seen /\ j.stage[i] = "raw"  BY <1>1 DEF WithStage, Account
  <2>4. /\ k.seen = h.seen /\ k.stop = h.stop /\ k.spent = h.spent /\ k.stage[i] = "named"
        /\ \A l \in BlockIndices \ {i} : k.stage[l] = h.stage[l]
    BY <1>1 DEF WithStage, Account
  <2>5. Moves(g, a.out, x, j, t)
    <3>1. Moves(g, a.out, x, WithStage(h, i, IF "ToolCall" = "ToolCall" THEN "raw" ELSE "ToolCall"), t)
      BY <1>1, <1>2, <1>4, MoveBlockStart DEF ContentBlockKind
    <3> QED  BY <3>1
  <2> HIDE DEF x, y, j
  <2>6. Leads(g, a.out \o <<x>>, j, t)  BY <2>5, MovesOut
  <2>7. Moves(g, a.out \o <<x>>, y, k, t)  BY <1>1, <1>2, <2>2, <2>3, <2>6, MoveStage DEF y
  <2> HIDE DEF k
  <2>8. Leads(g, (a.out \o <<x>>) \o <<y>>, k, t)  BY <2>7, MovesOut
  <2>9. b.out = (a.out \o <<x>>) \o <<y>>
    <3> DEFINE q == (a.out \o <<x>>) \o <<y>>
    <3>1. q \in Seq(CanonicalEvent)  BY <2>8 DEF Leads
    <3>2. b.out = q \o <<>>  BY <2>1
    <3> HIDE DEF q
    <3>3. b.out = q  BY <3>1, <3>2
    <3> QED  BY <3>3 DEF q
  <2>10. Leads(g, b.out, k, t)  BY <2>8, <2>9, Zenon
  <2>11. ChatHeld(b.st, k)
    <3>1. Flags(b.st, k)  BY <1>3, <2>4 DEF ChatHeld, Flags, ChatAcc, ChatIs
    <3> QED  BY <1>1, <1>3, <2>2, <2>4, <3>1, SmallIndices DEF ChatHeld, ChatState, ChatAcc, ChatIs
  <2> QED  BY <1>3, <2>4, <2>10, <2>11 DEF ChatTo, ChatAcc
<1>5. CASE i \in a.st.open_tools
  <2>1. b.out = ((a.out \o <<>>) \o <<>>) \o <<z>>
    BY <1>5 DEF ToolDelta, When
  <2>2. b.out = a.out \o <<z>>
    <3>1. a.out \o <<>> = a.out  BY <1>2
    <3> QED  BY <2>1, <3>1, Zenon
  <2>3. h.stage[i] = "named"  BY <1>5 DEF ChatAcc, ChatHeld
  <2>4. Moves(g, a.out, z, h, t)  BY <1>1, <1>2, <2>3, MoveDelta
  <2> HIDE DEF z
  <2>5. Leads(g, b.out, h, t)  BY <2>2, <2>4, MovesOut
  <2>6. ChatHeld(b.st, h)
    <3>1. Flags(b.st, h)  BY <1>3 DEF ChatHeld, Flags, ChatAcc, ChatIs
    <3> QED  BY <1>1, <1>3, <1>5, <3>1 DEF ChatHeld, ChatState, ChatAcc, ChatIs
  <2> QED  BY <1>3, <2>5, <2>6 DEF ChatTo, ChatAcc
<1> QED  BY <1>4, <1>5

(* `completed` is set in the state of an accumulator.                      *)
LEMMA Said ==
    ASSUME NEW f, Shaped(f), NEW e, NEW b, b = Say(f, e)
    PROVE  Shaped(b) /\ b.st = f.st /\ b.out = Cat(f.out, e)
<1> DEFINE r == Cat(f.out, e)
<1>1. b = [f EXCEPT !.out = r]  BY DEF Say, Cat
<1> HIDE DEF r
<1>2. b.st = f.st /\ b.out = r /\ Shaped(b)  BY <1>1 DEF Shaped
<1> QED  BY <1>2 DEF r

LEMMA MarkedAs ==
    ASSUME NEW f, Shaped(f), NEW b, b = [f EXCEPT !.st.completed = TRUE]
    PROVE  Shaped(b) /\ b.st = [f.st EXCEPT !.completed = TRUE] /\ b.out = f.out
<1> DEFINE r == [f.st EXCEPT !.completed = TRUE]
<1>1. b = [f EXCEPT !.st = r]  OBVIOUS
<1> HIDE DEF r
<1>2. b.st = r /\ b.out = f.out /\ Shaped(b)  BY <1>1 DEF Shaped
<1> QED  BY <1>2 DEF r

LEMMA ChatWrap ==
    ASSUME NEW g, NEW a, NEW t, NEW h, ChatAcc(g, a, t, h), a.st.response_start,
           h.spent = t.tokens, NEW order \in Orders, a.st.message_stop \/ Honest("EndTurn", t),
           NEW b, b = Wrap(a, order)
    PROVE  /\ ChatIs(b.st, TRUE, TRUE, TRUE, TRUE, a.st.completed, FALSE, {})
           /\ ChatTo(g, b, t, h, BlockIndices)
<1> DEFINE c == EnsureMessageStart(a)
           d == CloseText(c)
           e == DrainTools(d, order)
           f == Ensure(e, "message_stop", MessageStop("EndTurn"))
<1>1. /\ c = EnsureMessageStart(a) /\ d = CloseText(c) /\ e = DrainTools(d, order)
      /\ f = Ensure(e, "message_stop", MessageStop("EndTurn"))
      /\ b = Ensure(f, "response_stop", ResponseStop({}))
  BY DEF Wrap
<1> HIDE DEF c, d, e, f
<1>2. /\ ChatIs(c.st, TRUE, TRUE, a.st.message_stop, a.st.response_stop, a.st.completed,
                a.st.text_open, a.st.open_tools)
      /\ ChatTo(g, c, t, h, {})
  BY <1>1, ChatMessageStart
<1>3. PICK k1 : ChatAcc(g, c, t, k1) /\ k1.spent = h.spent  BY <1>2 DEF ChatTo
<1>4. /\ ChatIs(d.st, c.st.response_start, c.st.message_start, c.st.message_stop,
                c.st.response_stop, c.st.completed, FALSE, c.st.open_tools)
      /\ ChatTo(g, d, t, k1, {0})
  BY <1>1, <1>3, ChatCloseText
<1>5. PICK k2 : ChatAcc(g, d, t, k2) /\ k2.spent = h.spent  BY <1>3, <1>4 DEF ChatTo
<1>6. /\ ChatIs(e.st, d.st.response_start, d.st.message_start, d.st.message_stop,
                d.st.response_stop, d.st.completed, d.st.text_open, {})
      /\ ChatTo(g, e, t, k2, {1, 2})
  BY <1>1, <1>5, ChatDrainTools
<1>7. PICK k3 : ChatAcc(g, e, t, k3) /\ k3.spent = h.spent  BY <1>5, <1>6 DEF ChatTo
<1>8. /\ ~e.st.text_open /\ e.st.open_tools = {} /\ e.st.message_start
      /\ e.st.message_stop \/ Honest("EndTurn", t)
      /\ "EndTurn" \in StopReason
  BY <1>2, <1>4, <1>6 DEF ChatIs, StopReason
<1>9. /\ ChatIs(f.st, e.st.response_start, e.st.message_start, TRUE, e.st.response_stop,
                e.st.completed, FALSE, {})
      /\ ChatTo(g, f, t, k3, BlockIndices)
  BY <1>1, <1>7, <1>8, ChatMessageStop DEF StopReason
<1>10. PICK k4 : ChatAcc(g, f, t, k4) /\ k4.spent = h.spent  BY <1>7, <1>9 DEF ChatTo
<1>11. f.st.message_stop  BY <1>9 DEF ChatIs
<1>12. k4.spent = t.tokens  BY <1>10
<1>13. /\ ChatIs(b.st, TRUE, TRUE, TRUE, TRUE, f.st.completed, FALSE, {})
       /\ ChatTo(g, b, t, k4, BlockIndices)
  BY <1>1, <1>10, <1>11, <1>12, ChatResponseStop
<1>14. f.st.completed = a.st.completed  BY <1>2, <1>4, <1>6, <1>9 DEF ChatIs
<1>15. ChatTo(g, b, t, h, BlockIndices)  BY <1>10, <1>13 DEF ChatTo
<1> QED  BY <1>13, <1>14, <1>15 DEF ChatIs

LEMMA ChatFinish ==
    ASSUME NEW g, NEW a, NEW t, NEW h, ChatAcc(g, a, t, h), a.st.message_start,
           ~a.st.message_stop, NEW order \in Orders, NEW reason,
           FromProviderString(reason) \in StopReason, Honest(FromProviderString(reason), t),
           NEW b, b = FinishReason(a, reason, order)
    PROVE  /\ ChatIs(b.st, TRUE, TRUE, TRUE, FALSE, TRUE, FALSE, {})
           /\ ChatTo(g, b, t, h, BlockIndices)
<1> DEFINE d == CloseText(a)
           e == DrainTools(d, order)
           r == FromProviderString(reason)
           f == Ensure(e, "message_stop", MessageStop(r))
<1>1. /\ d = CloseText(a) /\ e = DrainTools(d, order)
      /\ f = Ensure(e, "message_stop", MessageStop(r))
      /\ b = [f EXCEPT !.st.completed = TRUE]
  BY DEF FinishReason
<1> HIDE DEF d, e, f, r
<1>2. r \in StopReason /\ Honest(r, t)  BY DEF r
<1>4. /\ ChatIs(d.st, a.st.response_start, a.st.message_start, a.st.message_stop,
                a.st.response_stop, a.st.completed, FALSE, a.st.open_tools)
      /\ ChatTo(g, d, t, h, {0})
  BY <1>1, ChatCloseText
<1>5. PICK k2 : ChatAcc(g, d, t, k2) /\ k2.spent = h.spent  BY <1>4 DEF ChatTo
<1>6. /\ ChatIs(e.st, d.st.response_start, d.st.message_start, d.st.message_stop,
                d.st.response_stop, d.st.completed, d.st.text_open, {})
      /\ ChatTo(g, e, t, k2, {1, 2})
  BY <1>1, <1>5, ChatDrainTools
<1>7. PICK k3 : ChatAcc(g, e, t, k3) /\ k3.spent = h.spent  BY <1>5, <1>6 DEF ChatTo
<1>8. ~e.st.text_open /\ e.st.open_tools = {} /\ e.st.message_start
  BY <1>4, <1>6 DEF ChatIs
<1>9. /\ ChatIs(f.st, e.st.response_start, e.st.message_start, TRUE, e.st.response_stop,
                e.st.completed, FALSE, {})
      /\ ChatTo(g, f, t, k3, BlockIndices)
  BY <1>1, <1>2, <1>7, <1>8, ChatMessageStop
<1>10. PICK k4 : ChatAcc(g, f, t, k4) /\ k4.spent = h.spent  BY <1>7, <1>9 DEF ChatTo
<1>11. /\ ChatIs(f.st, TRUE, TRUE, TRUE, FALSE, f.st.completed, FALSE, {})
       /\ Shaped(f)
  <2>1. a.st.response_start /\ ~a.st.response_stop /\ a.st \in ChatState
    BY DEF ChatAcc, ChatHeld, Flags
  <2>2. f.st \in ChatState /\ Shaped(f)
    BY <1>10 DEF ChatAcc, ChatHeld
  <2> QED  BY <1>4, <1>6, <1>9, <2>1, <2>2 DEF ChatIs, ChatState
<1>12. /\ ChatIs(b.st, TRUE, TRUE, TRUE, FALSE, TRUE, FALSE, {})
       /\ Shaped(b) /\ b.out = f.out
  <2>2. b.st = [f.st EXCEPT !.completed = TRUE] /\ b.out = f.out  BY <1>1, <1>11, MarkedAs
  <2>3. Shaped(b)  BY <1>1, <1>11, MarkedAs
  <2> QED  BY <1>11, <2>2, <2>3 DEF ChatIs, ChatState
<1>13. ChatHeld(b.st, k4)
  <2>1. Flags(b.st, k4)  BY <1>10, <1>11, <1>12 DEF ChatIs, Flags, ChatAcc, ChatHeld
  <2> QED  BY <1>10, <1>11, <1>12, <2>1 DEF ChatIs, ChatAcc, ChatHeld
<1>14. ChatAcc(g, b, t, k4)  BY <1>10, <1>12, <1>13 DEF ChatAcc
<1> QED  BY <1>10, <1>12, <1>14 DEF ChatTo

LEMMA ChatLiveText ==
    ASSUME NEW g, NEW a, NEW t, NEW n, ChatLive(g, a, t, n, {}), NEW b, b = ContentDelta(a)
    PROVE  ChatLive(g, b, t, n, {})
<1>1. PICK h : /\ ChatAcc(g, a, t, h) /\ h.spent = n /\ a.st.open_tools = {}
               /\ a.st.response_start /\ a.st.message_start /\ ~a.st.message_stop
               /\ ToolsReady(a.st, h) /\ TextReady(a.st, h)
  BY DEF ChatLive
<1>2. ~a.st.text_open => h.stage[0] = "new"  BY <1>1 DEF TextReady
<1>3. /\ ChatIs(b.st, TRUE, TRUE, FALSE, FALSE, a.st.completed, TRUE, a.st.open_tools)
      /\ ChatTo(g, b, t, h, {0})
  BY <1>1, <1>2, ChatContentDelta
<1>4. PICK k : /\ ChatAcc(g, b, t, k) /\ k.spent = h.spent
               /\ \A i \in BlockIndices \ {0} : k.stage[i] = h.stage[i]
  BY <1>3 DEF ChatTo
<1>5. ToolsReady(b.st, k) /\ TextReady(b.st, k) /\ b.st.open_tools = {}
  BY <1>1, <1>3, <1>4, SmallIndices DEF ToolsReady, TextReady, ChatIs
<1> QED  BY <1>1, <1>3, <1>4, <1>5 DEF ChatLive, ChatIs

LEMMA ChatLiveTools ==
    ASSUME NEW g, NEW a, NEW t, NEW n, NEW T, ChatLive(g, a, t, n, T), NEW tools,
           NEW S, ChatCalls(tools, T, S), NEW b, b = ToolDeltas(a, tools)
    PROVE  ChatLive(g, b, t, n, T \cup S)
<1> DEFINE c == EnsureMessageStart(a)
           d == CloseText(c)
<1>1. c = EnsureMessageStart(a) /\ d = CloseText(c) /\ b = FoldLeft(ToolDelta, d, tools)
  BY DEF ToolDeltas
<1> HIDE DEF c, d
<1>2. PICK h : /\ ChatAcc(g, a, t, h) /\ h.spent = n /\ a.st.open_tools = T
               /\ a.st.response_start /\ a.st.message_start /\ ~a.st.message_stop
               /\ ToolsReady(a.st, h) /\ TextReady(a.st, h)
  BY DEF ChatLive
<1>3. /\ ChatIs(c.st, TRUE, TRUE, a.st.message_stop, a.st.response_stop, a.st.completed,
                a.st.text_open, a.st.open_tools)
      /\ ChatTo(g, c, t, h, {})
  BY <1>1, <1>2, ChatMessageStart
<1>4. PICK k1 : /\ ChatAcc(g, c, t, k1) /\ k1.spent = h.spent
                /\ \A i \in BlockIndices : k1.stage[i] = h.stage[i]
  BY <1>3 DEF ChatTo
<1>5. /\ ChatIs(d.st, c.st.response_start, c.st.message_start, c.st.message_stop,
                c.st.response_stop, c.st.completed, FALSE, c.st.open_tools)
      /\ ChatTo(g, d, t, k1, {0})
  BY <1>1, <1>4, ChatCloseText
<1>6. PICK k2 : /\ ChatAcc(g, d, t, k2) /\ k2.spent = k1.spent
                /\ \A i \in BlockIndices \ {0} : k2.stage[i] = k1.stage[i]
  BY <1>5 DEF ChatTo
<1>7. /\ d.st.message_start /\ ~d.st.message_stop /\ d.st.open_tools = T
      /\ k2.spent = n /\ \A i \in {1, 2} \ T : k2.stage[i] = "new"
  BY <1>2, <1>3, <1>4, <1>5, <1>6, SmallIndices DEF ChatIs, ToolsReady
<1>8. ASSUME NEW i \in {1, 2}, NEW tc, S = {i}, tools = <<tc>>, ChatCall(tc, i, T)
      PROVE  ChatLive(g, b, t, n, T \cup S)
  <2>1. b = ToolDelta(d, tc)
    <3>1. FoldLeft(ToolDelta, d, <<tc>>) = ToolDelta(d, tc)  BY FoldToolDelta1
    <3> QED  BY <1>1, <1>8, <3>1, Zenon
  <2>2. ChatCall(tc, i, d.st.open_tools) /\ (i \notin d.st.open_tools => k2.stage[i] = "new")
    BY <1>7, <1>8
  <2>3. ChatCalled(g, d, b, t, k2, i)
    BY <1>6, <1>7, <2>1, <2>2, ChatToolDelta
  <2>4. PICK k : /\ ChatAcc(g, b, t, k) /\ k.spent = k2.spent
                 /\ \A l \in BlockIndices \ {i} : k.stage[l] = k2.stage[l]
    BY <2>3 DEF ChatTo, ChatCalled
  <2>5. ToolsReady(b.st, k) /\ TextReady(b.st, k) /\ b.st.open_tools = T \cup S
    BY <1>7, <1>8, <2>3, <2>4, SmallIndices DEF ToolsReady, TextReady, ChatIs, ChatCalled
  <2> QED  BY <1>7, <2>3, <2>4, <2>5 DEF ChatLive, ChatIs, ChatCalled
<1>9. ASSUME T = {}, S = {1, 2}, NEW x, NEW y, tools = <<x, y>>,
             ChatCall(x, 1, {}), ChatCall(y, 2, {1})
      PROVE  ChatLive(g, b, t, n, T \cup S)
  <2> DEFINE f == ToolDelta(d, x)
  <2>1. f = ToolDelta(d, x) /\ b = ToolDelta(f, y)
    <3>1. FoldTools(d, tools) = ToolDelta(ToolDelta(d, x), y)
      BY <1>9, FoldTools2
    <3> QED  BY <1>1, <3>1, Zenon DEF FoldTools
  <2> HIDE DEF f
  <2>2. ChatCall(x, 1, d.st.open_tools) /\ (1 \notin d.st.open_tools => k2.stage[1] = "new")
    BY <1>7, <1>9
  <2>3. ChatCalled(g, d, f, t, k2, 1)
    BY <1>6, <1>7, <2>1, <2>2, ChatToolDelta
  <2>4. PICK k3 : /\ ChatAcc(g, f, t, k3) /\ k3.spent = k2.spent
                  /\ \A l \in BlockIndices \ {1} : k3.stage[l] = k2.stage[l]
    BY <2>3 DEF ChatTo, ChatCalled
  <2>5. /\ f.st.open_tools = {1} /\ f.st.message_start /\ ~f.st.message_stop
        /\ 2 \notin f.st.open_tools => k3.stage[2] = "new"
    BY <1>7, <1>9, <2>3, <2>4, SmallIndices DEF ChatIs, ChatCalled
  <2>6. ChatCall(y, 2, f.st.open_tools)  BY <1>9, <2>5
  <2>7. ChatCalled(g, f, b, t, k3, 2)
    BY <2>1, <2>4, <2>5, <2>6, ChatToolDelta
  <2>8. PICK k : ChatAcc(g, b, t, k) /\ k.spent = k3.spent  BY <2>7 DEF ChatTo, ChatCalled
  <2>9. ToolsReady(b.st, k) /\ TextReady(b.st, k) /\ b.st.open_tools = {1, 2}
    BY <2>5, <2>7 DEF ToolsReady, TextReady, ChatIs, ChatCalled
  <2> QED  BY <1>7, <1>9, <2>4, <2>7, <2>8, <2>9 DEF ChatLive, ChatIs, ChatCalled
<1> QED  BY <1>8, <1>9 DEF ChatCalls

LEMMA ChatRole ==
    ASSUME NEW g, NEW a, NEW t, NEW n, NEW T, ChatNear(g, a, t, n, T), NEW role \in BOOLEAN,
           role \/ a.st.message_start, NEW b, b = When(role, EnsureMessageStart(a), a)
    PROVE  ChatLive(g, b, t, n, T)
<1>1. PICK h : /\ ChatAcc(g, a, t, h) /\ h.spent = n /\ a.st.open_tools = T
               /\ a.st.response_start /\ ~a.st.message_stop
               /\ ToolsReady(a.st, h) /\ TextReady(a.st, h)
  BY DEF ChatNear
<1>2. CASE role
  <2>1. b = EnsureMessageStart(a)  BY <1>2 DEF When
  <2>2. /\ ChatIs(b.st, TRUE, TRUE, a.st.message_stop, a.st.response_stop, a.st.completed,
                  a.st.text_open, a.st.open_tools)
        /\ ChatTo(g, b, t, h, {})
    BY <1>1, <2>1, ChatMessageStart
  <2>3. PICK k : /\ ChatAcc(g, b, t, k) /\ k.spent = h.spent
                 /\ \A i \in BlockIndices : k.stage[i] = h.stage[i]
    BY <2>2 DEF ChatTo
  <2>4. ToolsReady(b.st, k) /\ TextReady(b.st, k) /\ b.st.open_tools = T
    BY <1>1, <2>2, <2>3, SmallIndices DEF ToolsReady, TextReady, ChatIs
  <2> QED  BY <1>1, <2>2, <2>3, <2>4 DEF ChatLive, ChatIs
<1>3. CASE ~role
  <2>1. b = a /\ a.st.message_start  BY <1>3 DEF When
  <2> QED  BY <1>1, <2>1 DEF ChatLive
<1> QED  BY <1>2, <1>3

LEMMA ChatChoiceLive ==
    ASSUME NEW g, NEW a, NEW t, NEW n, NEW T, ChatNear(g, a, t, n, T), NEW c, NEW S,
           c.role \in BOOLEAN, c.role \/ a.st.message_start, c.text \in BOOLEAN,
           c.text => T = {}, c.finish = {},
           \/ c.tools = {} /\ S = {}
           \/ \E tools : c.tools = {tools} /\ ChatCalls(tools, T, S),
           NEW order, NEW b, b = Choice(a, c, order)
    PROVE  ChatLive(g, b, t, n, T \cup S)
<1> DEFINE d == When(c.role, EnsureMessageStart(a), a)
           e == When(c.text, ContentDelta(d), d)
<1>1. /\ d = When(c.role, EnsureMessageStart(a), a) /\ e = When(c.text, ContentDelta(d), d)
      /\ b = IF c.tools = {} THEN e ELSE ToolDeltas(e, CHOOSE x \in c.tools : TRUE)
  BY DEF Choice
<1> HIDE DEF d, e
<1>2. ChatLive(g, d, t, n, T)  BY <1>1, ChatRole
<1>3. ChatLive(g, e, t, n, T)
  <2>1. CASE c.text
    <3>1. e = ContentDelta(d) /\ T = {}  BY <1>1, <2>1 DEF When
    <3> QED  BY <1>2, <3>1, ChatLiveText
  <2>2. CASE ~c.text
    <3>1. e = d  BY <1>1, <2>2 DEF When
    <3> QED  BY <1>2, <3>1
  <2> QED  BY <2>1, <2>2
<1>4. CASE c.tools = {} /\ S = {}
  <2>1. b = e /\ T \cup S = T  BY <1>1, <1>4
  <2> QED  BY <1>3, <2>1
<1>5. ASSUME NEW tools, c.tools = {tools}, ChatCalls(tools, T, S)
      PROVE  ChatLive(g, b, t, n, T \cup S)
  <2>1. (CHOOSE x \in {tools} : TRUE) = tools  OBVIOUS
  <2>2. b = ToolDeltas(e, tools)  BY <1>1, <1>5, <2>1
  <2> QED  BY <1>3, <1>5, <2>2, ChatLiveTools
<1> QED  BY <1>4, <1>5

LEMMA ChatChoiceOver ==
    ASSUME NEW g, NEW a, NEW t, NEW n, NEW T, ChatNear(g, a, t, n, T), NEW c,
           c.role \in BOOLEAN, c.role \/ a.st.message_start, ~c.text, c.tools = {},
           NEW r, c.finish = {r}, FromProviderString(r) \in StopReason,
           Honest(FromProviderString(r), t),
           NEW order \in Orders, NEW b, b = Choice(a, c, order)
    PROVE  ChatOver(g, b, t, n)
<1> DEFINE d == When(c.role, EnsureMessageStart(a), a)
<1>1. (CHOOSE x \in {r} : TRUE) = r  OBVIOUS
<1>2. d = When(c.role, EnsureMessageStart(a), a) /\ b = FinishReason(d, r, order)
  BY <1>1 DEF Choice, When
<1> HIDE DEF d
<1>3. ChatLive(g, d, t, n, T)  BY <1>2, ChatRole
<1>4. PICK h : ChatAcc(g, d, t, h) /\ h.spent = n /\ d.st.message_start /\ ~d.st.message_stop
  BY <1>3 DEF ChatLive
<1>5. /\ ChatIs(b.st, TRUE, TRUE, TRUE, FALSE, TRUE, FALSE, {})
      /\ ChatTo(g, b, t, h, BlockIndices)
  BY <1>2, <1>4, ChatFinish
<1> QED  BY <1>4, <1>5 DEF ChatOver, ChatTo, ChatIs

LEMMA MoveUsageOption ==
    ASSUME NEW g, NEW q, NEW h \in Account, NEW t, Leads(g, q, h, t), NEW u \in OneOf(Nat),
           "ResponseStart" \in h.seen, "ResponseStop" \notin h.seen,
           NEW r, r = Cat(q, UsageSeq(u))
    PROVE  UsageTo(g, r, h, t, u)
<1> USE DEF UsageSeq, UsageTo, Cat
<1>1. CASE u = {}
  <2>1. {UsageDelta(n) : n \in u} = {}  BY <1>1
  <2>2. SetToSeq({UsageDelta(n) : n \in u}) = <<>>  BY <2>1, OptionSeq
  <2>3. r = q \o <<>> /\ q \in Seq(CanonicalEvent)  BY <2>2 DEF Leads
  <2>4. r = q  BY <2>3
  <2> QED  BY <1>1, <2>4 DEF Plus
<1>2. ASSUME NEW n \in Nat, u = {n}
      PROVE  UsageTo(g, r, h, t, u)
  <2> DEFINE k == WithSpent(h, n)
             e == UsageDelta(n)
  <2>1. {UsageDelta(m) : m \in u} = {e}  BY <1>2
  <2>2. (CHOOSE m \in {n} : TRUE) = n  OBVIOUS
  <2>3. /\ k \in Account /\ k.spent = Plus(h.spent, u)
        /\ k.seen = h.seen /\ k.stage = h.stage /\ k.stop = h.stop
    BY <1>2, <2>2, MoveTypes DEF WithSpent, Plus
  <2>4. Moves(g, q, e, k, t)  BY <1>2, MoveUsage
  <2> HIDE DEF e, k
  <2>5. SetToSeq({UsageDelta(m) : m \in u}) = <<e>>  BY <2>1, OptionSeq
  <2>6. r = q \o <<e>>  BY <2>5
  <2>7. Leads(g, r, k, t)  BY <2>4, <2>6, MovesOut
  <2> QED  BY <2>3, <2>7
<1> QED  BY <1>1, <1>2 DEF OneOf

LEMMA ChatSayUsage ==
    ASSUME NEW g, NEW a, NEW t, NEW n, NEW u \in OneOf(Nat), NEW b, b = SayUsage(a, u)
    PROVE  /\ \A T : ChatLive(g, a, t, n, T) => ChatLive(g, b, t, Plus(n, u), T)
           /\ ChatOver(g, a, t, n) => ChatOver(g, b, t, Plus(n, u))
<1>1. ASSUME NEW h, ChatAcc(g, a, t, h), ~a.st.response_stop, a.st.response_start
      PROVE  /\ b.st = a.st
             /\ \E k : ChatAcc(g, b, t, k) /\ k.spent = Plus(h.spent, u) /\ k.stage = h.stage
  <2> DEFINE x == UsageSeq(u)
  <2>1. Shaped(a) /\ h \in Account /\ Leads(g, a.out, h, t)
    BY <1>1 DEF ChatAcc, ChatHeld
  <2>2. b = Say(a, x)  BY DEF SayUsage, UsageSeq
  <2>3. b.st = a.st /\ b.out = Cat(a.out, x) /\ Shaped(b)
    BY <2>1, <2>2, Said
  <2>4. "ResponseStart" \in h.seen /\ "ResponseStop" \notin h.seen
    BY <1>1 DEF ChatAcc, ChatHeld, Flags
  <2>5. PICK k \in Account : /\ Leads(g, b.out, k, t) /\ k.spent = Plus(h.spent, u)
                             /\ k.seen = h.seen /\ k.stage = h.stage /\ k.stop = h.stop
    <3>1. UsageTo(g, b.out, h, t, u)  BY <2>1, <2>3, <2>4, MoveUsageOption
    <3> QED  BY <3>1 DEF UsageTo
  <2>6. ChatHeld(b.st, k)
    <3>1. Flags(b.st, k)  BY <1>1, <2>3, <2>5 DEF ChatAcc, ChatHeld, Flags
    <3> QED  BY <1>1, <2>3, <2>5, <3>1 DEF ChatAcc, ChatHeld
  <2>7. ChatAcc(g, b, t, k)  BY <2>3, <2>5, <2>6 DEF ChatAcc
  <2> QED  BY <2>3, <2>5, <2>7
<1>2. ASSUME NEW T, ChatLive(g, a, t, n, T) PROVE ChatLive(g, b, t, Plus(n, u), T)
  <2>1. PICK h : /\ ChatAcc(g, a, t, h) /\ h.spent = n /\ a.st.open_tools = T
                 /\ a.st.response_start /\ a.st.message_start /\ ~a.st.message_stop
                 /\ ToolsReady(a.st, h) /\ TextReady(a.st, h)
    BY <1>2 DEF ChatLive
  <2>2. ~a.st.response_stop  BY <2>1 DEF ChatAcc, ChatHeld, Flags
  <2>3. PICK k : ChatAcc(g, b, t, k) /\ k.spent = Plus(h.spent, u) /\ k.stage = h.stage
    BY <1>1, <2>1, <2>2
  <2>4. b.st = a.st  BY <1>1, <2>1, <2>2
  <2>5. ToolsReady(b.st, k) /\ TextReady(b.st, k)
    BY <2>1, <2>3, <2>4 DEF ToolsReady, TextReady
  <2> QED  BY <2>1, <2>3, <2>4, <2>5 DEF ChatLive
<1>3. ASSUME ChatOver(g, a, t, n) PROVE ChatOver(g, b, t, Plus(n, u))
  <2>1. PICK h : ChatAcc(g, a, t, h) /\ h.spent = n /\ a.st.message_stop /\ ~a.st.response_stop
    BY <1>3 DEF ChatOver
  <2>2. a.st.response_start  BY <2>1 DEF ChatAcc, ChatHeld, Flags
  <2>3. PICK k : ChatAcc(g, b, t, k) /\ k.spent = Plus(h.spent, u) /\ k.stage = h.stage
    BY <1>1, <2>1, <2>2
  <2>4. b.st = a.st  BY <1>1, <2>1, <2>2
  <2> QED  BY <2>1, <2>3, <2>4 DEF ChatOver
<1> QED  BY <1>2, <1>3

LEMMA FoldChoices0 ==
    ASSUME NEW a, NEW order
    PROVE  FoldChoices(a, <<>>, order) = a
<1> DEFINE Tree(f) == f = [s \in SUBSET {} |->
                            IF s = {} THEN a ELSE Choice(f[s \ {Max(s)}], <<>>[Max(s)], order)]
           F == CHOOSE f : Tree(f)
<1>1. DOMAIN <<>> = {}  OBVIOUS
<1>2. FoldChoices(a, <<>>, order) = F[{}]  BY <1>1, Zenon DEF FoldChoices, FoldLeft, MapThenFoldSet
<1>3. Tree([s \in SUBSET {} |-> a])  OBVIOUS
<1>4. Tree(F)  BY <1>3, Zenon
<1>5. F[{}] = a  BY <1>4
<1> QED  BY <1>2, <1>5

LEMMA FoldChoices1 ==
    ASSUME NEW a, NEW x, NEW order
    PROVE  FoldChoices(a, <<x>>, order) = Choice(a, x, order)
<1> DEFINE Tree(f) == f = [s \in SUBSET {1} |->
                            IF s = {} THEN a ELSE Choice(f[s \ {Max(s)}], <<x>>[Max(s)], order)]
           Leaf == Choice(a, x, order)
           F == CHOOSE f : Tree(f)
           W == [s \in SUBSET {1} |-> IF s = {} THEN a ELSE Leaf]
<1>1. DOMAIN <<x>> = {1}  OBVIOUS
<1>2. FoldChoices(a, <<x>>, order) = F[{1}]  BY <1>1, Zenon DEF FoldChoices, FoldLeft, MapThenFoldSet
<1>3. Tree(W)
  <2>1. ASSUME NEW s \in SUBSET {1}, s # {}
        PROVE  Max(s) = 1 /\ s \ {Max(s)} = {} /\ <<x>>[1] = x
    BY <2>1, MaxOne
  <2>2. W[{}] = a  OBVIOUS
  <2> HIDE DEF Leaf
  <2>3. ASSUME NEW s \in SUBSET {1}, s # {}
        PROVE  Leaf = Choice(W[s \ {Max(s)}], <<x>>[Max(s)], order)
    <3> HIDE DEF W
    <3> QED  BY <2>1, <2>2, <2>3 DEF Leaf
  <2> QED  BY <2>3
<1>4. Tree(F)  BY <1>3, Zenon
<1>5. F[{1}] = Choice(F[{1} \ {Max({1})}], <<x>>[Max({1})], order) /\ F[{}] = a  BY <1>4
<1> HIDE DEF F
<1> QED  BY <1>2, <1>5, MaxOne

LEMMA ChatChunkIs ==
    ASSUME NEW s, NEW c, NEW order, NEW a, a = Ensure(Start(s), "response_start", ResponseStart)
    PROVE  /\ c.choices = {} => ChatChunk(s, c, order) = SayUsage(a, c.usage)
           /\ \A cs : c.choices = {cs} =>
                 ChatChunk(s, c, order) = SayUsage(FoldChoices(a, cs, order), c.usage)
<1> DEFINE A == Ensure(Start(s), "response_start", ResponseStart)
<1>0. ChatChunk(s, c, order) =
        SayUsage(IF c.choices = {} THEN A
                 ELSE FoldChoices(A, CHOOSE cs \in c.choices : TRUE, order), c.usage)
  BY Zenon DEF ChatChunk, FoldChoices
<1>1. ChatChunk(s, c, order) =
        SayUsage(IF c.choices = {} THEN a
                 ELSE FoldChoices(a, CHOOSE cs \in c.choices : TRUE, order), c.usage)
  BY <1>0
<1>2. ASSUME NEW cs, c.choices = {cs}
      PROVE  ChatChunk(s, c, order) = SayUsage(FoldChoices(a, cs, order), c.usage)
  <2>1. (CHOOSE x \in {cs} : TRUE) = cs  OBVIOUS
  <2> QED  BY <1>1, <1>2, <2>1
<1> QED  BY <1>1, <1>2

(* What a chat upstream may send: the shape of its chunks.                 *)
LEMMA UsageNowIs ==
    ASSUME up.tokens \in Nat, NEW u \in UsageNow
    PROVE  /\ u \in OneOf(Nat)
           /\ Plus(up.tokens, u) = IF u = {} THEN up.tokens ELSE CHOOSE n \in u : TRUE
<1>1. CASE u = {}  BY <1>1 DEF Plus, OneOf
<1>2. ASSUME NEW n \in TokenCounts, up.tokens = 0, u = {n}
      PROVE  /\ u \in OneOf(Nat)
             /\ Plus(up.tokens, u) = IF u = {} THEN up.tokens ELSE CHOOSE m \in u : TRUE
  <2>1. n \in Nat  BY StreamingAssumption DEF TokenCounts
  <2>2. (CHOOSE m \in {n} : TRUE) = n  OBVIOUS
  <2> QED  BY <1>2, <2>1, <2>2 DEF Plus, OneOf
<1> QED  BY <1>1, <1>2 DEF UsageNow

(* A chunk with one choice: what it says of tools and of the end.          *)
LEMMA ChunkTools ==
    ASSUME NEW in, NEW c, in.choices = {<<c>>}, in.kind = "chunk"
    PROVE  /\ c.tools = {} => ToolsIn(in) = {}
           /\ \A x : c.tools = {<<x>>} => ToolsIn(in) = {x.index}
           /\ \A x, y : c.tools = {<<x, y>>} => ToolsIn(in) = {x.index, y.index}
           /\ Finishing(in) <=> c.finish # {}
           /\ ReasonIn(in) = c.finish
<1>1. (CHOOSE x \in {<<c>>} : TRUE) = <<c>>  OBVIOUS
<1>2. ToSet(<<c>>) = {c}  BY DEF ToSet
<1>3. UNION {x.tools : x \in ToSet(IF in.choices = {} THEN <<>>
                                   ELSE CHOOSE x \in in.choices : TRUE)} = c.tools
  BY <1>1, <1>2
<1>4. ToolsIn(in) = UNION {{d.index : d \in ToSet(s)} : s \in c.tools}
  BY <1>3 DEF ToolsIn
<1>5. \A x : ToSet(<<x>>) = {x}  BY DEF ToSet
<1>6. \A x, y : ToSet(<<x, y>>) = {x, y}  BY DEF ToSet
<1>7. c.tools = {} => ToolsIn(in) = {}  BY <1>4
<1>8. ASSUME NEW x, c.tools = {<<x>>} PROVE ToolsIn(in) = {x.index}
  BY <1>4, <1>5, <1>8
<1>9. ASSUME NEW x, NEW y, c.tools = {<<x, y>>} PROVE ToolsIn(in) = {x.index, y.index}
  BY <1>4, <1>6, <1>9
<1>10. Finishing(in) <=> c.finish # {}  BY <1>2 DEF Finishing
<1>11. UNION {ToSet(cs) : cs \in in.choices} = {c}  BY <1>2
<1>12. ReasonIn(in) = c.finish  BY <1>11 DEF ReasonIn
<1> QED  BY <1>7, <1>8, <1>9, <1>10, <1>12

LEMMA ChunkIdle ==
    ASSUME NEW in, in.choices \in {{}, {<<>>}}, in.kind = "chunk"
    PROVE  ToolsIn(in) = {} /\ ~Finishing(in) /\ ReasonIn(in) = {}
<1>1. (CHOOSE x \in {<<>>} : TRUE) = <<>>  OBVIOUS
<1>2. ToSet(<<>>) = {}  BY DEF ToSet
<1>3. (IF in.choices = {} THEN <<>> ELSE CHOOSE x \in in.choices : TRUE) = <<>>  BY <1>1
<1>4. ToolsIn(in) = {}  BY <1>2, <1>3 DEF ToolsIn
<1>5. ~Finishing(in)  BY <1>2 DEF Finishing
<1>6. UNION {ToSet(cs) : cs \in in.choices} = {}  BY <1>2
<1>7. ReasonIn(in) = {}  BY <1>6 DEF ReasonIn
<1> QED  BY <1>4, <1>5, <1>7

LEMMA ChatOffersAre ==
    ChatOffers =
       IF up.phase \in {"idle", "live"}
       THEN {OneChoice(NoChoice)}
            \cup {OneChoice(c) : c \in {x \in ChatContent : (up.open = {} \/ TextAfterTools) /\ ChatRoom}}
            \cup {OneChoice(c) : c \in {ChatOneCall(i) : i \in {0, 1}}
                                       \cup (IF up.open = {} THEN {ChatTwoCalls} ELSE {})}
            \cup {ChatEnding(r, u) : r \in ChatReasons, u \in UsageNow}
            \cup {[kind |-> "done"]}
       ELSE {Chunk(cs, u) : cs \in {{}, {<<>>}}, u \in UsageNow} \cup {[kind |-> "done"]}
BY DEF ChatOffers, ChatContent, ChatRoom, ChatOneCall, ChatTwoCalls, ChatReasons,
             ChatEnding, ToolIndices

LEMMA ChatOffered ==
    ASSUME up.phase \in {"idle", "live"}, TextAfterTools = FALSE, NEW in \in ChatOffers
    PROVE  \/ in = OneChoice(NoChoice)
           \/ \E c \in ChatContent : in = OneChoice(c) /\ up.open = {} /\ ChatRoom
           \/ \E i \in {0, 1} : in = OneChoice(ChatOneCall(i))
           \/ up.open = {} /\ in = OneChoice(ChatTwoCalls)
           \/ \E r \in ChatReasons, u \in UsageNow : in = ChatEnding(r, u)
           \/ in = [kind |-> "done"]
<1> DEFINE calls == {ChatOneCall(i) : i \in {0, 1}} \cup (IF up.open = {} THEN {ChatTwoCalls} ELSE {})
           content == {x \in ChatContent : (up.open = {} \/ TextAfterTools) /\ ChatRoom}
           endings == {ChatEnding(r, u) : r \in ChatReasons, u \in UsageNow}
<1>1. ChatOffers = {OneChoice(NoChoice)}
            \cup {OneChoice(c) : c \in content}
            \cup {OneChoice(c) : c \in calls}
            \cup endings
            \cup {[kind |-> "done"]}
  BY ChatOffersAre
<1>3. \A x \in endings : \E r \in ChatReasons, u \in UsageNow : x = ChatEnding(r, u)  OBVIOUS
<1> HIDE DEF calls, content, endings
<1>2. \/ in = OneChoice(NoChoice) \/ in = [kind |-> "done"]
      \/ \E c \in content : in = OneChoice(c)
      \/ \E c \in calls : in = OneChoice(c)
      \/ in \in endings
  BY <1>1
<1> USE DEF calls, content
<1> QED  BY <1>2, <1>3

LEMMA ChatOfferSorts ==
    ASSUME provider = "chat", TextAfterTools = FALSE, NEW in \in ChatOffers
    PROVE  \/ in.kind = "done"
           \/ up.phase \in {"idle", "live"} /\ \E c : ChatFragment(in, c) \/ ChatLast(in, c)
           \/ /\ up.phase \notin {"idle", "live"}
              /\ in.kind = "chunk" /\ in.choices \in {{}, {<<>>}} /\ in.usage \in UsageNow
<1>1. CASE up.phase \in {"idle", "live"}
  <2>2. CASE in = OneChoice(NoChoice)
    <3>1. ChatFragment(in, NoChoice)  BY <2>2 DEF ChatFragment, OneChoice, Chunk, NoChoice
    <3> QED  BY <1>1, <3>1
  <2>3. ASSUME NEW c \in ChatContent, in = OneChoice(c), up.open = {}
        PROVE  ChatFragment(in, c)
    BY <2>3 DEF ChatFragment, ChatContent, OneChoice, Chunk, NoChoice
  <2>4. ASSUME NEW i \in {0, 1}, in = OneChoice(ChatOneCall(i))
        PROVE  ChatFragment(in, ChatOneCall(i))
    BY <2>4 DEF ChatFragment, OneChoice, Chunk, NoChoice, ChatOneCall
  <2>5. CASE up.open = {} /\ in = OneChoice(ChatTwoCalls)
    <3>1. ChatFragment(in, ChatTwoCalls)
      BY <2>5 DEF ChatFragment, OneChoice, Chunk, NoChoice, ChatTwoCalls, ChatRoom
    <3> QED  BY <1>1, <3>1
  <2>6. ASSUME NEW r \in ChatReasons, NEW u \in UsageNow, in = ChatEnding(r, u)
        PROVE  \E c : ChatLast(in, c)
    <3>1. ChatLast(in, [NoChoice EXCEPT !.finish = {r}])
      BY <2>6 DEF ChatLast, Chunk, NoChoice, ChatEnding, ChatReasons
    <3> QED  BY <3>1
  <2>7. CASE in = [kind |-> "done"]  BY <2>7
  <2> QED  BY <1>1, <2>2, <2>3, <2>4, <2>5, <2>6, <2>7, ChatOffered
<1>2. CASE up.phase \notin {"idle", "live"}
  BY <1>2 DEF ChatOffers, Chunk
<1> QED  BY <1>1, <1>2

(* The reason an input tells, if it tells one.                             *)
LEMMA FollowReason ==
    ASSUME NEW in, NEW u, u = Follow(in)
    PROVE  /\ ReasonIn(in) = {} => u.reason = up.reason
           /\ \A r : ReasonIn(in) = {r} => u.reason = Means(r)
<1>1. u.reason = IF ReasonIn(in) = {} THEN up.reason ELSE Means(CHOOSE r \in ReasonIn(in) : TRUE)
  BY DEF Follow
<1>2. \A r : (CHOOSE y \in {r} : TRUE) = r  OBVIOUS
<1> QED  BY <1>1, <1>2

(* What the upstream's side becomes after a chunk.                         *)
LEMMA FollowChunk ==
    ASSUME NEW in, in.kind = "chunk", NEW u, u = Follow(in)
    PROVE  /\ u.phase = IF Finishing(in) THEN "stopped"
                        ELSE IF up.phase = "idle" THEN "live" ELSE up.phase
           /\ u.open = up.open \cup ToolsIn(in)
           /\ u.tokens = IF in.usage = {} THEN up.tokens ELSE CHOOSE n \in in.usage : TRUE
           /\ u.called \in BOOLEAN /\ u.reasoned \in BOOLEAN
           /\ u.called <=> (up.called \/ ToolsIn(in) # {})
           /\ u.reasoned <=> (up.reasoned \/ Finishing(in))
<1>1. Told(in) = in.usage  BY DEF Told
<1>2. u.phase = IF Finishing(in) THEN "stopped" ELSE IF up.phase = "idle" THEN "live" ELSE up.phase
  BY DEF Follow
<1>3. u.open = up.open \cup ToolsIn(in)  BY DEF Follow
<1>4. u.tokens = IF in.usage = {} THEN up.tokens ELSE CHOOSE n \in in.usage : TRUE
  BY <1>1 DEF Follow
<1>5. u.called \in BOOLEAN /\ u.reasoned \in BOOLEAN  BY DEF Follow
<1>6. u.called <=> (up.called \/ ToolsIn(in) # {})  BY DEF Follow
<1>7. u.reasoned <=> (up.reasoned \/ Finishing(in))  BY DEF Follow
<1> QED  BY <1>2, <1>3, <1>4, <1>5, <1>6, <1>7

LEMMA FollowDone ==
    ASSUME NEW in, in.kind = "done", NEW u, u = Follow(in), up.called \in BOOLEAN,
           up.reasoned \in BOOLEAN
    PROVE  /\ u.phase = "stopped" /\ u.open = up.open /\ u.tokens = up.tokens
           /\ u.called = up.called /\ u.reason = up.reason /\ u.reasoned = up.reasoned
<1>1. ReasonIn(in) = {}  BY DEF ReasonIn
<1>2. u.reason = up.reason  BY <1>1, FollowReason
<1>3. /\ u.phase = "stopped" /\ u.open = up.open /\ u.tokens = up.tokens
      /\ u.called = up.called /\ u.reasoned = up.reasoned
  BY DEF Follow, Told, Finishing
<1> QED  BY <1>2, <1>3

LEMMA ChatStarts ==
    ASSUME NEW st, NEW h, ChatHeld(st, h), NEW t, NEW a, a = Start(st)
    PROVE  ChatAcc(h, a, t, h) /\ a.st = st /\ a.out = <<>>
<1>1. a.st = st /\ a.out = <<>> /\ Shaped(a)  BY DEF Start, Shaped
<1> QED  BY <1>1, LeadsNothing DEF ChatAcc

(* The parser after a response has begun.                                  *)
LEMMA ChatBegun ==
    ASSUME NEW st, NEW h, ChatHeld(st, h), ToolsReady(st, h), TextReady(st, h), NEW t,
           NEW a, a = Ensure(Start(st), "response_start", ResponseStart)
    PROVE  /\ ~st.message_stop => ChatNear(h, a, t, h.spent, st.open_tools)
           /\ st.message_stop /\ ~st.response_stop => ChatOver(h, a, t, h.spent)
           /\ ChatIs(a.st, TRUE, st.message_start, st.message_stop, st.response_stop,
                     st.completed, st.text_open, st.open_tools)
           /\ ChatTo(h, a, t, h, {})
<1> DEFINE b == Start(st)
<1>1. ChatAcc(h, b, t, h) /\ b.st = st /\ a = Ensure(b, "response_start", ResponseStart)
  BY ChatStarts
<1> HIDE DEF b
<1>2. /\ ChatIs(a.st, TRUE, st.message_start, st.message_stop, st.response_stop,
                st.completed, st.text_open, st.open_tools)
      /\ ChatTo(h, a, t, h, {})
  BY <1>1, ChatResponseStart
<1>3. PICK k : /\ ChatAcc(h, a, t, k) /\ k.spent = h.spent
               /\ \A i \in BlockIndices : k.stage[i] = h.stage[i]
  BY <1>2 DEF ChatTo
<1>4. ToolsReady(a.st, k) /\ TextReady(a.st, k)
  BY <1>2, <1>3, SmallIndices DEF ToolsReady, TextReady, ChatIs
<1>5. ~st.message_stop => ChatNear(h, a, t, h.spent, st.open_tools)
  BY <1>2, <1>3, <1>4 DEF ChatNear, ChatIs
<1>6. st.message_stop /\ ~st.response_stop => ChatOver(h, a, t, h.spent)
  BY <1>2, <1>3 DEF ChatOver, ChatIs
<1> QED  BY <1>2, <1>5, <1>6

(* From the accumulator of a whole input back to the state in between.     *)
LEMMA ChatLiveBack ==
    ASSUME NEW h, NEW b, NEW u, NEW n, NEW T, ChatLive(h, b, Terms("chat", u), n, T),
           u.phase = "live", u.open \subseteq {0, 1}, u.tokens \in Nat, n = u.tokens,
           u.called \in BOOLEAN, u.reasoned = FALSE, u.called <=> u.open # {},
           \A i \in {0, 1} : i \in u.open <=> i + 1 \in T
    PROVE  ChatFed(h, b, u)
<1>1. PICK k : /\ ChatAcc(h, b, Terms("chat", u), k) /\ k.spent = n /\ b.st.open_tools = T
               /\ b.st.response_start /\ b.st.message_start /\ ~b.st.message_stop
               /\ ToolsReady(b.st, k) /\ TextReady(b.st, k)
  BY DEF ChatLive
<1>2. ChatBack(b.st, k, u)  BY <1>1 DEF ChatBack, ChatAcc
<1> QED  BY <1>1, <1>2 DEF ChatFed, ChatAcc

LEMMA ChatOverBack ==
    ASSUME NEW h, NEW b, NEW u, NEW n, ChatOver(h, b, Terms("chat", u), n),
           u.phase = "stopped", u.open \subseteq {0, 1}, u.tokens \in Nat, n = u.tokens,
           u.called \in BOOLEAN, u.reasoned \in BOOLEAN, u.called <=> u.open # {}
    PROVE  ChatFed(h, b, u)
<1>1. PICK k : /\ ChatAcc(h, b, Terms("chat", u), k) /\ k.spent = n
               /\ b.st.message_stop /\ ~b.st.response_stop
  BY DEF ChatOver
<1>2. ChatBack(b.st, k, u)  BY <1>1 DEF ChatBack, ChatAcc, ToolsReady, TextReady
<1> QED  BY <1>1, <1>2 DEF ChatFed, ChatAcc

LEMMA ChatEndBack ==
    ASSUME NEW h, NEW b, NEW u, NEW k, ChatAcc(h, b, Terms("chat", u), k), k.spent = u.tokens,
           b.st.message_stop, b.st.response_stop,
           u.phase \in {"stopped", "gone"}, u.open \subseteq {0, 1}, u.tokens \in Nat,
           u.called \in BOOLEAN, u.reasoned \in BOOLEAN, u.called <=> u.open # {}
    PROVE  ChatFed(h, b, u)
<1>2. ChatBack(b.st, k, u)  BY DEF ChatBack, ChatAcc, ToolsReady, TextReady
<1> QED  BY <1>2 DEF ChatFed, ChatAcc

LEMMA ChatToolsNow ==
    ASSUME NEW T, T \subseteq {1, 2}, \A i \in {0, 1} : i \in up.open <=> i + 1 \in T, NEW c,
           \/ c.tools = {}
           \/ \E i \in {0, 1} : c.tools = {<<ToolDeltaNow(i)>>}
           \/ up.open = {} /\ c.tools = {<<ToolDeltaNow(0), ToolDeltaNow(1)>>},
           up.open \subseteq {0, 1}, NEW in, in.kind = "chunk", in.choices = {<<c>>}
    PROVE  /\ ToolsIn(in) \subseteq {0, 1}
           /\ ChatToolsFit(in, c, T)
<1>1. CASE c.tools = {}
  <2>1. ToolsIn(in) = {}  BY <1>1, ChunkTools
  <2> QED  BY <1>1, <2>1 DEF ChatToolsFit
<1>2. ASSUME NEW i \in {0, 1}, c.tools = {<<ToolDeltaNow(i)>>}
      PROVE  /\ ToolsIn(in) \subseteq {0, 1}
             /\ ChatToolsFit(in, c, T)
  <2> DEFINE x == ToolDeltaNow(i)
  <2>1. ChatCall(x, i + 1, T) /\ i + 1 \in {1, 2} /\ x.index = i
    BY <1>2 DEF ChatCall, ToolDeltaNow
  <2> HIDE DEF x
  <2>2. ToolsIn(in) = {x.index}  BY <1>2, ChunkTools DEF x
  <2>3. ChatCalls(<<x>>, T, {i + 1})  BY <2>1 DEF ChatCalls
  <2>4. \A j \in {0, 1} : j \in {i} <=> j + 1 \in {i + 1}  OBVIOUS
  <2> QED  BY <1>2, <2>1, <2>2, <2>3, <2>4 DEF x, ChatToolsFit
<1>3. ASSUME up.open = {}, c.tools = {<<ToolDeltaNow(0), ToolDeltaNow(1)>>}
      PROVE  /\ ToolsIn(in) \subseteq {0, 1}
             /\ ChatToolsFit(in, c, T)
  <2> DEFINE x == ToolDeltaNow(0)
             y == ToolDeltaNow(1)
  <2>1. ChatCall(x, 1, {}) /\ ChatCall(y, 2, {1}) /\ x.index = 0 /\ y.index = 1
    BY <1>3 DEF ChatCall, ToolDeltaNow
  <2> HIDE DEF x, y
  <2>2. ToolsIn(in) = {x.index, y.index}  BY <1>3, ChunkTools DEF x, y
  <2>3. T = {}  BY <1>3
  <2>4. ChatCalls(<<x, y>>, T, {1, 2})  BY <2>1, <2>3 DEF ChatCalls
  <2>5. \A j \in {0, 1} : j \in {0, 1} <=> j + 1 \in {1, 2}  OBVIOUS
  <2> QED  BY <1>3, <2>1, <2>2, <2>4, <2>5 DEF x, y, ChatToolsFit
<1> QED  BY <1>1, <1>2, <1>3

LEMMA ChatFeedFragment ==
    ASSUME NEW h, ChatBack(parser, h, up), up.phase \in {"idle", "live"}, NEW in, NEW c,
           ChatFragment(in, c), NEW order \in Orders,
           NEW u, u = Follow(in), NEW r, r = ChatChunk(parser, in, order)
    PROVE  ChatFed(h, r, u)
<1> DEFINE T == parser.open_tools
           t == Terms("chat", u)
           a == Ensure(Start(parser), "response_start", ResponseStart)
           b == FoldChoices(a, <<c>>, order)
<1>1. /\ ChatHeld(parser, h) /\ ToolsReady(parser, h) /\ TextReady(parser, h)
      /\ parser \in ChatState /\ ~parser.message_stop /\ h.spent = up.tokens
      /\ \A i \in {0, 1} : i \in up.open <=> i + 1 \in T
      /\ T \subseteq {1, 2} /\ up.open \subseteq {0, 1} /\ up.tokens \in Nat
      /\ up.called \in BOOLEAN /\ (up.called <=> up.open # {}) /\ up.reasoned = FALSE
      /\ up.phase = "live" => parser.message_start
  BY DEF ChatBack, ChatHeld, ChatState
<1>2. /\ in.kind = "chunk" /\ in.choices = {<<c>>} /\ in.usage = {} /\ c.finish = {}
      /\ c.role \in BOOLEAN /\ c.text \in BOOLEAN /\ (c.role <=> up.phase = "idle")
      /\ c.text => up.open = {}
  BY DEF ChatFragment
<1>3. PICK S : /\ \/ c.tools = {} /\ S = {}
                  \/ \E tools : c.tools = {tools} /\ ChatCalls(tools, T, S)
               /\ \A i \in {0, 1} : i \in ToolsIn(in) <=> i + 1 \in S
  <2>1. ChatToolsFit(in, c, T)  BY <1>1, <1>2, ChatToolsNow DEF ChatFragment
  <2> QED  BY <2>1 DEF ChatToolsFit
<1>4. ToolsIn(in) \subseteq {0, 1}  BY <1>1, <1>2, ChatToolsNow DEF ChatFragment
<1>5. ~Finishing(in)  BY <1>2, ChunkTools
<1>6. /\ u.phase = "live" /\ u.open = up.open \cup ToolsIn(in) /\ u.tokens = up.tokens
      /\ u.called \in BOOLEAN /\ (u.called <=> u.open # {}) /\ u.reasoned = FALSE
  BY <1>1, <1>2, <1>5, FollowChunk
<1>7. /\ a = Ensure(Start(parser), "response_start", ResponseStart)
      /\ r = SayUsage(b, in.usage) /\ b = Choice(a, c, order)
  BY <1>2, ChatChunkIs, FoldChoices1
<1> HIDE DEF T, t, a, b
<1>8. /\ ChatNear(h, a, t, h.spent, T)
      /\ ChatIs(a.st, TRUE, parser.message_start, parser.message_stop, parser.response_stop,
                parser.completed, parser.text_open, T)
  BY <1>1, <1>7, ChatBegun DEF T
<1>9. c.role \/ a.st.message_start  BY <1>1, <1>2, <1>8 DEF ChatIs
<1>10. c.text => T = {}
  BY <1>1, <1>2
<1>11. ChatLive(h, b, t, h.spent, T \cup S)
  BY <1>2, <1>3, <1>7, <1>8, <1>9, <1>10, ChatChoiceLive
<1>12. {} \in OneOf(Nat) /\ Plus(h.spent, {}) = h.spent  BY DEF OneOf, Plus
<1>13. ChatLive(h, r, t, h.spent, T \cup S)
  <2>1. ChatLive(h, r, t, Plus(h.spent, {}), T \cup S)
    BY <1>2, <1>7, <1>11, <1>12, ChatSayUsage
  <2> QED  BY <1>12, <2>1
<1>14. \A i \in {0, 1} : i \in u.open <=> i + 1 \in T \cup S  BY <1>1, <1>3, <1>6
<1>15. u.open \subseteq {0, 1} /\ u.tokens \in Nat /\ h.spent = u.tokens  BY <1>1, <1>4, <1>6
<1> QED  BY <1>6, <1>13, <1>14, <1>15, ChatLiveBack DEF t

LEMMA ChatFeedLast ==
    ASSUME NEW h, ChatBack(parser, h, up), up.phase \in {"idle", "live"}, NEW in, NEW c,
           ChatLast(in, c), NEW order \in Orders,
           NEW u, u = Follow(in), NEW r, r = ChatChunk(parser, in, order)
    PROVE  ChatFed(h, r, u)
<1> DEFINE T == parser.open_tools
           t == Terms("chat", u)
           a == Ensure(Start(parser), "response_start", ResponseStart)
           b == FoldChoices(a, <<c>>, order)
<1>1. /\ ChatHeld(parser, h) /\ ToolsReady(parser, h) /\ TextReady(parser, h)
      /\ parser \in ChatState /\ ~parser.message_stop /\ h.spent = up.tokens
      /\ up.open \subseteq {0, 1} /\ up.tokens \in Nat
      /\ up.called \in BOOLEAN /\ (up.called <=> up.open # {}) /\ up.reasoned = FALSE
      /\ up.phase = "live" => parser.message_start
  BY DEF ChatBack, ChatHeld
<1>2. /\ in.kind = "chunk" /\ in.choices = {<<c>>} /\ in.usage \in UsageNow
      /\ c.role \in BOOLEAN /\ ~c.text /\ (c.role <=> up.phase = "idle") /\ c.tools = {}
  BY DEF ChatLast
<1>3. PICK x \in ChatReasons : c.finish = {x}  BY DEF ChatLast
<1>4. ToolsIn(in) = {} /\ Finishing(in) /\ ReasonIn(in) = {x}  BY <1>2, <1>3, ChunkTools
<1>5. /\ in.usage \in OneOf(Nat)
      /\ Plus(up.tokens, in.usage) = IF in.usage = {} THEN up.tokens ELSE CHOOSE n \in in.usage : TRUE
  BY <1>1, <1>2, UsageNowIs
<1>6. /\ u.phase = "stopped" /\ u.open = up.open /\ u.tokens = Plus(up.tokens, in.usage)
      /\ u.called \in BOOLEAN /\ (u.called <=> u.open # {}) /\ u.reasoned = TRUE
  BY <1>1, <1>2, <1>4, <1>5, FollowChunk
<1>7. /\ a = Ensure(Start(parser), "response_start", ResponseStart)
      /\ r = SayUsage(b, in.usage) /\ b = Choice(a, c, order)
  BY <1>2, ChatChunkIs, FoldChoices1
<1>8. FromProviderString(x) \in StopReason /\ Sense(FromProviderString(x)) = Means(x)
  BY DEF FromProviderString, StopReason, ChatReasons, Sense, Means
<1>16. u.reason = Means(x)  BY <1>4, FollowReason
<1>9. Honest(FromProviderString(x), t)  BY <1>8, <1>16 DEF Honest, Terms, Due
<1> HIDE DEF T, t, a, b
<1>10. /\ ChatNear(h, a, t, h.spent, T)
       /\ ChatIs(a.st, TRUE, parser.message_start, parser.message_stop, parser.response_stop,
                 parser.completed, parser.text_open, T)
  BY <1>1, <1>7, ChatBegun DEF T
<1>11. c.role \/ a.st.message_start  BY <1>1, <1>2, <1>10 DEF ChatIs
<1>12. ChatOver(h, b, t, h.spent)
  BY <1>2, <1>3, <1>7, <1>8, <1>9, <1>10, <1>11, ChatChoiceOver
<1>13. ChatOver(h, r, t, Plus(h.spent, in.usage))
  BY <1>5, <1>7, <1>12, ChatSayUsage
<1>14. Plus(h.spent, in.usage) = u.tokens /\ u.open \subseteq {0, 1}  BY <1>1, <1>6
<1>15. u.tokens \in Nat
  <2>1. h \in Account /\ h.spent \in Nat  BY <1>1 DEF ChatHeld, Account
  <2>2. CASE in.usage = {}  BY <1>1, <1>6, <2>2 DEF Plus
  <2>3. CASE in.usage # {}
    <3>1. (CHOOSE n \in in.usage : TRUE) \in in.usage  BY <2>3
    <3>2. in.usage \subseteq Nat  BY <1>5 DEF OneOf
    <3> QED  BY <1>1, <1>6, <2>3, <3>1, <3>2 DEF Plus
  <2> QED  BY <2>2, <2>3
<1> QED  BY <1>6, <1>13, <1>14, <1>15, ChatOverBack DEF t

(* What follows the finish: usage, and nothing else.                       *)
LEMMA ChatFeedAfter ==
    ASSUME NEW h, ChatBack(parser, h, up), up.phase = "stopped", "ResponseStop" \notin h.seen,
           NEW in, in.kind = "chunk", in.choices \in {{}, {<<>>}}, in.usage \in UsageNow,
           NEW order \in Orders,
           NEW u, u = Follow(in), NEW r, r = ChatChunk(parser, in, order)
    PROVE  ChatFed(h, r, u) /\ u.called = up.called /\ u.reason = up.reason /\ u.reasoned = up.reasoned
<1> DEFINE t == Terms("chat", u)
           a == Ensure(Start(parser), "response_start", ResponseStart)
<1>1. /\ ChatHeld(parser, h) /\ ToolsReady(parser, h) /\ TextReady(parser, h)
      /\ parser.message_stop /\ ~parser.response_stop /\ h.spent = up.tokens
      /\ up.open \subseteq {0, 1} /\ up.tokens \in Nat
      /\ up.called \in BOOLEAN /\ (up.called <=> up.open # {}) /\ up.reasoned \in BOOLEAN
  BY DEF ChatBack, ChatHeld, Flags
<1>2. ToolsIn(in) = {} /\ ~Finishing(in) /\ ReasonIn(in) = {}  BY ChunkIdle
<1>3. /\ in.usage \in OneOf(Nat)
      /\ Plus(up.tokens, in.usage) = IF in.usage = {} THEN up.tokens ELSE CHOOSE n \in in.usage : TRUE
  BY <1>1, UsageNowIs
<1>4. /\ u.phase = "stopped" /\ u.open = up.open /\ u.tokens = Plus(up.tokens, in.usage)
      /\ u.called = up.called /\ u.reason = up.reason /\ u.reasoned = up.reasoned
  <2>1. u.phase = "stopped" /\ u.open = up.open  BY <1>2, FollowChunk
  <2>2. u.tokens = Plus(up.tokens, in.usage)  BY <1>3, FollowChunk, Zenon
  <2>3. /\ u.called \in BOOLEAN /\ u.reasoned \in BOOLEAN
        /\ (u.called <=> up.called) /\ (u.reasoned <=> up.reasoned)
    BY <1>2, FollowChunk
  <2>4. u.reason = up.reason  BY <1>2, FollowReason
  <2> QED  BY <1>1, <2>1, <2>2, <2>3, <2>4
<1>5. a = Ensure(Start(parser), "response_start", ResponseStart) /\ r = SayUsage(a, in.usage)
  <2>1. FoldChoices(a, <<>>, order) = a  BY FoldChoices0
  <2>2. in.choices = {} => r = SayUsage(a, in.usage)  BY ChatChunkIs
  <2>3. in.choices = {<<>>} => r = SayUsage(FoldChoices(a, <<>>, order), in.usage)  BY ChatChunkIs
  <2> QED  BY <2>1, <2>2, <2>3
<1> HIDE DEF t, a
<1>6. ChatOver(h, a, t, h.spent)  BY <1>1, <1>5, ChatBegun
<1>7. ChatOver(h, r, t, Plus(h.spent, in.usage))  BY <1>3, <1>5, <1>6, ChatSayUsage
<1>8. u.tokens \in Nat
  <2>2. CASE in.usage = {}  BY <1>1, <1>4, <2>2 DEF Plus
  <2>3. CASE in.usage # {}
    <3>1. (CHOOSE n \in in.usage : TRUE) \in in.usage  BY <2>3
    <3>2. in.usage \subseteq Nat  BY <1>3 DEF OneOf
    <3> QED  BY <1>1, <1>4, <2>3, <3>1, <3>2 DEF Plus
  <2> QED  BY <2>2, <2>3
<1>9. Plus(h.spent, in.usage) = u.tokens /\ u.open \subseteq {0, 1}  BY <1>1, <1>4
<1>10. ChatFed(h, r, u)  BY <1>1, <1>4, <1>7, <1>8, <1>9, ChatOverBack DEF t
<1> QED  BY <1>4, <1>10

LEMMA ChatFeedDone ==
    ASSUME NEW h, ChatBack(parser, h, up), up.phase # "gone",
           NEW in, in.kind = "done", NEW order \in Orders,
           NEW u, u = Follow(in), NEW r, r = HandleDone(parser, order)
    PROVE  ChatFed(h, r, u) /\ u.called = up.called /\ u.reason = up.reason /\ u.reasoned = up.reasoned
<1> DEFINE t == Terms("chat", u)
           a == Ensure(Start(parser), "response_start", ResponseStart)
           f == Wrap(a, order)
<1>1. /\ ChatHeld(parser, h) /\ ToolsReady(parser, h) /\ TextReady(parser, h)
      /\ parser.message_stop \/ up.reasoned = FALSE
      /\ up.open \subseteq {0, 1} /\ up.tokens \in Nat
      /\ up.called \in BOOLEAN /\ (up.called <=> up.open # {}) /\ up.reasoned \in BOOLEAN
  BY DEF ChatBack, ChatHeld
<1>2. /\ u.phase = "stopped" /\ u.open = up.open /\ u.tokens = up.tokens
      /\ u.called = up.called /\ u.reason = up.reason /\ u.reasoned = up.reasoned
  BY <1>1, FollowDone
<1>3. a = Ensure(Start(parser), "response_start", ResponseStart) /\ f = Wrap(a, order)
      /\ r = [f EXCEPT !.st.completed = TRUE]
  BY DEF HandleDone
<1>4. parser.message_stop \/ Honest("EndTurn", t)  BY <1>1, <1>2 DEF Honest, Terms
<1>5. t.tokens = u.tokens  BY DEF Terms
<1> HIDE DEF t, a, f
<1>6. /\ ChatIs(a.st, TRUE, parser.message_start, parser.message_stop, parser.response_stop,
                parser.completed, parser.text_open, parser.open_tools)
      /\ ChatTo(h, a, t, h, {})
  BY <1>1, <1>3, ChatBegun
<1>7. PICK k : ChatAcc(h, a, t, k) /\ k.spent = h.spent  BY <1>6 DEF ChatTo
<1>8. a.st.response_start /\ (a.st.message_stop \/ Honest("EndTurn", t)) /\ k.spent = t.tokens
  <2>1. h.spent = up.tokens  BY DEF ChatBack
  <2> QED  BY <1>2, <1>4, <1>5, <1>6, <1>7, <2>1 DEF ChatIs
<1>9. /\ ChatIs(f.st, TRUE, TRUE, TRUE, TRUE, a.st.completed, FALSE, {})
      /\ ChatTo(h, f, t, k, BlockIndices)
  BY <1>3, <1>7, <1>8, ChatWrap
<1>10. PICK m : ChatAcc(h, f, t, m) /\ m.spent = k.spent  BY <1>9 DEF ChatTo
<1>11. Shaped(r) /\ r.st = [f.st EXCEPT !.completed = TRUE] /\ r.out = f.out
  <2>1. Shaped(f)  BY <1>10 DEF ChatAcc
  <2> QED  BY <1>3, <2>1, MarkedAs
<1>12. ChatIs(r.st, TRUE, TRUE, TRUE, TRUE, TRUE, FALSE, {})
  BY <1>9, <1>11 DEF ChatIs, ChatState
<1>13. ChatHeld(r.st, m)
  <2>1. Flags(r.st, m)  BY <1>9, <1>10, <1>12 DEF ChatIs, Flags, ChatAcc, ChatHeld
  <2> QED  BY <1>9, <1>10, <1>12, <2>1 DEF ChatIs, ChatAcc, ChatHeld
<1>14. ChatAcc(h, r, t, m)  BY <1>10, <1>11, <1>13 DEF ChatAcc
<1>15. m.spent = u.tokens /\ r.st.message_stop /\ r.st.response_stop
  BY <1>5, <1>8, <1>10, <1>12 DEF ChatIs
<1>16. ChatFed(h, r, u)
  BY <1>1, <1>2, <1>14, <1>15, ChatEndBack DEF t
<1> QED  BY <1>2, <1>16

LEMMA ChatFeedEof ==
    ASSUME NEW h, ChatBack(parser, h, up), up.phase # "gone", NEW order \in Orders,
           NEW u, u = [up EXCEPT !.phase = "gone"],
           u.phase = "gone", u.open = up.open, u.tokens = up.tokens, u.called = up.called,
           u.reason = up.reason, u.reasoned = up.reasoned,
           NEW r, r = ChatFinalize(parser, order)
    PROVE  ChatFed(h, r, u)
<1> DEFINE t == Terms("chat", u)
           a == Start(parser)
<1>1. /\ ChatHeld(parser, h) /\ ToolsReady(parser, h) /\ TextReady(parser, h)
      /\ parser.message_stop \/ up.reasoned = FALSE
      /\ h.spent = up.tokens
      /\ up.open \subseteq {0, 1} /\ up.tokens \in Nat
      /\ up.called \in BOOLEAN /\ (up.called <=> up.open # {}) /\ up.reasoned \in BOOLEAN
  BY DEF ChatBack, ChatHeld
<1>2. ChatAcc(h, a, t, h) /\ a.st = parser  BY <1>1, ChatStarts
<1>3. parser.message_stop \/ Honest("EndTurn", t)  BY <1>1 DEF Honest, Terms
<1>4. t.tokens = u.tokens  BY DEF Terms
<1>5. CASE parser.response_stop \/ ~parser.response_start
  <2>1. r = a  BY <1>5 DEF ChatFinalize
  <2> HIDE DEF t, a
  <2>2. ChatBack(r.st, h, u)
    BY <1>1, <1>2, <1>5, <2>1 DEF ChatBack
  <2> QED  BY <1>2, <2>1, <2>2 DEF ChatFed, ChatAcc, t
<1>6. CASE ~(parser.response_stop \/ ~parser.response_start)
  <2>1. r = Wrap(a, order)  BY <1>6 DEF ChatFinalize
  <2> HIDE DEF t, a
  <2>2. a.st.response_start /\ (a.st.message_stop \/ Honest("EndTurn", t)) /\ h.spent = t.tokens
    BY <1>1, <1>2, <1>3, <1>4, <1>6
  <2>3. /\ ChatIs(r.st, TRUE, TRUE, TRUE, TRUE, a.st.completed, FALSE, {})
        /\ ChatTo(h, r, t, h, BlockIndices)
    BY <1>2, <2>1, <2>2, ChatWrap
  <2>4. PICK m : ChatAcc(h, r, t, m) /\ m.spent = h.spent  BY <2>3 DEF ChatTo
  <2>5. m.spent = u.tokens /\ r.st.message_stop /\ r.st.response_stop
    BY <1>4, <2>2, <2>3, <2>4 DEF ChatIs
  <2> QED  BY <1>1, <2>4, <2>5, ChatEndBack DEF t
<1> QED  BY <1>5, <1>6

LEMMA MishapLeads ==
    ASSUME NEW h, NEW t, NEW st, NEW r, Mishap(r, st)
    PROVE  r.st = st /\ Leads(h, r.out, h, t)
<1>1. Shaped(Start(st)) /\ Start(st).st = st /\ Start(st).out = <<>>  BY DEF Start, Shaped
<1>2. ASSUME NEW e \in {StreamErr, ErrorEvent}, r = Say(Start(st), <<e>>)
      PROVE  r.st = st /\ Leads(h, r.out, h, t)
  <2> DEFINE a == Start(st)
  <2>1. a.st = st /\ a.out = <<>> /\ Shaped(a) /\ r = Say(a, <<e>>)  BY <1>1, <1>2
  <2> HIDE DEF a
  <2>2. r.st = a.st /\ r.out = Cat(a.out, <<e>>)  BY <2>1, Said
  <2>3. Regular(h, e, t) /\ Book(h, e) = h
    BY <1>2 DEF Regular, Book, StreamErr, ErrorEvent, Plain
  <2>4. Leads(h, <<>>, h, t)  BY LeadsNothing
  <2>5. Leads(h, <<>> \o <<e>>, Book(h, e), t)  BY <2>3, <2>4, LeadsOn
  <2> QED  BY <2>1, <2>2, <2>3, <2>5 DEF Cat
<1>3. CASE r = Start(st)  BY <1>1, <1>3, LeadsNothing
<1> QED  BY <1>2, <1>3 DEF Mishap

(* The chat parser, whatever the upstream does next.                       *)
LEMMA ChatFeed ==
    ASSUME NEW h, ChatBack(parser, h, up), "ResponseStop" \notin h.seen, up.phase # "gone",
           provider = "chat", TextAfterTools = FALSE, NEW in, NEW order \in Orders,
           NEW u, \/ in \in ChatOffers /\ u = Follow(in)
                  \/ in \in Faults /\ u = up
                  \/ in = [kind |-> "eof"] /\ u = [up EXCEPT !.phase = "gone"],
           u.phase = "gone" => u.open = up.open /\ u.tokens = up.tokens
                               /\ u.called = up.called /\ u.reason = up.reason /\ u.reasoned = up.reasoned,
           NEW r, r = ChatInput(parser, in, order)
    PROVE  /\ ChatFed(h, r, u)
           /\ h.stop # {} => u.called = up.called /\ u.reason = up.reason /\ u.reasoned = up.reasoned
<1>0. up.phase \in {"idle", "live", "stopped"} /\ (up.phase \in {"idle", "live"} => h.stop = {})
  BY DEF ChatBack, ChatHeld, Flags
<1>1. ASSUME in \in ChatOffers, u = Follow(in)
      PROVE  /\ ChatFed(h, r, u)
             /\ h.stop # {} => u.called = up.called /\ u.reason = up.reason /\ u.reasoned = up.reasoned
  <2>1. CASE in.kind = "done"
    <3>1. r = HandleDone(parser, order)  BY <2>1 DEF ChatInput
    <3> QED  BY <1>1, <2>1, <3>1, ChatFeedDone
  <2>2. ASSUME up.phase \in {"idle", "live"}, NEW c, ChatFragment(in, c)
        PROVE  ChatFed(h, r, u)
    <3>1. r = ChatChunk(parser, in, order)  BY <2>2 DEF ChatInput, ChatFragment
    <3> QED  BY <1>1, <2>2, <3>1, ChatFeedFragment
  <2>3. ASSUME up.phase \in {"idle", "live"}, NEW c, ChatLast(in, c)
        PROVE  ChatFed(h, r, u)
    <3>1. r = ChatChunk(parser, in, order)  BY <2>3 DEF ChatInput, ChatLast
    <3> QED  BY <1>1, <2>3, <3>1, ChatFeedLast
  <2>4. CASE /\ up.phase \notin {"idle", "live"}
             /\ in.kind = "chunk" /\ in.choices \in {{}, {<<>>}} /\ in.usage \in UsageNow
    <3>1. r = ChatChunk(parser, in, order)  BY <2>4 DEF ChatInput
    <3>2. up.phase = "stopped"  BY <1>0, <2>4
    <3> QED  BY <1>1, <2>4, <3>1, <3>2, ChatFeedAfter
  <2>5. \/ in.kind = "done"
        \/ up.phase \in {"idle", "live"} /\ \E c : ChatFragment(in, c) \/ ChatLast(in, c)
        \/ /\ up.phase \notin {"idle", "live"}
           /\ in.kind = "chunk" /\ in.choices \in {{}, {<<>>}} /\ in.usage \in UsageNow
    BY <1>1, ChatOfferSorts
  <2> QED  BY <1>0, <2>1, <2>2, <2>3, <2>4, <2>5
<1>2. ASSUME in \in Faults, u = up
      PROVE  ChatFed(h, r, u) /\ u.called = up.called /\ u.reason = up.reason /\ u.reasoned = up.reasoned
  <2>1. Mishap(r, parser)
    BY <1>2 DEF Faults, ChatInput, ChatTransportError, Mishap
  <2>2. r.st = parser /\ Leads(h, r.out, h, Terms("chat", u))  BY <2>1, MishapLeads
  <2> QED  BY <1>2, <2>2 DEF ChatFed
<1>3. ASSUME in = [kind |-> "eof"], u = [up EXCEPT !.phase = "gone"]
      PROVE  ChatFed(h, r, u) /\ u.called = up.called /\ u.reason = up.reason /\ u.reasoned = up.reasoned
  <2>1. r = ChatFinalize(parser, order)  BY <1>3 DEF ChatInput
  <2>2. u.phase = "gone"  BY <1>3
  <2> QED  BY <1>3, <2>1, <2>2, ChatFeedEof
<1> QED  BY <1>1, <1>2, <1>3
-----------------------------------------------------------------------------
(* The account and the validator of StreamLifecycle.                       *)
LEMMA BookSound ==
    ASSUME NEW g, Sound(g), NEW e, NEW t, Regular(g, e, t)
    PROVE  Sound(Book(g, e))
<1> DEFINE h == Book(g, e)
<1>0. g \in Account  BY DEF Sound
<1>1. CASE e.ev \in {"Err", "Error", "TextDelta", "ReasoningDelta", "ToolCallArgumentsDelta"}
  BY <1>1 DEF Book
<1>2. CASE e.ev \in {"ResponseStart", "MessageStart", "ResponseStop"}
  <2>1. h = WithSeen(g, e.ev)  BY <1>2 DEF Book
  <2>2. h \in Account  BY <1>0, <1>2, <2>1, MoveTypes DEF Envelopes
  <2>3. h.seen = g.seen \cup {e.ev} /\ h.stage = g.stage /\ h.stop = g.stop  BY <2>1 DEF WithSeen
  <2> HIDE DEF h
  <2>4. AllQuiet(g) => AllQuiet(h)  BY <2>3 DEF AllQuiet
  <2>5. /\ e.ev = "MessageStart" => "ResponseStart" \in g.seen
        /\ e.ev = "ResponseStop" => "MessageStop" \in g.seen
    BY DEF Regular
  <2>6. Sound(h)  BY <1>2, <2>2, <2>3, <2>4, <2>5 DEF Sound
  <2> QED  BY <2>6 DEF h
<1>3. CASE e.ev = "MessageStop"
  <2>1. h = WithStop(g, e.stop)  BY <1>3 DEF Book
  <2>2. h \in Account /\ AllQuiet(g) /\ "ResponseStart" \in g.seen
    BY <1>0, <1>3, <2>1, MoveTypes DEF Regular
  <2>3. h.seen = g.seen \cup {"MessageStop"} /\ h.stage = g.stage /\ h.stop = {e.stop}
    BY <2>1 DEF WithStop
  <2> HIDE DEF h
  <2>4. AllQuiet(h)  BY <2>2, <2>3 DEF AllQuiet
  <2>5. Sound(h)  BY <1>3, <2>2, <2>3, <2>4 DEF Sound
  <2> QED  BY <2>5 DEF h
<1>4. CASE e.ev \in {"ContentBlockStart", "ToolCallStart", "ToolCallStop", "ContentBlockStop"}
  <2>1. PICK x \in Stages : h = WithStage(g, e.index, x)
    BY <1>4 DEF Book, Regular, Stages, ContentBlockKind
  <2>2. h \in Account /\ "MessageStart" \in g.seen /\ "MessageStop" \notin g.seen
    BY <1>0, <1>4, <2>1, MoveTypes DEF Regular
  <2>3. h.seen = g.seen /\ h.stop = g.stop  BY <2>1 DEF WithStage
  <2> HIDE DEF h
  <2>5. Sound(h)  BY <1>4, <2>2, <2>3 DEF Sound
  <2> QED  BY <2>5 DEF h
<1>5. CASE e.ev = "UsageDelta"
  <2>1. PICK n \in Nat : e = UsageDelta(n)  BY <1>5 DEF Regular
  <2>2. (CHOOSE m \in {n} : TRUE) = n /\ e.usage = {n}  BY <2>1 DEF UsageDelta
  <2>3. h = WithSpent(g, n)  BY <1>5, <2>2 DEF Book
  <2>4. h \in Account /\ h.seen = g.seen /\ h.stage = g.stage /\ h.stop = g.stop
    BY <1>0, <2>3, MoveTypes DEF WithSpent
  <2> HIDE DEF h
  <2>5. AllQuiet(g) => AllQuiet(h)  BY <2>4 DEF AllQuiet
  <2>6. Sound(h)  BY <2>4, <2>5 DEF Sound
  <2> QED  BY <2>6 DEF h
<1> QED  BY <1>1, <1>2, <1>3, <1>4, <1>5 DEF Regular

LEMMA OfKinds ==
    ASSUME NEW l, NEW g \in Account, Of(l, g), NEW i \in BlockIndices
    PROVE  /\ i \in Lifecycle!OpenIndices(l) <=> BlockKind(g.stage[i]) \in ContentBlockKind
           /\ BlockKind(g.stage[i]) \in ContentBlockKind =>
                 Lifecycle!KindOf(l, i) = {BlockKind(g.stage[i])}
<1>1. \A b \in l.open : /\ b[1] \in BlockIndices /\ b[2] \in ContentBlockKind
                        /\ b = <<b[1], b[2]>>
  BY DEF Of
<1>2. \A k \in ContentBlockKind : <<i, k>> \in l.open <=> BlockKind(g.stage[i]) = k
  BY DEF Of
<1> DEFINE K == BlockKind(g.stage[i])
<1>3. i \in Lifecycle!OpenIndices(l) <=> K \in ContentBlockKind
  <2> HIDE DEF K
  <2>1. ASSUME i \in Lifecycle!OpenIndices(l) PROVE K \in ContentBlockKind
    <3>1. PICK b \in l.open : b[1] = i  BY <2>1 DEF Lifecycle!OpenIndices
    <3>2. b[2] \in ContentBlockKind /\ <<i, b[2]>> \in l.open  BY <1>1, <3>1
    <3>3. K = b[2]  BY <1>2, <3>2 DEF K
    <3> QED  BY <3>2, <3>3
  <2>2. ASSUME K \in ContentBlockKind PROVE i \in Lifecycle!OpenIndices(l)
    <3>1. <<i, K>> \in l.open  BY <1>2, <2>2 DEF K
    <3>2. <<i, K>>[1] = i  OBVIOUS
    <3> QED  BY <3>1, <3>2 DEF Lifecycle!OpenIndices
  <2> QED  BY <2>1, <2>2
<1>4. ASSUME K \in ContentBlockKind PROVE Lifecycle!KindOf(l, i) = {K}
  <2>1. <<i, K>> \in l.open  BY <1>2, <1>4
  <2>2. \A k \in ContentBlockKind : <<i, k>> \in l.open => k = K  BY <1>2
  <2> HIDE DEF K
  <2>3. {c \in l.open : c[1] = i} = {<<i, K>>}
    <3>1. ASSUME NEW c \in l.open, c[1] = i PROVE c = <<i, K>>
      <4>1. c = <<i, c[2]>> /\ c[2] \in ContentBlockKind  BY <1>1, <3>1
      <4>2. c[2] = K  BY <2>2, <3>1, <4>1
      <4> QED  BY <4>1, <4>2
    <3>2. <<i, K>>[1] = i  OBVIOUS
    <3> QED  BY <2>1, <3>1, <3>2
  <2>4. Lifecycle!KindOf(l, i) = {b[2] : b \in {<<i, K>>}}  BY <2>3 DEF Lifecycle!KindOf
  <2>5. <<i, K>>[2] = K  OBVIOUS
  <2> QED  BY <2>4, <2>5
<1> QED  BY <1>3, <1>4

(* A regular event is one the validator accepts.                           *)
LEMMA RegularLegal ==
    ASSUME NEW l, NEW g, Sound(g), Of(l, g), NEW e, NEW t, Regular(g, e, t)
    PROVE  Lifecycle!Legal(l, e)
<1> USE DEF Lifecycle!Legal
<1>0. g \in Account /\ l.seen = g.seen  BY DEF Sound, Of
<1>1. CASE e.ev \in {"Err", "Error"}  BY <1>1
<1> DEFINE Other == {"ContentBlockStart", "ContentBlockStop", "TextDelta", "ReasoningDelta",
                     "ToolCallStart", "ToolCallArgumentsDelta", "ToolCallStop"}
<1>2. ASSUME e.ev \in {"ResponseStart", "MessageStart", "MessageStop", "ResponseStop", "UsageDelta"}
      PROVE  Lifecycle!Legal(l, e)
  <2>1. /\ "ResponseStop" \in l.seen => "MessageStop" \in l.seen
        /\ "MessageStop" \in l.seen => "ResponseStart" \in l.seen
    BY <1>0 DEF Sound
  <2>2. /\ e.ev = "ResponseStop" => "MessageStop" \in l.seen /\ "ResponseStop" \notin l.seen
        /\ e.ev = "ResponseStart" => l.seen = {}
        /\ e.ev = "MessageStart" => l.seen = {"ResponseStart"}
        /\ e.ev = "MessageStop" => "MessageStop" \notin l.seen
        /\ e.ev = "UsageDelta" => "ResponseStop" \notin l.seen
    BY <1>0 DEF Regular
  <2>3. e.ev \notin l.seen
    BY <1>0, <1>2, <2>2 DEF Account, Envelopes
  <2>4. Lifecycle!IndexRule(l, e) /\ Lifecycle!ToolStopped(l, e) /\ Lifecycle!StartOrder(l, e)
    BY <1>2 DEF Lifecycle!IndexRule, Lifecycle!ToolStopped, Lifecycle!StartOrder
  <2>5. Lifecycle!DeltaKind(l, e)
    BY <1>2 DEF Lifecycle!DeltaKind, Lifecycle!Deltas
  <2>6. Lifecycle!StopOrder(l, e) /\ Lifecycle!AfterMessageStop(l, e)
    BY <1>2, <2>1, <2>2 DEF Lifecycle!StopOrder, Lifecycle!AfterMessageStop
  <2>7. Lifecycle!SingleStart(l, e) /\ Lifecycle!ResponseStopLast(l, e)
    BY <1>2, <2>1, <2>2, <2>3 DEF Lifecycle!SingleStart, Lifecycle!ResponseStopLast
  <2> QED  BY <2>4, <2>5, <2>6, <2>7
<1>3. ASSUME e.ev \in Other PROVE Lifecycle!Legal(l, e)
  <2>1. /\ e.index \in BlockIndices /\ "MessageStart" \in l.seen /\ "MessageStop" \notin l.seen
        /\ "ResponseStop" \notin l.seen
    BY <1>0, <1>3 DEF Regular, Sound
  <2>2. e.ev \notin l.seen  BY <1>0, <1>3 DEF Account, Envelopes
  <2>3. /\ Lifecycle!StopOrder(l, e) /\ Lifecycle!AfterMessageStop(l, e)
        /\ Lifecycle!StartOrder(l, e) /\ Lifecycle!SingleStart(l, e)
        /\ Lifecycle!ResponseStopLast(l, e)
    BY <1>3, <2>1, <2>2 DEF Lifecycle!StopOrder, Lifecycle!AfterMessageStop,
       Lifecycle!StartOrder, Lifecycle!SingleStart, Lifecycle!ResponseStopLast
  <2> DEFINE s == g.stage[e.index]
  <2>4. /\ e.index \in Lifecycle!OpenIndices(l) <=> BlockKind(s) \in ContentBlockKind
        /\ BlockKind(s) \in ContentBlockKind => Lifecycle!KindOf(l, e.index) = {BlockKind(s)}
    BY <1>0, <2>1, OfKinds
  <2>5. /\ e.index \in l.closed <=> s = "closed"
        /\ e.index \in l.tool_stopped <=> s = "halted"
    BY <2>1 DEF Of
  <2>6. /\ e.ev = "ContentBlockStart" => s = "new"
        /\ e.ev = "TextDelta" => s = "Text"
        /\ e.ev = "ReasoningDelta" => s = "Reasoning"
        /\ e.ev = "ToolCallStart" => s = "raw"
        /\ e.ev \in {"ToolCallArgumentsDelta", "ToolCallStop"} => s = "named"
        /\ e.ev = "ContentBlockStop" => s \in {"Text", "Reasoning", "RedactedReasoning", "halted"}
    BY <1>3 DEF Regular
  <2> HIDE DEF s
  <2>7. Lifecycle!IndexRule(l, e)
    BY <2>4, <2>5, <2>6 DEF Lifecycle!IndexRule, BlockKind, ContentBlockKind
  <2>8. Lifecycle!ToolStopped(l, e)
    BY <2>4, <2>5, <2>6 DEF Lifecycle!ToolStopped, BlockKind, ContentBlockKind
  <2>9. Lifecycle!DeltaKind(l, e)
    BY <1>3, <2>4, <2>6 DEF Lifecycle!DeltaKind, Lifecycle!Deltas, BlockKind, ContentBlockKind
  <2> QED  BY <2>3, <2>7, <2>8, <2>9
<1> QED  BY <1>1, <1>2, <1>3 DEF Regular

LEMMA LifecycleWords ==
    /\ Lifecycle!ContentBlockKind = ContentBlockKind
    /\ \A i, k : Lifecycle!ContentBlockStart(i, k) = ContentBlockStart(i, k)
    /\ \A n, i : Lifecycle!BlockEvent(n, i) = BlockEvent(n, i)
    /\ \A n : Lifecycle!Plain(n) = Plain(n)
BY DEF ContentBlockKind, ContentBlockStart, BlockEvent, Plain, NoIndex,
       Lifecycle!ContentBlockKind, Lifecycle!ContentBlockStart, Lifecycle!BlockEvent,
       Lifecycle!Plain, Lifecycle!NoIndex

(* The event as StreamLifecycle knows it, without its payload.             *)
LEMMA RegularEvent ==
    ASSUME NEW l, NEW g, NEW e, NEW t, Regular(g, e, t), Lifecycle!Legal(l, e)
    PROVE  \E x \in Lifecycle!Event :
              Lifecycle!Legal(l, x) /\ Lifecycle!Record(l, x) = Lifecycle!Record(l, e)
<1>1. CASE e.ev = "ContentBlockStart"
  <2>1. e.index \in BlockIndices /\ e.kind \in ContentBlockKind /\ e = ContentBlockStart(e.index, e.kind)
    BY <1>1 DEF Regular
  <2>2. e \in Lifecycle!Event  BY <2>1, LifecycleWords DEF Lifecycle!Event
  <2> QED  BY <2>2
<1>2. CASE e.ev \in {"TextDelta", "ReasoningDelta", "ToolCallStart", "ToolCallArgumentsDelta",
                     "ToolCallStop", "ContentBlockStop"}
  <2>1. e.index \in BlockIndices /\ e = BlockEvent(e.ev, e.index)
    BY <1>2 DEF Regular
  <2>2. e.ev \in DOMAIN Lifecycle!Deltas \cup {"ContentBlockStop"}
    BY <1>2 DEF Lifecycle!Deltas
  <2>3. e \in Lifecycle!Event  BY <2>1, <2>2, LifecycleWords DEF Lifecycle!Event
  <2> QED  BY <2>3
<1>3. CASE e.ev \in {"ResponseStart", "MessageStart", "MessageStop", "ResponseStop", "UsageDelta",
                     "Error", "Err"}
  <2> DEFINE x == Plain(e.ev)
  <2>1. x \in Lifecycle!Event  BY <1>3, LifecycleWords DEF Lifecycle!Event
  <2>2. x.ev = e.ev /\ x.index = NoIndex  BY DEF Plain
  <2>3. e.index = NoIndex
    BY <1>3 DEF Regular, Plain, ResponseStart, MessageStart, MessageStop, ResponseStop, UsageDelta
  <2> HIDE DEF x
  <2>4. Lifecycle!Record(l, x) = Lifecycle!Record(l, e)
    BY <1>3, <2>2, <2>3 DEF Lifecycle!Record, Lifecycle!Remember
  <2>5. Lifecycle!Legal(l, x)
    BY <1>3, <2>2, <2>3 DEF Lifecycle!Legal, Lifecycle!IndexRule, Lifecycle!StopOrder,
       Lifecycle!AfterMessageStop, Lifecycle!ToolStopped, Lifecycle!DeltaKind,
       Lifecycle!StartOrder, Lifecycle!SingleStart, Lifecycle!ResponseStopLast
  <2> QED  BY <2>1, <2>4, <2>5
<1> QED  BY <1>1, <1>2, <1>3 DEF Regular

LEMMA RecordIs ==
    ASSUME NEW l, LifeShape(l), NEW e, NEW m, m = Lifecycle!Record(l, e)
    PROVE  /\ LifeShape(m) /\ m.ended = l.ended
           /\ m.error = IF e.ev \in {"Error", "Err"} THEN TRUE ELSE l.error
           /\ m.seen = IF e.ev \in Envelopes THEN l.seen \cup {e.ev} ELSE l.seen
           /\ m.open = CASE e.ev = "ContentBlockStart" -> l.open \cup {<<e.index, e.kind>>}
                         [] e.ev = "ContentBlockStop" -> {b \in l.open : b[1] # e.index}
                         [] OTHER -> l.open
           /\ m.closed = IF e.ev = "ContentBlockStop" THEN l.closed \cup {e.index} ELSE l.closed
           /\ m.tool_stopped = CASE e.ev = "ContentBlockStop" -> l.tool_stopped \ {e.index}
                                 [] e.ev = "ToolCallStop" -> l.tool_stopped \cup {e.index}
                                 [] OTHER -> l.tool_stopped
<1> DEFINE o == l.open
           n == Lifecycle!Remember(l, e)
<1>1. m = [n EXCEPT !.last = e.ev, !.at = e.index, !.tick = ~@]  BY DEF Lifecycle!Record
<1>2. /\ LifeShape(n) /\ n.ended = l.ended
      /\ n.error = IF e.ev \in {"Error", "Err"} THEN TRUE ELSE l.error
      /\ n.seen = IF e.ev \in Envelopes THEN l.seen \cup {e.ev} ELSE l.seen
      /\ n.open = CASE e.ev = "ContentBlockStart" -> l.open \cup {<<e.index, e.kind>>}
                    [] e.ev = "ContentBlockStop" -> {b \in l.open : b[1] # e.index}
                    [] OTHER -> l.open
      /\ n.closed = IF e.ev = "ContentBlockStop" THEN l.closed \cup {e.index} ELSE l.closed
      /\ n.tool_stopped = CASE e.ev = "ContentBlockStop" -> l.tool_stopped \ {e.index}
                            [] e.ev = "ToolCallStop" -> l.tool_stopped \cup {e.index}
                            [] OTHER -> l.tool_stopped
  <2>1. CASE e.ev \in {"Error", "Err"}
    BY <2>1 DEF Lifecycle!Remember, LifeShape, Envelopes
  <2>2. CASE e.ev \in Envelopes
    BY <2>2 DEF Lifecycle!Remember, LifeShape, Envelopes
  <2>3. CASE e.ev = "ContentBlockStart"
    BY <2>3 DEF Lifecycle!Remember, LifeShape, Envelopes
  <2>4. CASE e.ev = "ContentBlockStop"
    BY <2>4 DEF Lifecycle!Remember, LifeShape, Envelopes
  <2>5. CASE e.ev = "ToolCallStop"
    BY <2>5 DEF Lifecycle!Remember, LifeShape, Envelopes
  <2>6. CASE e.ev \notin {"Error", "Err", "ContentBlockStart", "ContentBlockStop", "ToolCallStop"}
             /\ e.ev \notin Envelopes
    BY <2>6 DEF Lifecycle!Remember, LifeShape, Envelopes
  <2> QED  BY <2>1, <2>2, <2>3, <2>4, <2>5, <2>6
<1> HIDE DEF n
<1>3. /\ LifeShape(m) /\ m.ended = n.ended /\ m.error = n.error /\ m.seen = n.seen
      /\ m.open = n.open /\ m.closed = n.closed /\ m.tool_stopped = n.tool_stopped
  BY <1>1, <1>2 DEF LifeShape
<1> QED  BY <1>2, <1>3

LEMMA RecordOf ==
    ASSUME NEW l, NEW g, Sound(g), Of(l, g), NEW e, NEW t, Regular(g, e, t)
    PROVE  Of(Lifecycle!Record(l, e), Book(g, e))
<1> DEFINE m == Lifecycle!Record(l, e)
           h == Book(g, e)
<1>0. g \in Account /\ LifeShape(l)  BY DEF Sound, Of
<1>1. /\ LifeShape(m)
      /\ m.seen = IF e.ev \in Envelopes THEN l.seen \cup {e.ev} ELSE l.seen
      /\ m.open = CASE e.ev = "ContentBlockStart" -> l.open \cup {<<e.index, e.kind>>}
                    [] e.ev = "ContentBlockStop" -> {b \in l.open : b[1] # e.index}
                    [] OTHER -> l.open
      /\ m.closed = IF e.ev = "ContentBlockStop" THEN l.closed \cup {e.index} ELSE l.closed
      /\ m.tool_stopped = CASE e.ev = "ContentBlockStop" -> l.tool_stopped \ {e.index}
                            [] e.ev = "ToolCallStop" -> l.tool_stopped \cup {e.index}
                            [] OTHER -> l.tool_stopped
  BY <1>0, RecordIs
<1> HIDE DEF m
<1>2. CASE e.ev \notin {"ContentBlockStart", "ToolCallStart", "ToolCallStop", "ContentBlockStop"}
  <2>1. h.stage = g.stage /\ h.seen = IF e.ev \in Envelopes THEN g.seen \cup {e.ev} ELSE g.seen
    BY <1>2 DEF Book, WithSeen, WithStop, WithSpent, Envelopes
  <2> HIDE DEF h
  <2>2. m.open = l.open /\ m.closed = l.closed /\ m.tool_stopped = l.tool_stopped
    BY <1>1, <1>2
  <2>3. Of(m, h)  BY <1>1, <2>1, <2>2 DEF Of
  <2> QED  BY <2>3 DEF m, h
<1> DEFINE i == e.index
<1>3. ASSUME NEW x, h = WithStage(g, i, x), e.index \in BlockIndices
      PROVE  /\ h.seen = g.seen /\ h.stage[i] = x
             /\ \A j \in BlockIndices \ {i} : h.stage[j] = g.stage[j]
  <2>1. h.seen = g.seen /\ h.stage = [g.stage EXCEPT ![i] = x]  BY <1>3 DEF WithStage
  <2>2. DOMAIN g.stage = BlockIndices  BY <1>0 DEF Account
  <2> HIDE DEF h
  <2> QED  BY <1>3, <2>1, <2>2
<1>4. ASSUME e.ev \in {"ContentBlockStart", "ToolCallStart", "ToolCallStop", "ContentBlockStop"}
      PROVE  i \in BlockIndices /\ m.seen = l.seen
  BY <1>1, <1>4 DEF Regular, Envelopes
<1>5. CASE e.ev = "ContentBlockStart"
  <2>1. e.kind \in ContentBlockKind /\ g.stage[i] = "new"  BY <1>5 DEF Regular
  <2>2. h = WithStage(g, i, IF e.kind = "ToolCall" THEN "raw" ELSE e.kind)  BY <1>5 DEF Book
  <2>3. /\ h.seen = g.seen /\ h.stage[i] = IF e.kind = "ToolCall" THEN "raw" ELSE e.kind
        /\ \A j \in BlockIndices \ {i} : h.stage[j] = g.stage[j] /\ i \in BlockIndices
    BY <1>3, <1>4, <1>5, <2>2
  <2>4. /\ m.open = l.open \cup {<<i, e.kind>>} /\ m.closed = l.closed
        /\ m.tool_stopped = l.tool_stopped /\ m.seen = l.seen
    BY <1>1, <1>4, <1>5
  <2>5. i \in BlockIndices  BY <1>4, <1>5
  <2> HIDE DEF h, i
  <2>6. BlockKind(h.stage[i]) = e.kind /\ BlockKind(g.stage[i]) = "new"
    BY <2>1, <2>3 DEF BlockKind, ContentBlockKind
  <2>7. \A j \in BlockIndices : \A k \in ContentBlockKind :
           <<j, k>> \in m.open <=> BlockKind(h.stage[j]) = k
    <3> SUFFICES ASSUME NEW j \in BlockIndices, NEW k \in ContentBlockKind
                 PROVE  <<j, k>> \in m.open <=> BlockKind(h.stage[j]) = k
      OBVIOUS
    <3>1. <<j, k>> \in l.open <=> BlockKind(g.stage[j]) = k  BY DEF Of
    <3>2. <<j, k>> \in m.open <=> <<j, k>> \in l.open \/ (j = i /\ k = e.kind)  BY <2>4
    <3>3. CASE j = i  BY <2>6, <3>1, <3>2, <3>3 DEF ContentBlockKind
    <3>4. CASE j # i  BY <2>3, <3>1, <3>2, <3>4
    <3> QED  BY <3>3, <3>4
  <2>8. m.open \subseteq BlockIndices \X ContentBlockKind  BY <2>1, <2>4, <2>5 DEF Of
  <2>9. \A j \in BlockIndices : /\ j \in m.closed <=> h.stage[j] = "closed"
                                /\ j \in m.tool_stopped <=> h.stage[j] = "halted"
    BY <2>1, <2>3, <2>4, <2>5 DEF Of, ContentBlockKind
  <2>10. Of(m, h)  BY <1>1, <2>3, <2>4, <2>7, <2>8, <2>9 DEF Of
  <2> QED  BY <2>10 DEF m, h
<1>6. CASE e.ev = "ContentBlockStop"
  <2>1. g.stage[i] \in {"Text", "Reasoning", "RedactedReasoning", "halted"}  BY <1>6 DEF Regular
  <2>2. h = WithStage(g, i, "closed")  BY <1>6 DEF Book
  <2>5. i \in BlockIndices  BY <1>4, <1>6
  <2>3. /\ h.seen = g.seen /\ h.stage[i] = "closed"
        /\ \A j \in BlockIndices \ {i} : h.stage[j] = g.stage[j]
    BY <1>3, <2>2, <2>5
  <2>4. /\ m.open = {b \in l.open : b[1] # i} /\ m.closed = l.closed \cup {i}
        /\ m.tool_stopped = l.tool_stopped \ {i} /\ m.seen = l.seen
    BY <1>1, <1>4, <1>6
  <2> HIDE DEF h, i
  <2>6. BlockKind(h.stage[i]) = "closed"
    BY <2>3 DEF BlockKind
  <2>7. \A j \in BlockIndices : \A k \in ContentBlockKind :
           <<j, k>> \in m.open <=> BlockKind(h.stage[j]) = k
    <3> SUFFICES ASSUME NEW j \in BlockIndices, NEW k \in ContentBlockKind
                 PROVE  <<j, k>> \in m.open <=> BlockKind(h.stage[j]) = k
      OBVIOUS
    <3>1. <<j, k>> \in l.open <=> BlockKind(g.stage[j]) = k  BY DEF Of
    <3>2. <<j, k>> \in m.open <=> <<j, k>> \in l.open /\ j # i  BY <2>4
    <3>3. CASE j = i  BY <2>6, <3>1, <3>2, <3>3 DEF ContentBlockKind
    <3>4. CASE j # i  BY <2>3, <3>1, <3>2, <3>4
    <3> QED  BY <3>3, <3>4
  <2>8. m.open \subseteq BlockIndices \X ContentBlockKind  BY <2>4, <2>5 DEF Of
  <2>9. \A j \in BlockIndices : /\ j \in m.closed <=> h.stage[j] = "closed"
                                /\ j \in m.tool_stopped <=> h.stage[j] = "halted"
    BY <2>1, <2>3, <2>4, <2>5 DEF Of
  <2>10. Of(m, h)
    <3>1. m.closed \subseteq BlockIndices /\ m.tool_stopped \subseteq BlockIndices
      BY <2>4, <2>5 DEF Of
    <3> QED  BY <1>1, <2>3, <2>4, <2>7, <2>8, <2>9, <3>1 DEF Of
  <2> QED  BY <2>10 DEF m, h
<1>7. ASSUME e.ev \in {"ToolCallStart", "ToolCallStop"} PROVE Of(m, h)
  <2> DEFINE x == IF e.ev = "ToolCallStart" THEN "named" ELSE "halted"
  <2>1. g.stage[i] = IF e.ev = "ToolCallStart" THEN "raw" ELSE "named"  BY <1>7 DEF Regular
  <2>2. h = WithStage(g, i, x)  BY <1>7 DEF Book
  <2>5. i \in BlockIndices  BY <1>4, <1>7
  <2>3. /\ h.seen = g.seen /\ h.stage[i] = x
        /\ \A j \in BlockIndices \ {i} : h.stage[j] = g.stage[j]
    BY <1>3, <2>2, <2>5
  <2>4. /\ m.open = l.open /\ m.closed = l.closed /\ m.seen = l.seen
        /\ m.tool_stopped = IF e.ev = "ToolCallStop" THEN l.tool_stopped \cup {i} ELSE l.tool_stopped
    BY <1>1, <1>4, <1>7
  <2> HIDE DEF h, i
  <2>6. \A j \in BlockIndices : BlockKind(h.stage[j]) = BlockKind(g.stage[j])
    BY <1>7, <2>1, <2>3 DEF BlockKind
  <2>9. \A j \in BlockIndices : /\ j \in m.closed <=> h.stage[j] = "closed"
                                /\ j \in m.tool_stopped <=> h.stage[j] = "halted"
    BY <1>7, <2>1, <2>3, <2>4, <2>5 DEF Of
  <2> QED
    <3>1. m.tool_stopped \subseteq BlockIndices  BY <2>4, <2>5 DEF Of
    <3> QED  BY <1>1, <2>3, <2>4, <2>6, <2>9, <3>1 DEF Of
<1> QED  BY <1>2, <1>5, <1>6, <1>7 DEF m
-----------------------------------------------------------------------------
(* Frames and the client's view.                                           *)
LEMMA PlaysNothing ==
    ASSUME NEW d, NEW v, NEW t
    PROVE  Plays(d, v, <<>>, v, t)
<1> DEFINE p == [k \in {0} |-> v]
<1>1. /\ p[0] = v /\ p[Len(<<>>)] = v
      /\ \A k \in 1 .. Len(<<>>) :
            Fits(d, p[k - 1], <<>>[k], t) /\ p[k] = Client!See(p[k - 1], <<>>[k])
  OBVIOUS
<1> HIDE DEF p
<1>2. <<>> \in Seq(WireFrame)  OBVIOUS
<1> QED  BY <1>1, <1>2 DEF Plays

LEMMA FitsTyped ==
    ASSUME NEW d, NEW v, NEW f, NEW t, Fits(d, v, f, t)
    PROVE  f \in WireFrame
<1>1. CASE f.fr \in {"begin", "error", "ping", "content", "finish"}
  BY <1>1 DEF Fits, WireFrame, Frame, NoIndex
<1>2. CASE f.fr \in {"open", "delta", "part", "close"}
  BY <1>2 DEF Fits, WireFrame, Frame, BlockIndices
<1>3. CASE f.fr = "stop"  BY <1>3 DEF Fits, WireFrame, StopFrame, NoIndex
<1>4. CASE f.fr = "usage"  BY <1>4 DEF Fits, WireFrame, UsageFrame, NoIndex
<1> QED  BY <1>1, <1>2, <1>3, <1>4 DEF Fits

LEMMA PlaysOn ==
    ASSUME NEW d, NEW v, NEW q, NEW w, NEW t, NEW f, Plays(d, v, q, w, t), Fits(d, w, f, t)
    PROVE  Plays(d, v, Append(q, f), Client!See(w, f), t)
<1>1. q \in Seq(WireFrame) /\ f \in WireFrame  BY FitsTyped DEF Plays
<1>2. PICK p : /\ p[0] = v /\ p[Len(q)] = w
               /\ \A k \in 1 .. Len(q) :
                     Fits(d, p[k - 1], q[k], t) /\ p[k] = Client!See(p[k - 1], q[k])
  BY DEF Plays
<1> DEFINE r == Append(q, f)
           x == Client!See(w, f)
           s == [k \in 0 .. Len(r) |-> IF k = Len(r) THEN x ELSE p[k]]
<1>3. /\ Len(q) \in Nat /\ Len(r) = Len(q) + 1 /\ r \in Seq(WireFrame) /\ r[Len(r)] = f
      /\ \A k \in 1 .. Len(q) : r[k] = q[k]
  BY <1>1
<1>5. x = Client!See(w, f)  OBVIOUS
<1> HIDE DEF r, x
<1>4. /\ s[0] = v /\ s[Len(r)] = x
      /\ \A k \in 1 .. Len(r) : Fits(d, s[k - 1], r[k], t) /\ s[k] = Client!See(s[k - 1], r[k])
  <2>1. s[0] = v /\ s[Len(r)] = x  BY <1>2, <1>3
  <2>2. ASSUME NEW k \in 1 .. Len(r)
        PROVE  Fits(d, s[k - 1], r[k], t) /\ s[k] = Client!See(s[k - 1], r[k])
    <3>1. CASE k = Len(r)
      <4>1. s[k - 1] = w /\ s[k] = x /\ r[k] = f  BY <1>2, <1>3, <3>1
      <4> QED  BY <1>5, <4>1
    <3>2. CASE k # Len(r)
      <4>1. k \in 1 .. Len(q) /\ s[k - 1] = p[k - 1] /\ s[k] = p[k] /\ r[k] = q[k]
        BY <1>3, <2>2, <3>2
      <4> QED  BY <1>2, <4>1
    <3> QED  BY <3>1, <3>2
  <2> QED  BY <2>1, <2>2
<1> HIDE DEF s
<1> QED  BY <1>3, <1>4 DEF Plays, r, x

LEMMA PlaysTail ==
    ASSUME NEW d, NEW v, NEW q, NEW w, NEW t, Plays(d, v, q, w, t), q # <<>>
    PROVE  /\ Fits(d, v, Head(q), t)
           /\ Plays(d, Client!See(v, Head(q)), Tail(q), w, t)
<1>1. q \in Seq(WireFrame)  BY DEF Plays
<1>2. PICK p : /\ p[0] = v /\ p[Len(q)] = w
               /\ \A k \in 1 .. Len(q) :
                     Fits(d, p[k - 1], q[k], t) /\ p[k] = Client!See(p[k - 1], q[k])
  BY DEF Plays
<1> DEFINE r == Tail(q)
           s == [k \in 0 .. Len(r) |-> p[k + 1]]
<1>3. /\ Len(q) \in Nat \ {0} /\ Len(r) = Len(q) - 1 /\ r \in Seq(WireFrame)
      /\ \A k \in 1 .. Len(r) : r[k] = q[k + 1]
      /\ Head(q) = q[1]
  BY <1>1
<1> HIDE DEF r
<1>4. Fits(d, v, Head(q), t) /\ p[1] = Client!See(v, Head(q))
  <2>1. 1 \in 1 .. Len(q) /\ 1 - 1 = 0  BY <1>3
  <2> QED  BY <1>2, <1>3, <2>1
<1>5. s[0] = Client!See(v, Head(q)) /\ s[Len(r)] = w
  BY <1>2, <1>3, <1>4
<1>6. ASSUME NEW k \in 1 .. Len(r)
      PROVE  Fits(d, s[k - 1], r[k], t) /\ s[k] = Client!See(s[k - 1], r[k])
  <2>1. k + 1 \in 1 .. Len(q) /\ s[k - 1] = p[(k + 1) - 1] /\ s[k] = p[k + 1] /\ r[k] = q[k + 1]
    BY <1>3, <1>6
  <2> QED  BY <1>2, <2>1
<1> HIDE DEF s
<1> QED  BY <1>3, <1>4, <1>5, <1>6 DEF Plays, r

LEMMA PlaysDone ==
    ASSUME NEW d, NEW v, NEW w, NEW t, Plays(d, v, <<>>, w, t)
    PROVE  w = v
BY DEF Plays

LEMMA SeeIs ==
    ASSUME NEW v, ViewShape(v), NEW f, NEW w, w = Client!See(v, f)
    PROVE  SeenAs(v, f, w)
<1> DEFINE n == Client!Notice(v, f)
<1>1. w = [n EXCEPT !.last = f.fr, !.at = f.item, !.tick = ~@]  BY DEF Client!See
<1>2. SeenAs(v, f, n)
  <2> USE DEF SeenAs
  <2>1. CASE f.fr \in {"begin", "finish", "error"}  BY <2>1 DEF Client!Notice, ViewShape
  <2>2. CASE f.fr \in {"open", "close"}  BY <2>2 DEF Client!Notice, ViewShape
  <2>3. CASE f.fr \in {"stop", "usage"}  BY <2>3 DEF Client!Notice, ViewShape
  <2>4. CASE f.fr \notin {"begin", "finish", "error", "open", "close", "stop", "usage"}
    BY <2>4 DEF Client!Notice
  <2> QED  BY <2>1, <2>2, <2>3, <2>4
<1> HIDE DEF n
<1>3. ViewShape(n)  BY <1>2 DEF SeenAs
<1>4. /\ ViewShape(w) /\ w.begun = n.begun /\ w.open = n.open /\ w.closed = n.closed
      /\ w.finished = n.finished /\ w.errored = n.errored /\ w.reason = n.reason
      /\ w.usage = n.usage
  BY <1>1, <1>3 DEF ViewShape
<1> QED  BY <1>2, <1>4 DEF SeenAs

(* A frame that fits is a step of ClientStream.                            *)
LEMMA ClientStep ==
    ASSUME ViewShape(view), NEW f, NEW t, Fits(frontend, view, f, t),
           frontend \in {"anthropic", "chat", "responses"},
           frontend' = frontend, view' = Client!See(view, f)
    PROVE  Client!Next
<1>0. /\ NoIndex = Client!NoIndex
      /\ \A n, i : Frame(n, i) = Client!Frame(n, i)
      /\ \A n, x : StopFrame(n, x) = Client!StopFrame(n, x)
      /\ \A n, x : UsageFrame(n, x) = Client!UsageFrame(n, x)
  BY DEF NoIndex, Client!NoIndex, Frame, Client!Frame, StopFrame, Client!StopFrame,
         UsageFrame, Client!UsageFrame
<1>1. CASE f.fr = "begin"
  <2>1. ~view.finished /\ ~view.begun /\ f = Frame("begin", NoIndex)  BY <1>1 DEF Fits
  <2>2. Client!Begin  BY <1>0, <2>1 DEF Client!Begin, Client!Show
  <2> QED  BY <2>2 DEF Client!Next
<1>2. CASE f.fr = "error"
  <2>1. ~view.finished /\ f = Frame("error", NoIndex)  BY <1>2 DEF Fits
  <2>2. Client!Fail  BY <1>0, <2>1 DEF Client!Fail, Client!Show
  <2> QED  BY <2>2 DEF Client!Next
<1>3. CASE f.fr = "ping"
  <2>1. ~view.finished /\ view.begun /\ f = Frame("ping", NoIndex)  BY <1>3 DEF Fits
  <2>2. Client!Ping  BY <1>0, <2>1 DEF Client!Ping, Client!Show, Client!Live
  <2> QED  BY <2>2 DEF Client!Next
<1>4. CASE f.fr = "content"
  <2>1. ~view.finished /\ view.begun /\ f = Frame("content", NoIndex) /\ frontend = "chat"
    BY <1>4 DEF Fits
  <2>2. Client!Content  BY <1>0, <2>1 DEF Client!Content, Client!Show, Client!Live
  <2> QED  BY <2>2 DEF Client!Next
<1>5. CASE f.fr = "open"
  <2>1. /\ ~view.finished /\ view.begun /\ f = Frame("open", f.item) /\ f.item \in BlockIndices
        /\ f.item \notin view.open \cup view.closed
    BY <1>5 DEF Fits
  <2>2. Client!Open(f.item)  BY <1>0, <2>1 DEF Client!Open, Client!Show, Client!Live
  <2> QED  BY <2>1, <2>2 DEF Client!Next
<1>6. CASE f.fr \in {"delta", "part"}
  <2>1. /\ ~view.finished /\ view.begun /\ f = Frame(f.fr, f.item) /\ f.item \in BlockIndices
        /\ f.item \in view.open
    BY <1>6 DEF Fits
  <2>2. CASE f.fr = "delta"
    <3>1. Client!ItemDelta(f.item)
      BY <1>0, <2>1, <2>2 DEF Client!ItemDelta, Client!Show, Client!Live
    <3> QED  BY <2>1, <3>1 DEF Client!Next
  <2>3. CASE f.fr = "part"
    <3>1. Client!Part(f.item)
      BY <1>0, <2>1, <2>3 DEF Client!Part, Client!Show, Client!Live
    <3> QED  BY <2>1, <3>1 DEF Client!Next
  <2> QED  BY <1>6, <2>2, <2>3
<1>7. CASE f.fr = "close"
  <2>1. /\ ~view.finished /\ view.begun /\ f = Frame("close", f.item) /\ f.item \in BlockIndices
        /\ f.item \in view.open /\ frontend # "chat"
    BY <1>7 DEF Fits
  <2>2. Client!Close(f.item)  BY <1>0, <2>1 DEF Client!Close, Client!Show, Client!Live
  <2> QED  BY <2>1, <2>2 DEF Client!Next
<1>8. CASE f.fr = "stop"
  <2>1. /\ ~view.finished /\ view.begun /\ f = StopFrame("stop", f.reason)
        /\ view.reason = "none"
    BY <1>8 DEF Fits
  <2>2. view'.reason = f.reason
    <3>1. SeenAs(view, f, view')  BY SeeIs
    <3> QED  BY <1>8, <3>1 DEF SeenAs
  <2>3. Client!Reason  BY <1>0, <2>1, <2>2 DEF Client!Reason, Client!Live
  <2> QED  BY <2>3 DEF Client!Next
<1>9. CASE f.fr = "usage"
  <2>1. /\ ~view.finished /\ view.begun /\ f = UsageFrame("usage", f.usage)
        /\ view.usage = {}
    BY <1>9 DEF Fits
  <2>2. view'.usage = {f.usage}
    <3>1. SeenAs(view, f, view')  BY SeeIs
    <3> QED  BY <1>9, <3>1 DEF SeenAs
  <2>3. Client!Usage  BY <1>0, <2>1, <2>2 DEF Client!Usage, Client!Live
  <2> QED  BY <2>3 DEF Client!Next
<1>10. CASE f.fr = "finish"
  <2>1. /\ ~view.finished /\ (view.begun \/ view.errored) /\ f = Frame("finish", NoIndex)
        /\ frontend # "chat" => view.open = {}
    BY <1>10 DEF Fits
  <2>2. Client!Finish  BY <1>0, <2>1 DEF Client!Finish, Client!Show
  <2> QED  BY <2>2 DEF Client!Next
<1> QED  BY <1>1, <1>2, <1>3, <1>4, <1>5, <1>6, <1>7, <1>8, <1>9, <1>10 DEF Fits

LEMMA SeeSays ==
    ASSUME NEW v, ViewShape(v), NEW f, NEW t, NEW d, Fits(d, v, f, t), Says(v, t, d),
           NEW w, w = Client!See(v, f)
    PROVE  Says(w, t, d) /\ ViewShape(w)
<1>0. SeenAs(v, f, w)  BY SeeIs
<1>1. /\ ViewShape(w)
      /\ w.finished <=> v.finished \/ f.fr = "finish"
      /\ w.errored <=> v.errored \/ f.fr = "error"
      /\ w.reason = IF f.fr = "stop" THEN f.reason ELSE v.reason
      /\ w.usage = IF f.fr = "usage" THEN {f.usage} ELSE v.usage
  BY <1>0 DEF SeenAs
<1>2. w.usage # {} => w.usage = {t.tokens}  BY <1>1 DEF Says, Fits
<1>3. w.reason # "none" => Tells(w.reason, t, d)  BY <1>1 DEF Says, Fits
<1>4. w.finished => w.errored \/ w.reason # "none"
  <2>1. CASE f.fr = "finish"
    <3>1. v.errored \/ v.reason # "none"  BY <2>1 DEF Fits
    <3> QED  BY <1>1, <2>1, <3>1
  <2>2. CASE f.fr # "finish"
    <3>1. ~w.finished  BY <1>1, <2>2 DEF Fits
    <3> QED  BY <3>1
  <2> QED  BY <2>1, <2>2
<1> QED  BY <1>1, <1>2, <1>3, <1>4 DEF Says

(* One, two or three frames for an event.                                  *)
LEMMA ShowsOne ==
    ASSUME NEW d, NEW w, ViewShape(w), NEW t, NEW f, Fits(d, w, f, t), NEW x, x = Client!See(w, f)
    PROVE  Plays(d, w, <<f>>, x, t) /\ SeenAs(w, f, x)
<1>1. Plays(d, w, <<>>, w, t)  BY PlaysNothing
<1>2. Plays(d, w, Append(<<>>, f), Client!See(w, f), t)  BY <1>1, PlaysOn
<1>3. Append(<<>>, f) = <<f>>  OBVIOUS
<1>4. SeenAs(w, f, x)  BY SeeIs
<1> QED  BY <1>2, <1>3, <1>4

LEMMA ShowsMore ==
    ASSUME NEW d, NEW w, NEW t, NEW q, NEW v, Plays(d, w, q, v, t), ViewShape(v),
           NEW f, Fits(d, v, f, t), NEW x, x = Client!See(v, f)
    PROVE  Plays(d, w, Append(q, f), x, t) /\ SeenAs(v, f, x)
<1>1. Plays(d, w, Append(q, f), Client!See(v, f), t)  BY PlaysOn
<1>2. SeenAs(v, f, x)  BY SeeIs
<1> QED  BY <1>1, <1>2

LEMMA AppendTwo ==
    ASSUME NEW x, NEW y
    PROVE  <<x, y>> = Append(<<x>>, y)
OBVIOUS

LEMMA AppendThree ==
    ASSUME NEW x, NEW y, NEW z
    PROVE  <<x, y, z>> = Append(Append(<<x>>, y), z)
OBVIOUS

LEMMA SayFrames ==
    ASSUME NEW s, NEW q, NEW r, r = Say(Start(s), q), q = <<>> \/ \E x : q = <<x>> \/ \E y : q = <<x, y>>
    PROVE  r.st = s /\ r.out = q
<1> DEFINE a == Start(s)
<1>1. a.st = s /\ a.out = <<>> /\ Shaped(a)  BY DEF Start, Shaped
<1> HIDE DEF a
<1>2. r = Say(a, q)  BY DEF a
<1>3. r.st = s /\ r.out = Cat(<<>>, q)  BY <1>1, <1>2, Said
<1>4. Cat(<<>>, q) = q
  <2>1. CASE q = <<>>  BY <2>1 DEF Cat
  <2>2. ASSUME NEW x, q = <<x>> PROVE Cat(<<>>, q) = q
    <3>1. q \in Seq({x})  BY <2>2
    <3> QED  BY <3>1 DEF Cat
  <2>3. ASSUME NEW x, NEW y, q = <<x, y>> PROVE Cat(<<>>, q) = q
    <3>1. q \in Seq({x, y})  BY <2>3
    <3> QED  BY <3>1 DEF Cat
  <2> QED  BY <2>1, <2>2, <2>3
<1> QED  BY <1>3, <1>4

LEMMA BookSettled ==
    ASSUME NEW g, NEW e, NEW t, Regular(g, e, t), Settled(g, t)
    PROVE  Settled(Book(g, e), t)
<1>1. CASE e.ev = "MessageStop"
  <2>1. Book(g, e).stop = {e.stop}  BY <1>1 DEF Book, WithStop
  <2>2. Honest(e.stop, t)  BY <1>1 DEF Regular
  <2> QED  BY <2>1, <2>2 DEF Settled
<1>2. CASE e.ev # "MessageStop"
  <2>1. Book(g, e).stop = g.stop  BY <1>2 DEF Book, WithSeen, WithStage, WithSpent
  <2> QED  BY <2>1 DEF Settled
<1> QED  BY <1>1, <1>2
-----------------------------------------------------------------------------
(* The Anthropic encoder.                                                  *)
LEMMA AnthropicEnvelope ==
    ASSUME NEW g, Sound(g), NEW s, ~s.done, NEW w, AnthropicFront(g, s, w), NEW e, NEW t,
           Regular(g, e, t), NEW r, r = AnthropicHandle(s, e),
           e.ev \in {"ResponseStart", "MessageStart", "MessageStop", "UsageDelta", "Err", "Error"}
    PROVE  AnthropicShown(Book(g, e), r, w, t)
<1> DEFINE h == Book(g, e)
<1>0. /\ AnthropicShape(s) /\ ViewShape(w) /\ AnthropicOpen(g, s, w) /\ g \in Account
  BY DEF AnthropicFront, Sound
<1>1. CASE e.ev = "ResponseStart"
  <2> DEFINE f1 == Frame("begin", NoIndex)
             f2 == Frame("ping", NoIndex)
             v == Client!See(w, f1)
             x == Client!See(v, f2)
  <2>1. r = Say(Start(s), <<f1, f2>>)  BY <1>1 DEF AnthropicHandle
  <2>2. r.st = s /\ r.out = <<f1, f2>>  BY <2>1, SayFrames
  <2>3. g.seen = {} /\ h.seen = {"ResponseStart"} /\ h.stage = g.stage /\ h.stop = g.stop
        /\ h.spent = g.spent
    BY <1>1 DEF Regular, Book, WithSeen
  <2>4. f1.fr = "begin" /\ f2.fr = "ping" /\ Fits("anthropic", w, f1, t)
    BY <1>0, <2>3 DEF Fits, Frame, AnthropicOpen
  <2>5. v = Client!See(w, f1) /\ x = Client!See(v, f2)  OBVIOUS
  <2>6. f2 = Frame("ping", NoIndex)  OBVIOUS
  <2> HIDE DEF f1, f2, v, x, h
  <2>7. Plays("anthropic", w, <<f1>>, v, t) /\ SeenAs(w, f1, v)  BY <1>0, <2>4, <2>5, ShowsOne
  <2>8. Fits("anthropic", v, f2, t) /\ ViewShape(v)
    BY <1>0, <2>4, <2>6, <2>7 DEF Fits, SeenAs, AnthropicOpen
  <2>9. Plays("anthropic", w, Append(<<f1>>, f2), x, t) /\ SeenAs(v, f2, x)
    BY <2>5, <2>7, <2>8, ShowsMore
  <2>10. Plays("anthropic", w, r.out, x, t)  BY <2>2, <2>9, AppendTwo
  <2>11. AnthropicOpen(h, s, x) /\ ViewShape(x)
    BY <1>0, <2>3, <2>4, <2>7, <2>9 DEF AnthropicOpen, SeenAs
  <2> QED  BY <1>0, <2>2, <2>10, <2>11 DEF AnthropicShown, AnthropicFront, h
<1>2. CASE e.ev \in {"Err", "Error"}
  <2> DEFINE f1 == Frame("error", NoIndex)
             v == Client!See(w, f1)
  <2>1. r = Say(Start(s), <<f1>>)  BY <1>2 DEF AnthropicHandle
  <2>2. r.st = s /\ r.out = <<f1>>  BY <2>1, SayFrames
  <2>3. h = g  BY <1>2 DEF Book
  <2>4. f1.fr = "error" /\ Fits("anthropic", w, f1, t) /\ v = Client!See(w, f1)
    BY <1>0 DEF Fits, Frame, AnthropicOpen
  <2> HIDE DEF f1, v, h
  <2>7. Plays("anthropic", w, <<f1>>, v, t) /\ SeenAs(w, f1, v)  BY <1>0, <2>4, ShowsOne
  <2>11. AnthropicOpen(h, s, v) /\ ViewShape(v)
    BY <1>0, <2>3, <2>4, <2>7 DEF AnthropicOpen, SeenAs
  <2> QED  BY <1>0, <2>2, <2>7, <2>11 DEF AnthropicShown, AnthropicFront, h
<1>3. CASE e.ev = "MessageStart"
  <2>1. r = Say(Start(s), <<>>)  BY <1>3 DEF AnthropicHandle, BlockFrames
  <2>2. r.st = s /\ r.out = <<>>  BY <2>1, SayFrames
  <2>3. g.seen = {"ResponseStart"} /\ h.seen = {"ResponseStart", "MessageStart"}
        /\ h.stage = g.stage /\ h.stop = g.stop /\ h.spent = g.spent
    BY <1>3 DEF Regular, Book, WithSeen
  <2> HIDE DEF h
  <2>4. AnthropicOpen(h, s, w)  BY <1>0, <2>3 DEF AnthropicOpen
  <2> QED  BY <1>0, <2>2, <2>4, PlaysNothing DEF AnthropicShown, AnthropicFront, h
<1>4. CASE e.ev = "MessageStop"
  <2>1. r.st = [s EXCEPT !.pending_stop = {e.stop}] /\ r.out = <<>>
    BY <1>4 DEF AnthropicHandle, Start
  <2>2. /\ AnthropicShape(r.st) /\ r.st.done = s.done /\ r.st.tokens = s.tokens
        /\ r.st.pending_stop = {e.stop}
    BY <1>0, <2>1 DEF AnthropicShape
  <2>3. h.seen = g.seen \cup {"MessageStop"} /\ h.stage = g.stage /\ h.stop = {e.stop}
        /\ h.spent = g.spent
    BY <1>4 DEF Book, WithStop
  <2> HIDE DEF h
  <2>4. AnthropicOpen(h, r.st, w)  BY <1>0, <2>2, <2>3 DEF AnthropicOpen
  <2> QED  BY <1>0, <2>1, <2>2, <2>4, PlaysNothing DEF AnthropicShown, AnthropicFront, h
<1>5. CASE e.ev = "UsageDelta"
  <2> DEFINE n == CHOOSE m \in e.usage : TRUE
  <2>1. r.st = [s EXCEPT !.tokens = s.tokens + n] /\ r.out = <<>>
    BY <1>5 DEF AnthropicHandle, Start, AddUsage
  <2>2. /\ AnthropicShape(r.st) /\ r.st.done = s.done /\ r.st.pending_stop = s.pending_stop
        /\ r.st.tokens = s.tokens + n
    BY <1>0, <2>1 DEF AnthropicShape
  <2>3. h.seen = g.seen /\ h.stage = g.stage /\ h.stop = g.stop /\ h.spent = g.spent + n
    BY <1>5 DEF Book, WithSpent
  <2> HIDE DEF h, n
  <2>4. AnthropicOpen(h, r.st, w)  BY <1>0, <2>2, <2>3 DEF AnthropicOpen
  <2> QED  BY <1>0, <2>1, <2>2, <2>4, PlaysNothing DEF AnthropicShown, AnthropicFront, h
<1> QED  BY <1>1, <1>2, <1>3, <1>4, <1>5

LEMMA StageMoved ==
    ASSUME NEW g \in Account, NEW i \in BlockIndices, NEW x, NEW h, h = WithStage(g, i, x)
    PROVE  /\ h.seen = g.seen /\ h.stop = g.stop /\ h.spent = g.spent /\ h.stage[i] = x
           /\ \A j \in BlockIndices : j # i => h.stage[j] = g.stage[j]
<1>1. h.stage = [g.stage EXCEPT ![i] = x] /\ DOMAIN g.stage = BlockIndices
  BY DEF WithStage, Account
<1>2. h.seen = g.seen /\ h.stop = g.stop /\ h.spent = g.spent  BY DEF WithStage
<1> QED  BY <1>1, <1>2

LEMMA AnthropicBlocks ==
    ASSUME NEW g, Sound(g), NEW s, ~s.done, NEW w, AnthropicFront(g, s, w), NEW e, NEW t,
           Regular(g, e, t), NEW r, r = AnthropicHandle(s, e),
           e.ev \in {"ContentBlockStart", "ContentBlockStop", "TextDelta", "ReasoningDelta",
                     "ToolCallStart", "ToolCallArgumentsDelta", "ToolCallStop"}
    PROVE  AnthropicShown(Book(g, e), r, w, t)
<1> DEFINE h == Book(g, e)
           i == e.index
<1>0. /\ AnthropicShape(s) /\ ViewShape(w) /\ AnthropicOpen(g, s, w) /\ g \in Account
      /\ "MessageStart" \in g.seen => "ResponseStart" \in g.seen
  BY DEF AnthropicFront, Sound
<1>1. i \in BlockIndices /\ "MessageStart" \in g.seen /\ w.begun /\ ~w.finished
  BY <1>0 DEF Regular, AnthropicOpen
<1>2. r = Say(Start(s), BlockFrames(e))  BY DEF AnthropicHandle
<1>3. /\ h.seen = g.seen /\ h.stop = g.stop /\ h.spent = g.spent
      /\ \A j \in BlockIndices : j # i => h.stage[j] = g.stage[j]
      /\ e.ev = "ContentBlockStart" => h.stage[i] = (IF e.kind = "ToolCall" THEN "raw" ELSE e.kind)
      /\ e.ev = "ToolCallStart" => h.stage[i] = "named"
      /\ e.ev = "ToolCallStop" => h.stage[i] = "halted"
      /\ e.ev = "ContentBlockStop" => h.stage[i] = "closed"
      /\ e.ev \in {"TextDelta", "ReasoningDelta", "ToolCallArgumentsDelta"} =>
            h.stage[i] = g.stage[i]
  <2> HIDE DEF i
  <2>1. CASE e.ev = "ContentBlockStart"
    <3>1. h = WithStage(g, i, IF e.kind = "ToolCall" THEN "raw" ELSE e.kind)
      BY <2>1 DEF Book, i
    <3> HIDE DEF h
    <3> QED  BY <1>0, <1>1, <2>1, <3>1, StageMoved
  <2>2. CASE e.ev = "ToolCallStart"
    <3>1. h = WithStage(g, i, "named")  BY <2>2 DEF Book, i
    <3> HIDE DEF h
    <3> QED  BY <1>0, <1>1, <2>2, <3>1, StageMoved
  <2>3. CASE e.ev = "ToolCallStop"
    <3>1. h = WithStage(g, i, "halted")  BY <2>3 DEF Book, i
    <3> HIDE DEF h
    <3> QED  BY <1>0, <1>1, <2>3, <3>1, StageMoved
  <2>4. CASE e.ev = "ContentBlockStop"
    <3>1. h = WithStage(g, i, "closed")  BY <2>4 DEF Book, i
    <3> HIDE DEF h
    <3> QED  BY <1>0, <1>1, <2>4, <3>1, StageMoved
  <2>5. CASE e.ev \in {"TextDelta", "ReasoningDelta", "ToolCallArgumentsDelta"}
    <3>1. h = g  BY <2>5 DEF Book
    <3> HIDE DEF h
    <3> QED  BY <2>5, <3>1
  <2> QED  BY <2>1, <2>2, <2>3, <2>4, <2>5
<1>4. /\ e.ev = "ContentBlockStart" => g.stage[i] = "new" /\ e.kind \in ContentBlockKind
      /\ e.ev = "TextDelta" => g.stage[i] = "Text"
      /\ e.ev = "ReasoningDelta" => g.stage[i] = "Reasoning"
      /\ e.ev = "ToolCallStart" => g.stage[i] = "raw"
      /\ e.ev \in {"ToolCallArgumentsDelta", "ToolCallStop"} => g.stage[i] = "named"
      /\ e.ev = "ContentBlockStop" => g.stage[i] \in {"Text", "Reasoning", "RedactedReasoning", "halted"}
  BY DEF Regular
<1>5. /\ (e.ev = "ContentBlockStart" /\ e.kind = "ToolCall") \/ e.ev = "ToolCallStop" =>
            BlockFrames(e) = <<>>
      /\ (e.ev = "ContentBlockStart" /\ e.kind # "ToolCall") \/ e.ev = "ToolCallStart" =>
            BlockFrames(e) = <<Frame("open", i)>>
      /\ e.ev \in {"TextDelta", "ReasoningDelta", "ToolCallArgumentsDelta"} =>
            BlockFrames(e) = <<Frame("delta", i)>>
      /\ e.ev = "ContentBlockStop" => BlockFrames(e) = <<Frame("close", i)>>
  BY DEF BlockFrames
<1> HIDE DEF h, i
<1>6. CASE (e.ev = "ContentBlockStart" /\ e.kind = "ToolCall") \/ e.ev = "ToolCallStop"
  <2>1. r = Say(Start(s), <<>>)  BY <1>2, <1>5, <1>6
  <2>2. r.st = s /\ r.out = <<>>  BY <2>1, SayFrames
  <2>3. AnthropicOpen(h, s, w)
    BY <1>0, <1>3, <1>4, <1>6 DEF AnthropicOpen, AnthropicWire
  <2> QED  BY <1>0, <2>2, <2>3, PlaysNothing DEF AnthropicShown, AnthropicFront, h
<1>7. ASSUME NEW f, BlockFrames(e) = <<f>>, Fits("anthropic", w, f, t),
             \A x : SeenAs(w, f, x) => AnthropicOpen(h, s, x)
      PROVE  AnthropicShown(h, r, w, t)
  <2> DEFINE x == Client!See(w, f)
  <2>0. x = Client!See(w, f)  OBVIOUS
  <2> HIDE DEF x
  <2>1. r.st = s /\ r.out = <<f>>
    <3>1. r = Say(Start(s), <<f>>)  BY <1>2, <1>7
    <3> QED  BY <3>1, SayFrames
  <2>2. Plays("anthropic", w, <<f>>, x, t) /\ SeenAs(w, f, x)  BY <1>0, <1>7, <2>0, ShowsOne
  <2>3. AnthropicOpen(h, s, x) /\ ViewShape(x)  BY <1>7, <2>2 DEF SeenAs
  <2> QED  BY <1>0, <2>1, <2>2, <2>3 DEF AnthropicShown, AnthropicFront
<1>8. CASE (e.ev = "ContentBlockStart" /\ e.kind # "ToolCall") \/ e.ev = "ToolCallStart"
  <2> DEFINE f == Frame("open", i)
  <2>0. f.fr = "open" /\ f.item = i /\ BlockFrames(e) = <<f>>  BY <1>5, <1>8 DEF Frame
  <2>1. f = Frame("open", f.item)  BY DEF Frame
  <2> HIDE DEF f
  <2>2. i \notin w.open /\ i \notin w.closed
    BY <1>0, <1>1, <1>4, <1>8 DEF AnthropicOpen, AnthropicWire
  <2>3. Fits("anthropic", w, f, t)  BY <1>1, <2>0, <2>1, <2>2 DEF Fits
  <2>4. ASSUME NEW x, SeenAs(w, f, x) PROVE AnthropicOpen(h, s, x)
    <3>1. h.stage[i] \in AnthropicWire /\ h.stage[i] # "closed"
      BY <1>3, <1>4, <1>8 DEF AnthropicWire, ContentBlockKind
    <3>2. x.open = w.open \cup {i} /\ x.closed = w.closed /\ (x.begun <=> w.begun)
          /\ (x.finished <=> w.finished) /\ x.reason = w.reason /\ x.usage = w.usage
      BY <2>0, <2>4 DEF SeenAs
    <3>3. g.stage[i] # "closed"  BY <1>4, <1>8
    <3> QED  BY <1>0, <1>1, <1>3, <3>1, <3>2, <3>3 DEF AnthropicOpen
  <2> QED  BY <1>7, <2>0, <2>3, <2>4 DEF h
<1>9. CASE e.ev \in {"TextDelta", "ReasoningDelta", "ToolCallArgumentsDelta"}
  <2> DEFINE f == Frame("delta", i)
  <2>0. f.fr = "delta" /\ f.item = i /\ BlockFrames(e) = <<f>>  BY <1>5, <1>9 DEF Frame
  <2>1. f = Frame("delta", f.item)  BY DEF Frame
  <2> HIDE DEF f
  <2>2. i \in w.open
    BY <1>0, <1>1, <1>4, <1>9 DEF AnthropicOpen, AnthropicWire
  <2>3. Fits("anthropic", w, f, t)  BY <1>1, <2>0, <2>1, <2>2 DEF Fits
  <2>4. ASSUME NEW x, SeenAs(w, f, x) PROVE AnthropicOpen(h, s, x)
    <3>2. x.open = w.open /\ x.closed = w.closed /\ (x.begun <=> w.begun)
          /\ (x.finished <=> w.finished) /\ x.reason = w.reason /\ x.usage = w.usage
      BY <2>0, <2>4 DEF SeenAs
    <3> QED  BY <1>0, <1>1, <1>3, <1>9, <3>2 DEF AnthropicOpen
  <2> QED  BY <1>7, <2>0, <2>3, <2>4 DEF h
<1>10. CASE e.ev = "ContentBlockStop"
  <2> DEFINE f == Frame("close", i)
  <2>0. f.fr = "close" /\ f.item = i /\ BlockFrames(e) = <<f>>  BY <1>5, <1>10 DEF Frame
  <2>1. f = Frame("close", f.item)  BY DEF Frame
  <2> HIDE DEF f
  <2>2. i \in w.open
    BY <1>0, <1>1, <1>4, <1>10 DEF AnthropicOpen, AnthropicWire
  <2>3. Fits("anthropic", w, f, t)  BY <1>1, <2>0, <2>1, <2>2 DEF Fits
  <2>4. ASSUME NEW x, SeenAs(w, f, x) PROVE AnthropicOpen(h, s, x)
    <3>1. h.stage[i] = "closed" /\ "closed" \notin AnthropicWire
      BY <1>3, <1>10 DEF AnthropicWire
    <3>2. x.open = w.open \ {i} /\ x.closed = w.closed \cup {i} /\ (x.begun <=> w.begun)
          /\ (x.finished <=> w.finished) /\ x.reason = w.reason /\ x.usage = w.usage
      BY <2>0, <2>4 DEF SeenAs
    <3> QED  BY <1>0, <1>1, <1>3, <3>1, <3>2 DEF AnthropicOpen
  <2> QED  BY <1>7, <2>0, <2>3, <2>4 DEF h
<1> QED  BY <1>6, <1>8, <1>9, <1>10

LEMMA AnthropicStop ==
    ASSUME NEW g, Sound(g), NEW s, ~s.done, NEW w, AnthropicFront(g, s, w), NEW e, NEW t,
           Regular(g, e, t), NEW r, r = AnthropicHandle(s, e), t.tokens \in Nat, Settled(g, t),
           e.ev = "ResponseStop"
    PROVE  AnthropicShown(Book(g, e), r, w, t)
<1>0. /\ AnthropicShape(s) /\ ViewShape(w) /\ AnthropicOpen(g, s, w) /\ g \in Account
      /\ "MessageStop" \in g.seen => g.stop # {} /\ AllQuiet(g)
  BY DEF AnthropicFront, Sound
<1>1. /\ "MessageStop" \in g.seen /\ "ResponseStart" \in g.seen /\ FinalUsage(g.spent, e) = t.tokens
  BY DEF Regular
<1>2. PICK c \in StopReason : g.stop = {c}  BY <1>0, <1>1 DEF Account, OneOf
<1>3. (CHOOSE x \in {c} : TRUE) = c  OBVIOUS
<1> DEFINE n == FinalUsage(s.tokens, e)
           f1 == StopFrame("stop", ToAnthropic(c))
           f2 == UsageFrame("usage", n)
           f3 == Frame("finish", NoIndex)
           v1 == Client!See(w, f1)
           v2 == Client!See(v1, f2)
           v3 == Client!See(v2, f3)
<1>4. n = t.tokens /\ s.pending_stop = {c}  BY <1>0, <1>1, <1>2 DEF AnthropicOpen
<1>5. r = EndOfMessage(s, e)  BY DEF AnthropicHandle
<1>6. r.st = [s EXCEPT !.tokens = n, !.pending_stop = {}, !.done = TRUE] /\ r.out = <<f1, f2, f3>>
  BY <1>3, <1>4, <1>5 DEF EndOfMessage
<1>7. AnthropicShape(r.st) /\ r.st.done  BY <1>0, <1>6 DEF AnthropicShape
<1>8. w.open = {} /\ w.begun /\ ~w.finished /\ w.reason = "none" /\ w.usage = {}
  BY <1>0, <1>1 DEF AnthropicOpen, AnthropicWire, AllQuiet
<1>9. Honest(c, t)  BY <1>2 DEF Settled
<1>10. Tells(ToAnthropic(c), t, "anthropic") /\ ToAnthropic(c) \in Reasons /\ ToAnthropic(c) # "none"
  BY <1>2, <1>9 DEF Tells, Honest, ToAnthropic, Reasons, StopReason, Means, Sense
<1>11. /\ f1.fr = "stop" /\ f1.reason = ToAnthropic(c) /\ f1 = StopFrame("stop", f1.reason)
       /\ f2.fr = "usage" /\ f2.usage = t.tokens /\ f2 = UsageFrame("usage", f2.usage)
       /\ f3.fr = "finish" /\ f3 = Frame("finish", NoIndex)
  BY <1>4 DEF StopFrame, UsageFrame, Frame
<1>12. v1 = Client!See(w, f1) /\ v2 = Client!See(v1, f2) /\ v3 = Client!See(v2, f3)  OBVIOUS
<1> HIDE DEF f1, f2, f3, v1, v2, v3, n
<1>13. Fits("anthropic", w, f1, t)  BY <1>8, <1>10, <1>11 DEF Fits
<1>14. Plays("anthropic", w, <<f1>>, v1, t) /\ SeenAs(w, f1, v1)  BY <1>0, <1>12, <1>13, ShowsOne
<1>15. ViewShape(v1) /\ v1.begun /\ ~v1.finished /\ v1.usage = {} /\ v1.reason # "none" /\ v1.open = {}
  BY <1>8, <1>10, <1>11, <1>14 DEF SeenAs
<1>16. Fits("anthropic", v1, f2, t)  BY <1>11, <1>15 DEF Fits
<1>17. Plays("anthropic", w, Append(<<f1>>, f2), v2, t) /\ SeenAs(v1, f2, v2)
  BY <1>12, <1>14, <1>15, <1>16, ShowsMore
<1>18. ViewShape(v2) /\ v2.begun /\ ~v2.finished /\ v2.reason # "none" /\ v2.open = {}
  BY <1>11, <1>15, <1>17 DEF SeenAs
<1>19. Fits("anthropic", v2, f3, t)  BY <1>11, <1>18 DEF Fits
<1>20. Plays("anthropic", w, Append(Append(<<f1>>, f2), f3), v3, t) /\ SeenAs(v2, f3, v3)
  BY <1>12, <1>17, <1>18, <1>19, ShowsMore
<1>21. ViewShape(v3) /\ v3.finished  BY <1>11, <1>20 DEF SeenAs
<1>22. Plays("anthropic", w, r.out, v3, t)
  <2>1. r.out = <<f1, f2, f3>>  BY <1>6
  <2>2. <<f1, f2, f3>> = Append(Append(<<f1>>, f2), f3)  BY AppendThree
  <2>3. Append(Append(<<f1>>, f2), f3) = r.out  BY <2>1, <2>2
  <2> QED  BY <1>20, <2>3
<1> QED  BY <1>7, <1>21, <1>22 DEF AnthropicShown, AnthropicFront

LEMMA AnthropicEncodes ==
    ASSUME NEW g, Sound(g), NEW s, ~s.done, NEW w, AnthropicFront(g, s, w), NEW e, NEW t,
           Regular(g, e, t), NEW r, r = AnthropicHandle(s, e), t.tokens \in Nat, Settled(g, t)
    PROVE  AnthropicShown(Book(g, e), r, w, t)
<1>1. \/ e.ev \in {"ResponseStart", "MessageStart", "MessageStop", "UsageDelta", "Err", "Error"}
      \/ e.ev \in {"ContentBlockStart", "ContentBlockStop", "TextDelta", "ReasoningDelta",
                   "ToolCallStart", "ToolCallArgumentsDelta", "ToolCallStop"}
      \/ e.ev = "ResponseStop"
  BY DEF Regular
<1> QED  BY <1>1, AnthropicEnvelope, AnthropicBlocks, AnthropicStop
-----------------------------------------------------------------------------
(* The Chat encoder.                                                       *)
LEMMA ChatHandled ==
    ASSUME NEW s, s = [done |-> s.done], ~s.done, NEW e, NEW r, r = ChatHandle(s, e)
    PROVE  /\ r.out = ChatFrames(e) /\ r.st = [done |-> r.st.done] /\ r.st.done \in BOOLEAN
           /\ r.st.done <=> e.ev \in {"Err", "ResponseStop"}
BY DEF ChatHandle

LEMMA ChatEnvelope ==
    ASSUME NEW g, Sound(g), NEW s, ~s.done, NEW w, ChatFront(g, s, w), NEW e, NEW t,
           Regular(g, e, t), NEW r, r = ChatHandle(s, e),
           e.ev \in {"ResponseStart", "MessageStart", "MessageStop", "UsageDelta", "Error"}
    PROVE  ChatShown(Book(g, e), r, w, t)
<1> DEFINE h == Book(g, e)
<1>0. ViewShape(w) /\ ChatOpen(g, w) /\ s = [done |-> s.done] /\ g \in Account  BY DEF ChatFront, Sound
<1>1. /\ r.out = ChatFrames(e) /\ r.st = [done |-> r.st.done] /\ r.st.done \in BOOLEAN
      /\ ~r.st.done
  BY <1>0, ChatHandled
<1>2. ASSUME ChatFrames(e) = <<>>, ChatOpen(h, w) PROVE ChatShown(h, r, w, t)
  <2>1. r.out = <<>>  BY <1>1, <1>2
  <2> HIDE DEF h
  <2> QED  BY <1>0, <1>1, <1>2, <2>1, PlaysNothing DEF ChatShown, ChatFront
<1>3. ASSUME NEW f, ChatFrames(e) = <<f>>, Fits("chat", w, f, t),
             \A x : SeenAs(w, f, x) => ChatOpen(h, x)
      PROVE  ChatShown(h, r, w, t)
  <2> DEFINE x == Client!See(w, f)
  <2>0. x = Client!See(w, f) /\ r.out = <<f>>  BY <1>1, <1>3
  <2> HIDE DEF x, h
  <2>2. Plays("chat", w, <<f>>, x, t) /\ SeenAs(w, f, x)  BY <1>0, <1>3, <2>0, ShowsOne
  <2>3. ChatOpen(h, x) /\ ViewShape(x)  BY <1>3, <2>2 DEF SeenAs
  <2> QED  BY <1>0, <1>1, <2>0, <2>2, <2>3 DEF ChatShown, ChatFront
<1>4. CASE e.ev = "ResponseStart"
  <2> DEFINE f == Frame("begin", NoIndex)
  <2>1. ChatFrames(e) = <<f>>  BY <1>4 DEF ChatFrames
  <2>3. g.seen = {} /\ h.seen = {"ResponseStart"} /\ h.stage = g.stage /\ h.stop = g.stop
    BY <1>4 DEF Regular, Book, WithSeen
  <2>4. f.fr = "begin" /\ Fits("chat", w, f, t)
    BY <1>0, <2>3 DEF Fits, Frame, ChatOpen
  <2> HIDE DEF f, h
  <2>5. ASSUME NEW x, SeenAs(w, f, x) PROVE ChatOpen(h, x)
    BY <1>0, <2>3, <2>4, <2>5 DEF ChatOpen, SeenAs
  <2> QED  BY <1>3, <2>1, <2>4, <2>5 DEF h
<1>5. CASE e.ev = "MessageStart"
  <2>1. ChatFrames(e) = <<>>  BY <1>5 DEF ChatFrames
  <2>3. g.seen = {"ResponseStart"} /\ h.seen = {"ResponseStart", "MessageStart"}
        /\ h.stage = g.stage /\ h.stop = g.stop
    BY <1>5 DEF Regular, Book, WithSeen
  <2> HIDE DEF h
  <2>4. ChatOpen(h, w)  BY <1>0, <2>3 DEF ChatOpen
  <2> QED  BY <1>2, <2>1, <2>4 DEF h
<1>6. CASE e.ev = "MessageStop"
  <2> DEFINE f == StopFrame("stop", FinishReasonOf(e.stop))
  <2>1. ChatFrames(e) = <<f>>  BY <1>6 DEF ChatFrames
  <2>3. /\ h.seen = g.seen \cup {"MessageStop"} /\ h.stage = g.stage /\ h.stop = {e.stop}
        /\ e.stop \in StopReason /\ Honest(e.stop, t) /\ "MessageStop" \notin g.seen
        /\ "ResponseStart" \in g.seen
    BY <1>6 DEF Regular, Book, WithStop
  <2>4. Tells(FinishReasonOf(e.stop), t, "chat") /\ FinishReasonOf(e.stop) \in Reasons
    BY <2>3 DEF Tells, Honest, FinishReasonOf, Reasons, StopReason, Means, Sense
  <2>5. "none" \notin Reasons  BY DEF Reasons
  <2>6. f.fr = "stop" /\ f.reason = FinishReasonOf(e.stop) /\ f = StopFrame("stop", f.reason)
    BY DEF StopFrame
  <2>7. g.stop = {}  BY <2>3 DEF Sound
  <2> HIDE DEF f, h
  <2>8. Fits("chat", w, f, t)  BY <1>0, <2>3, <2>4, <2>6, <2>7 DEF Fits, ChatOpen
  <2>9. ASSUME NEW x, SeenAs(w, f, x) PROVE ChatOpen(h, x)
    BY <1>0, <2>3, <2>4, <2>5, <2>6, <2>9 DEF ChatOpen, SeenAs
  <2> QED  BY <1>3, <2>1, <2>8, <2>9 DEF h
<1>7. CASE e.ev = "UsageDelta"
  <2>1. ChatFrames(e) = <<>>  BY <1>7 DEF ChatFrames
  <2>3. h.seen = g.seen /\ h.stage = g.stage /\ h.stop = g.stop
    BY <1>7 DEF Book, WithSpent
  <2> HIDE DEF h
  <2>4. ChatOpen(h, w)  BY <1>0, <2>3 DEF ChatOpen
  <2> QED  BY <1>2, <2>1, <2>4 DEF h
<1>8. CASE e.ev = "Error"
  <2> DEFINE f == Frame("error", NoIndex)
  <2>1. ChatFrames(e) = <<f>>  BY <1>8 DEF ChatFrames
  <2>3. h = g  BY <1>8 DEF Book
  <2>4. f.fr = "error" /\ Fits("chat", w, f, t)
    BY <1>0 DEF Fits, Frame, ChatOpen
  <2> HIDE DEF f, h
  <2>5. ASSUME NEW x, SeenAs(w, f, x) PROVE ChatOpen(h, x)
    BY <1>0, <2>3, <2>4, <2>5 DEF ChatOpen, SeenAs
  <2> QED  BY <1>3, <2>1, <2>4, <2>5 DEF h
<1> QED  BY <1>4, <1>5, <1>6, <1>7, <1>8

LEMMA BlockBooks ==
    ASSUME NEW g \in Account, NEW e, NEW t, Regular(g, e, t), NEW h, h = Book(g, e),
           e.ev \in {"ContentBlockStart", "ContentBlockStop", "TextDelta", "ReasoningDelta",
                     "ToolCallStart", "ToolCallArgumentsDelta", "ToolCallStop"}
    PROVE  /\ BlockBooked(g, e, h) /\ e.index \in BlockIndices
           /\ "MessageStart" \in g.seen /\ "MessageStop" \notin g.seen
<1> DEFINE i == e.index
<1>1. i \in BlockIndices /\ "MessageStart" \in g.seen /\ "MessageStop" \notin g.seen
  BY DEF Regular
<1>3. /\ h.seen = g.seen /\ h.stop = g.stop /\ h.spent = g.spent
      /\ \A j \in BlockIndices : j # i => h.stage[j] = g.stage[j]
      /\ e.ev = "ContentBlockStart" => h.stage[i] = (IF e.kind = "ToolCall" THEN "raw" ELSE e.kind)
      /\ e.ev = "ToolCallStart" => h.stage[i] = "named"
      /\ e.ev = "ToolCallStop" => h.stage[i] = "halted"
      /\ e.ev = "ContentBlockStop" => h.stage[i] = "closed"
      /\ e.ev \in {"TextDelta", "ReasoningDelta", "ToolCallArgumentsDelta"} =>
            h.stage[i] = g.stage[i]
  <2> HIDE DEF i
  <2>1. CASE e.ev = "ContentBlockStart"
    <3>1. h = WithStage(g, i, IF e.kind = "ToolCall" THEN "raw" ELSE e.kind)
      BY <2>1 DEF Book, i
    <3> QED  BY <1>1, <2>1, <3>1, StageMoved
  <2>2. CASE e.ev = "ToolCallStart"
    <3>1. h = WithStage(g, i, "named")  BY <2>2 DEF Book, i
    <3> QED  BY <1>1, <2>2, <3>1, StageMoved
  <2>3. CASE e.ev = "ToolCallStop"
    <3>1. h = WithStage(g, i, "halted")  BY <2>3 DEF Book, i
    <3> QED  BY <1>1, <2>3, <3>1, StageMoved
  <2>4. CASE e.ev = "ContentBlockStop"
    <3>1. h = WithStage(g, i, "closed")  BY <2>4 DEF Book, i
    <3> QED  BY <1>1, <2>4, <3>1, StageMoved
  <2>5. CASE e.ev \in {"TextDelta", "ReasoningDelta", "ToolCallArgumentsDelta"}
    <3>1. h = g  BY <2>5 DEF Book
    <3> QED  BY <2>5, <3>1
  <2> QED  BY <2>1, <2>2, <2>3, <2>4, <2>5
<1>4. /\ e.ev = "ContentBlockStart" => g.stage[i] = "new" /\ e.kind \in ContentBlockKind
      /\ e.ev = "TextDelta" => g.stage[i] = "Text"
      /\ e.ev = "ReasoningDelta" => g.stage[i] = "Reasoning"
      /\ e.ev = "ToolCallStart" => g.stage[i] = "raw"
      /\ e.ev \in {"ToolCallArgumentsDelta", "ToolCallStop"} => g.stage[i] = "named"
      /\ e.ev = "ContentBlockStop" => g.stage[i] \in {"Text", "Reasoning", "RedactedReasoning", "halted"}
  BY DEF Regular
<1> QED  BY <1>1, <1>3, <1>4 DEF BlockBooked

LEMMA ChatBlocks ==
    ASSUME NEW g, Sound(g), NEW s, ~s.done, NEW w, ChatFront(g, s, w), NEW e, NEW t,
           Regular(g, e, t), NEW r, r = ChatHandle(s, e),
           e.ev \in {"ContentBlockStart", "ContentBlockStop", "TextDelta", "ReasoningDelta",
                     "ToolCallStart", "ToolCallArgumentsDelta", "ToolCallStop"}
    PROVE  ChatShown(Book(g, e), r, w, t)
<1> DEFINE h == Book(g, e)
           i == e.index
<1>0. /\ ViewShape(w) /\ ChatOpen(g, w) /\ s = [done |-> s.done] /\ g \in Account
      /\ "MessageStart" \in g.seen => "ResponseStart" \in g.seen
  BY DEF ChatFront, Sound
<1>1. /\ r.out = ChatFrames(e) /\ r.st = [done |-> r.st.done] /\ r.st.done \in BOOLEAN
      /\ ~r.st.done
  BY <1>0, ChatHandled
<1> HIDE DEF h
<1>2. BlockBooked(g, e, h) /\ i \in BlockIndices /\ "MessageStart" \in g.seen
  BY <1>0, BlockBooks DEF h
<1>3. w.begun /\ ~w.finished  BY <1>0, <1>2 DEF ChatOpen
<1>4. /\ e.ev = "ToolCallStart" => ChatFrames(e) = <<Frame("open", i)>>
      /\ e.ev = "TextDelta" => ChatFrames(e) = <<Frame("content", NoIndex)>>
      /\ e.ev = "ToolCallArgumentsDelta" => ChatFrames(e) = <<Frame("delta", i)>>
      /\ e.ev \notin {"ToolCallStart", "TextDelta", "ToolCallArgumentsDelta"} =>
            ChatFrames(e) = <<>>
  BY DEF ChatFrames
<1>5. ASSUME NEW f, ChatFrames(e) = <<f>>, Fits("chat", w, f, t),
             \A x : SeenAs(w, f, x) => ChatOpen(h, x)
      PROVE  ChatShown(h, r, w, t)
  <2> DEFINE x == Client!See(w, f)
  <2>0. x = Client!See(w, f) /\ r.out = <<f>>  BY <1>1, <1>5
  <2> HIDE DEF x, h
  <2>2. Plays("chat", w, <<f>>, x, t) /\ SeenAs(w, f, x)  BY <1>0, <1>5, <2>0, ShowsOne
  <2>3. ChatOpen(h, x) /\ ViewShape(x)  BY <1>5, <2>2 DEF SeenAs
  <2> QED  BY <1>0, <1>1, <2>0, <2>2, <2>3 DEF ChatShown, ChatFront
<1> HIDE DEF i
<1>6. CASE e.ev \notin {"ToolCallStart", "TextDelta", "ToolCallArgumentsDelta"}
  <2>1. r.out = <<>>  BY <1>1, <1>4, <1>6
  <2>2. ChatOpen(h, w)
    <3>1. /\ h.stage[i] # "named" /\ (i \in w.open => h.stage[i] \in {"halted", "closed"})
      BY <1>0, <1>2, <1>6 DEF BlockBooked, ContentBlockKind, ChatOpen, i
    <3> QED  BY <1>0, <1>2, <3>1 DEF ChatOpen, BlockBooked, i
  <2> QED  BY <1>0, <1>1, <2>1, <2>2, PlaysNothing DEF ChatShown, ChatFront, h
<1>7. CASE e.ev = "ToolCallStart"
  <2> DEFINE f == Frame("open", i)
  <2>0. f.fr = "open" /\ f.item = i /\ ChatFrames(e) = <<f>>  BY <1>4, <1>7 DEF Frame
  <2>1. f = Frame("open", f.item)  BY DEF Frame
  <2> HIDE DEF f
  <2>2. g.stage[i] = "raw" /\ h.stage[i] = "named"  BY <1>2, <1>7 DEF BlockBooked, i
  <2>3. Fits("chat", w, f, t)  BY <1>0, <1>2, <1>3, <2>0, <2>1, <2>2 DEF Fits, ChatOpen
  <2>4. ASSUME NEW x, SeenAs(w, f, x) PROVE ChatOpen(h, x)
    <3>2. x.open = w.open \cup {i} /\ x.closed = w.closed /\ (x.begun <=> w.begun)
          /\ (x.finished <=> w.finished) /\ x.reason = w.reason /\ x.usage = w.usage
      BY <2>0, <2>4 DEF SeenAs
    <3> QED  BY <1>0, <1>2, <2>2, <3>2 DEF ChatOpen, BlockBooked, i
  <2> QED  BY <1>5, <2>0, <2>3, <2>4 DEF h
<1>8. CASE e.ev = "ToolCallArgumentsDelta"
  <2> DEFINE f == Frame("delta", i)
  <2>0. f.fr = "delta" /\ f.item = i /\ ChatFrames(e) = <<f>>  BY <1>4, <1>8 DEF Frame
  <2>1. f = Frame("delta", f.item)  BY DEF Frame
  <2> HIDE DEF f
  <2>2. g.stage[i] = "named" /\ h.stage[i] = "named"  BY <1>2, <1>8 DEF BlockBooked, i
  <2>3. Fits("chat", w, f, t)  BY <1>0, <1>2, <1>3, <2>0, <2>1, <2>2 DEF Fits, ChatOpen
  <2>4. ASSUME NEW x, SeenAs(w, f, x) PROVE ChatOpen(h, x)
    <3>2. x.open = w.open /\ x.closed = w.closed /\ (x.begun <=> w.begun)
          /\ (x.finished <=> w.finished) /\ x.reason = w.reason /\ x.usage = w.usage
      BY <2>0, <2>4 DEF SeenAs
    <3> QED  BY <1>0, <1>2, <2>2, <3>2 DEF ChatOpen, BlockBooked, i
  <2> QED  BY <1>5, <2>0, <2>3, <2>4 DEF h
<1>9. CASE e.ev = "TextDelta"
  <2> DEFINE f == Frame("content", NoIndex)
  <2>0. f.fr = "content" /\ ChatFrames(e) = <<f>>  BY <1>4, <1>9 DEF Frame
  <2>1. f = Frame("content", NoIndex)  OBVIOUS
  <2> HIDE DEF f
  <2>2. g.stage[i] = "Text" /\ h.stage[i] = "Text"  BY <1>2, <1>9 DEF BlockBooked, i
  <2>3. Fits("chat", w, f, t)  BY <1>3, <2>0, <2>1 DEF Fits
  <2>4. ASSUME NEW x, SeenAs(w, f, x) PROVE ChatOpen(h, x)
    <3>2. x.open = w.open /\ x.closed = w.closed /\ (x.begun <=> w.begun)
          /\ (x.finished <=> w.finished) /\ x.reason = w.reason /\ x.usage = w.usage
      BY <2>0, <2>4 DEF SeenAs
    <3> QED  BY <1>0, <1>2, <2>2, <3>2 DEF ChatOpen, BlockBooked, i
  <2> QED  BY <1>5, <2>0, <2>3, <2>4 DEF h
<1> QED  BY <1>6, <1>7, <1>8, <1>9

LEMMA ChatErr ==
    ASSUME NEW g, NEW s, ~s.done, NEW w, ChatFront(g, s, w), NEW e, NEW t,
           NEW r, r = ChatHandle(s, e), e.ev = "Err", NEW h
    PROVE  ChatShown(h, r, w, t)
<1>0. ViewShape(w) /\ ChatOpen(g, w) /\ s = [done |-> s.done]  BY DEF ChatFront
<1>1. /\ r.out = ChatFrames(e) /\ r.st = [done |-> r.st.done] /\ r.st.done \in BOOLEAN
      /\ r.st.done
  BY <1>0, ChatHandled
<1> DEFINE f1 == Frame("error", NoIndex)
           f2 == Frame("finish", NoIndex)
           v == Client!See(w, f1)
           x == Client!See(v, f2)
<1>2. r.out = <<f1, f2>>  BY <1>1 DEF ChatFrames
<1>3. f1.fr = "error" /\ Fits("chat", w, f1, t) /\ f2.fr = "finish" /\ f2 = Frame("finish", NoIndex)
  BY <1>0 DEF Fits, Frame, ChatOpen
<1>4. v = Client!See(w, f1) /\ x = Client!See(v, f2)  OBVIOUS
<1> HIDE DEF f1, f2, v, x
<1>5. Plays("chat", w, <<f1>>, v, t) /\ SeenAs(w, f1, v)  BY <1>0, <1>3, <1>4, ShowsOne
<1>6. Fits("chat", v, f2, t) /\ ViewShape(v)
  BY <1>0, <1>3, <1>5 DEF Fits, SeenAs, ChatOpen
<1>7. Plays("chat", w, Append(<<f1>>, f2), x, t) /\ SeenAs(v, f2, x)
  BY <1>4, <1>5, <1>6, ShowsMore
<1>8. Plays("chat", w, r.out, x, t)  BY <1>2, <1>7, AppendTwo
<1>9. x.finished /\ ViewShape(x)  BY <1>3, <1>7 DEF SeenAs
<1> QED  BY <1>1, <1>8, <1>9 DEF ChatShown, ChatFront

LEMMA ChatStop ==
    ASSUME NEW g, Sound(g), NEW s, ~s.done, NEW w, ChatFront(g, s, w), NEW e, NEW t,
           Regular(g, e, t), NEW r, r = ChatHandle(s, e), t.tokens \in Nat, e.ev = "ResponseStop"
    PROVE  ChatShown(Book(g, e), r, w, t)
<1>0. /\ ViewShape(w) /\ ChatOpen(g, w) /\ s = [done |-> s.done]
      /\ "MessageStop" \in g.seen => g.stop # {}
  BY DEF ChatFront, Sound
<1>1. /\ r.out = ChatFrames(e) /\ r.st = [done |-> r.st.done] /\ r.st.done \in BOOLEAN
      /\ r.st.done
  BY <1>0, ChatHandled
<1>2. /\ "MessageStop" \in g.seen /\ "ResponseStart" \in g.seen /\ e.usage \in OneOf(Nat)
      /\ FinalUsage(g.spent, e) = t.tokens
  BY DEF Regular
<1>3. w.begun /\ ~w.finished /\ w.usage = {} /\ w.reason # "none"  BY <1>0, <1>2 DEF ChatOpen
<1> DEFINE q == SetToSeq({UsageFrame("usage", n) : n \in e.usage})
           f == Frame("finish", NoIndex)
<1>4. r.out = Append(q, f)  BY <1>1 DEF ChatFrames
<1>5. f.fr = "finish" /\ f = Frame("finish", NoIndex)  BY DEF Frame
<1>6. \E v : Plays("chat", w, q, v, t) /\ ViewShape(v) /\ v.begun /\ ~v.finished /\ v.reason # "none"
  <2>1. CASE e.usage = {}
    <3>1. {UsageFrame("usage", n) : n \in e.usage} = {}  BY <2>1
    <3>2. q = <<>>  BY <3>1, OptionSeq
    <3> QED  BY <1>0, <1>3, <3>2, PlaysNothing
  <2>2. CASE e.usage # {}
    <3>1. PICK m \in Nat : e.usage = {m}  BY <1>2, <2>2 DEF OneOf
    <3>2. (CHOOSE n \in {m} : TRUE) = m  OBVIOUS
    <3>3. m = t.tokens  BY <1>2, <2>2, <3>1, <3>2 DEF FinalUsage
    <3> DEFINE f1 == UsageFrame("usage", m)
               v == Client!See(w, f1)
    <3>4. {UsageFrame("usage", n) : n \in e.usage} = {f1}  BY <3>1
    <3>5. q = <<f1>>  BY <3>4, OptionSeq
    <3>6. f1.fr = "usage" /\ f1.usage = t.tokens /\ f1 = UsageFrame("usage", f1.usage)
      BY <3>3 DEF UsageFrame
    <3>7. v = Client!See(w, f1)  OBVIOUS
    <3> HIDE DEF f1, v, q
    <3>8. Fits("chat", w, f1, t)  BY <1>3, <3>6 DEF Fits
    <3>9. Plays("chat", w, <<f1>>, v, t) /\ SeenAs(w, f1, v)  BY <1>0, <3>7, <3>8, ShowsOne
    <3>10. ViewShape(v) /\ v.begun /\ ~v.finished /\ v.reason # "none"
      BY <1>3, <3>6, <3>9 DEF SeenAs
    <3> QED  BY <3>5, <3>9, <3>10
  <2> QED  BY <2>1, <2>2
<1> HIDE DEF q, f
<1>7. PICK v : Plays("chat", w, q, v, t) /\ ViewShape(v) /\ v.begun /\ ~v.finished /\ v.reason # "none"
  BY <1>6
<1> DEFINE x == Client!See(v, f)
<1>8. x = Client!See(v, f)  OBVIOUS
<1> HIDE DEF x
<1>9. Fits("chat", v, f, t)  BY <1>5, <1>7 DEF Fits
<1>10. Plays("chat", w, Append(q, f), x, t) /\ SeenAs(v, f, x)
  BY <1>7, <1>8, <1>9, ShowsMore
<1>11. ViewShape(x) /\ x.finished  BY <1>5, <1>10 DEF SeenAs
<1>12. Plays("chat", w, r.out, x, t)  BY <1>4, <1>10
<1> QED  BY <1>1, <1>11, <1>12 DEF ChatShown, ChatFront

LEMMA ChatEncodes ==
    ASSUME NEW g, Sound(g), NEW s, ~s.done, NEW w, ChatFront(g, s, w), NEW e, NEW t,
           Regular(g, e, t), NEW r, r = ChatHandle(s, e), t.tokens \in Nat
    PROVE  ChatShown(Book(g, e), r, w, t)
<1>1. \/ e.ev \in {"ResponseStart", "MessageStart", "MessageStop", "UsageDelta", "Error"}
      \/ e.ev \in {"ContentBlockStart", "ContentBlockStop", "TextDelta", "ReasoningDelta",
                   "ToolCallStart", "ToolCallArgumentsDelta", "ToolCallStop"}
      \/ e.ev = "ResponseStop"
      \/ e.ev = "Err"
  BY DEF Regular
<1> QED  BY <1>1, ChatEnvelope, ChatBlocks, ChatStop, ChatErr
-----------------------------------------------------------------------------
(* The Responses encoder.                                                  *)
LEMMA UsedBound ==
    ASSUME NEW stage
    PROVE  /\ IsFiniteSet(Used(stage)) /\ Cardinality(Used(stage)) \in Nat
           /\ Cardinality(Used(stage)) <= 2 * MaxIndex + 5
           /\ \A i \in BlockIndices \ Used(stage) : Cardinality(Used(stage)) \in BlockIndices
<1>0. MaxIndex \in Nat  BY StreamingAssumption
<1>1. IsFiniteSet(BlockIndices) /\ Cardinality(BlockIndices) = 2 * MaxIndex + 5
  <2>1. 0 \in Int /\ 2 * MaxIndex + 4 \in Int  BY <1>0
  <2>2. 0 <= 2 * MaxIndex + 4  BY <1>0
  <2>3. (2 * MaxIndex + 4) - 0 + 1 = 2 * MaxIndex + 5  BY <1>0
  <2> QED  BY <2>1, <2>2, <2>3, FS_Interval DEF BlockIndices
<1>2. Used(stage) \subseteq BlockIndices  BY DEF Used
<1>3. IsFiniteSet(Used(stage)) /\ Cardinality(Used(stage)) <= Cardinality(BlockIndices)
  BY <1>1, <1>2, FS_Subset
<1>4. Cardinality(Used(stage)) \in Nat  BY <1>3, FS_CardinalityType
<1>5. ASSUME NEW i \in BlockIndices \ Used(stage) PROVE Cardinality(Used(stage)) \in BlockIndices
  <2>1. Used(stage) # BlockIndices  BY <1>5
  <2>2. Cardinality(Used(stage)) # Cardinality(BlockIndices)  BY <1>1, <1>2, <2>1, FS_Subset
  <2> QED  BY <1>0, <1>1, <1>3, <1>4, <2>2 DEF BlockIndices
<1> QED  BY <1>0, <1>1, <1>3, <1>4, <1>5

LEMMA UsedMore ==
    ASSUME NEW a, NEW c, NEW i \in BlockIndices,
           \A j \in BlockIndices : j # i => c[j] = a[j]
    PROVE  /\ a[i] \in {"new", "raw"} /\ c[i] \notin {"new", "raw"} =>
                 Cardinality(Used(c)) = Cardinality(Used(a)) + 1
           /\ a[i] \in {"new", "raw"} \/ c[i] \notin {"new", "raw"} =>
                 Cardinality(Used(a)) <= Cardinality(Used(c))
<1>1. ASSUME a[i] \in {"new", "raw"}, c[i] \notin {"new", "raw"}
      PROVE  Cardinality(Used(c)) = Cardinality(Used(a)) + 1
  <2>1. Used(c) = Used(a) \cup {i} /\ i \notin Used(a)  BY <1>1 DEF Used
  <2>2. IsFiniteSet(Used(a))  BY UsedBound
  <2> QED  BY <2>1, <2>2, FS_AddElement
<1>2. ASSUME a[i] \in {"new", "raw"} \/ c[i] \notin {"new", "raw"}
      PROVE  Cardinality(Used(a)) <= Cardinality(Used(c))
  <2>1. Used(a) \subseteq Used(c)  BY <1>2 DEF Used
  <2>2. IsFiniteSet(Used(c))  BY UsedBound
  <2> QED  BY <2>1, <2>2, FS_Subset
<1> QED  BY <1>1, <1>2

LEMMA ItemNumbers ==
    ASSUME NEW a, NEW n, NEW o, NEW b, NEW O, NEW C, Items(a, n, o, b, O, C)
    PROVE  /\ \A i \in DOMAIN o : o[i] \in BlockIndices
           /\ \A i \in BlockIndices : a[i] \in {"new", "raw"} =>
                 n \in BlockIndices /\ n \notin O /\ n \notin C
<1>0. MaxIndex \in Nat  BY StreamingAssumption
<1>1. n \in Nat /\ n <= 2 * MaxIndex + 5
  BY <1>0, UsedBound DEF Items
<1>2. \A i \in DOMAIN o : o[i] \in BlockIndices
  BY <1>0, <1>1 DEF Items, BlockIndices
<1>3. ASSUME NEW i \in BlockIndices, a[i] \in {"new", "raw"}
      PROVE  n \in BlockIndices /\ n \notin O /\ n \notin C
  <2>1. i \in BlockIndices \ Used(a)  BY <1>3 DEF Used
  <2>2. Cardinality(Used(a)) \in BlockIndices  BY <2>1, UsedBound
  <2>3. n \in BlockIndices  BY <1>0, <1>1, <2>2 DEF Items, BlockIndices
  <2>4. n \notin O /\ n \notin C  BY <1>1 DEF Items
  <2> QED  BY <2>3, <2>4
<1> QED  BY <1>2, <1>3

LEMMA ItemAdded ==
    ASSUME NEW a, NEW n, NEW o, NEW b, NEW O, NEW C, Items(a, n, o, b, O, C),
           NEW c, NEW i \in BlockIndices, \A j \in BlockIndices : j # i => c[j] = a[j],
           a[i] \in {"new", "raw"}, c[i] \in {"Text", "Reasoning", "named"},
           NEW p, p = Insert(o, i, n), NEW d, d = Insert(b, n, BufferOf(c[i]))
    PROVE  Items(c, n + 1, p, d, O \cup {n}, C)
<1>1. Cardinality(Used(c)) = Cardinality(Used(a)) + 1  BY UsedMore
<1>2. Cardinality(Used(a)) \in Nat  BY UsedBound
<1>3. n + 1 \in Nat /\ n + 1 <= Cardinality(Used(c))  BY <1>1, <1>2 DEF Items
<1>4. /\ DOMAIN p = DOMAIN o \cup {i} /\ p[i] = n /\ i \notin DOMAIN o
      /\ \A j \in DOMAIN o : p[j] = o[j]
  BY DEF Insert, Items, ItemStages
<1>5. /\ DOMAIN d = DOMAIN b \cup {n} /\ d[n] = BufferOf(c[i])
      /\ \A k \in DOMAIN b : k # n => d[k] = b[k]
  BY DEF Insert
<1>6. DOMAIN p = {j \in BlockIndices : c[j] \in ItemStages}
  BY <1>4 DEF Items, ItemStages
<1>7. \A j \in DOMAIN o : o[j] \in Nat /\ o[j] < n /\ o[j] # n  BY DEF Items
<1>8. \A j \in DOMAIN p : p[j] \in Nat /\ p[j] < n + 1  BY <1>4, <1>7 DEF Items
<1>9. \A j, k \in DOMAIN p : p[j] = p[k] => j = k
  <2> SUFFICES ASSUME NEW j \in DOMAIN p, NEW k \in DOMAIN p, p[j] = p[k] PROVE j = k
    OBVIOUS
  <2>1. CASE j = i \/ k = i  BY <1>4, <1>7, <2>1
  <2>2. CASE j # i /\ k # i  BY <1>4, <2>2 DEF Items
  <2> QED  BY <2>1, <2>2
<1>10. \A j \in DOMAIN p : IF c[j] = "halted" THEN p[j] \notin DOMAIN d
                           ELSE p[j] \in DOMAIN d /\ d[p[j]] = BufferOf(c[j]) /\ p[j] \in O \cup {n}
  <2> SUFFICES ASSUME NEW j \in DOMAIN p
               PROVE  IF c[j] = "halted" THEN p[j] \notin DOMAIN d
                      ELSE p[j] \in DOMAIN d /\ d[p[j]] = BufferOf(c[j]) /\ p[j] \in O \cup {n}
    OBVIOUS
  <2>1. CASE j = i  BY <1>4, <1>5, <2>1
  <2>2. CASE j # i
    <3>1. j \in DOMAIN o /\ p[j] = o[j] /\ c[j] = a[j] /\ o[j] # n
      BY <1>4, <1>7, <2>2 DEF Items
    <3> QED  BY <1>5, <3>1 DEF Items
  <2> QED  BY <2>1, <2>2
<1>11. \A k \in O \cup {n} : \E j \in DOMAIN p : k = p[j] /\ c[j] # "halted"
  <2>1. ASSUME NEW k \in O PROVE \E j \in DOMAIN p : k = p[j] /\ c[j] # "halted"
    <3>1. PICK j \in DOMAIN o : k = o[j] /\ a[j] # "halted"  BY DEF Items
    <3>2. j \in DOMAIN p /\ p[j] = o[j] /\ c[j] = a[j]  BY <1>4 DEF Items
    <3> QED  BY <3>1, <3>2
  <2>2. i \in DOMAIN p /\ n = p[i] /\ c[i] # "halted"  BY <1>4
  <2> QED  BY <2>1, <2>2
<1>12. \A k \in C : k \in Nat /\ k < n + 1  BY DEF Items
<1> QED  BY <1>3, <1>6, <1>8, <1>9, <1>10, <1>11, <1>12 DEF Items

LEMMA ItemHalted ==
    ASSUME NEW a, NEW n, NEW o, NEW b, NEW O, NEW C, Items(a, n, o, b, O, C),
           NEW c, NEW i \in BlockIndices, \A j \in BlockIndices : j # i => c[j] = a[j],
           a[i] = "named", c[i] = "halted", NEW d, d = Without(b, o[i])
    PROVE  Items(c, n, o, d, O \ {o[i]}, C \cup {o[i]})
<1>1. Cardinality(Used(a)) <= Cardinality(Used(c)) /\ Cardinality(Used(a)) \in Nat
      /\ Cardinality(Used(c)) \in Nat
  BY UsedMore, UsedBound
<1>2. n \in Nat /\ n <= Cardinality(Used(c))  BY <1>1 DEF Items
<1>3. i \in DOMAIN o /\ o[i] \in Nat /\ o[i] < n  BY DEF Items, ItemStages
<1>4. DOMAIN d = DOMAIN b \ {o[i]} /\ \A k \in DOMAIN d : d[k] = b[k]  BY DEF Without
<1>5. DOMAIN o = {j \in BlockIndices : c[j] \in ItemStages}  BY DEF Items, ItemStages
<1>6. \A j \in DOMAIN o : j # i => o[j] # o[i] /\ c[j] = a[j]  BY <1>3 DEF Items
<1>7. \A j \in DOMAIN o : IF c[j] = "halted" THEN o[j] \notin DOMAIN d
                          ELSE o[j] \in DOMAIN d /\ d[o[j]] = BufferOf(c[j]) /\ o[j] \in O \ {o[i]}
  <2> SUFFICES ASSUME NEW j \in DOMAIN o
               PROVE  IF c[j] = "halted" THEN o[j] \notin DOMAIN d
                      ELSE o[j] \in DOMAIN d /\ d[o[j]] = BufferOf(c[j]) /\ o[j] \in O \ {o[i]}
    OBVIOUS
  <2>1. CASE j = i  BY <1>4, <2>1
  <2>2. CASE j # i  BY <1>4, <1>6, <2>2 DEF Items
  <2> QED  BY <2>1, <2>2
<1>8. \A k \in O \ {o[i]} : \E j \in DOMAIN o : k = o[j] /\ c[j] # "halted"
  <2> SUFFICES ASSUME NEW k \in O \ {o[i]} PROVE \E j \in DOMAIN o : k = o[j] /\ c[j] # "halted"
    OBVIOUS
  <2>1. PICK j \in DOMAIN o : k = o[j] /\ a[j] # "halted"  BY DEF Items
  <2> QED  BY <1>6, <2>1
<1>9. \A k \in C \cup {o[i]} : k \in Nat /\ k < n  BY <1>3 DEF Items
<1>10. /\ \A j \in DOMAIN o : o[j] \in Nat /\ o[j] < n
       /\ \A j, k \in DOMAIN o : o[j] = o[k] => j = k
  BY DEF Items
<1> QED  BY <1>2, <1>5, <1>7, <1>8, <1>9, <1>10 DEF Items

LEMMA ItemClosed ==
    ASSUME NEW a, NEW n, NEW o, NEW b, NEW O, NEW C, Items(a, n, o, b, O, C),
           NEW c, NEW i \in BlockIndices, \A j \in BlockIndices : j # i => c[j] = a[j],
           c[i] = "closed", NEW p, p = Without(o, i)
    PROVE  /\ a[i] = "halted" => Items(c, n, p, b, O, C)
           /\ a[i] \in {"Text", "Reasoning"} =>
                 Items(c, n, p, Without(b, o[i]), O \ {o[i]}, C \cup {o[i]})
<1>1. Cardinality(Used(a)) <= Cardinality(Used(c)) /\ Cardinality(Used(a)) \in Nat
      /\ Cardinality(Used(c)) \in Nat
  BY UsedMore, UsedBound
<1>2. n \in Nat /\ n <= Cardinality(Used(c))  BY <1>1 DEF Items
<1>3. DOMAIN p = DOMAIN o \ {i} /\ \A j \in DOMAIN p : p[j] = o[j]  BY DEF Without
<1>4. DOMAIN p = {j \in BlockIndices : c[j] \in ItemStages}  BY <1>3 DEF Items, ItemStages
<1>5. /\ \A j \in DOMAIN p : p[j] \in Nat /\ p[j] < n
      /\ \A j, k \in DOMAIN p : p[j] = p[k] => j = k
  BY <1>3 DEF Items
<1>6. ASSUME a[i] = "halted" PROVE Items(c, n, p, b, O, C)
  <2>1. \A j \in DOMAIN p : c[j] = a[j] /\ p[j] = o[j] /\ j \in DOMAIN o  BY <1>3 DEF Items
  <2>2. \A j \in DOMAIN p : IF c[j] = "halted" THEN p[j] \notin DOMAIN b
                            ELSE p[j] \in DOMAIN b /\ b[p[j]] = BufferOf(c[j]) /\ p[j] \in O
    BY <2>1 DEF Items
  <2>3. \A k \in O : \E j \in DOMAIN p : k = p[j] /\ c[j] # "halted"
    <3> SUFFICES ASSUME NEW k \in O PROVE \E j \in DOMAIN p : k = p[j] /\ c[j] # "halted"
      OBVIOUS
    <3>1. PICK j \in DOMAIN o : k = o[j] /\ a[j] # "halted"  BY DEF Items
    <3> QED  BY <1>3, <1>6, <2>1, <3>1
  <2>4. \A k \in C : k \in Nat /\ k < n  BY DEF Items
  <2> QED  BY <1>2, <1>4, <1>5, <2>2, <2>3, <2>4 DEF Items
<1>7. ASSUME a[i] \in {"Text", "Reasoning"}
      PROVE  Items(c, n, p, Without(b, o[i]), O \ {o[i]}, C \cup {o[i]})
  <2> DEFINE d == Without(b, o[i])
  <2>1. i \in DOMAIN o /\ o[i] \in Nat /\ o[i] < n  BY <1>7 DEF Items, ItemStages
  <2>2. DOMAIN d = DOMAIN b \ {o[i]} /\ \A k \in DOMAIN d : d[k] = b[k]  BY DEF Without
  <2> HIDE DEF d
  <2>3. \A j \in DOMAIN p : c[j] = a[j] /\ p[j] = o[j] /\ j \in DOMAIN o /\ o[j] # o[i]
    BY <1>3, <2>1 DEF Items
  <2>4. \A j \in DOMAIN p : IF c[j] = "halted" THEN p[j] \notin DOMAIN d
                            ELSE p[j] \in DOMAIN d /\ d[p[j]] = BufferOf(c[j]) /\ p[j] \in O \ {o[i]}
    BY <2>2, <2>3 DEF Items
  <2>5. \A k \in O \ {o[i]} : \E j \in DOMAIN p : k = p[j] /\ c[j] # "halted"
    <3> SUFFICES ASSUME NEW k \in O \ {o[i]} PROVE \E j \in DOMAIN p : k = p[j] /\ c[j] # "halted"
      OBVIOUS
    <3>1. PICK j \in DOMAIN o : k = o[j] /\ a[j] # "halted"  BY DEF Items
    <3> QED  BY <1>3, <2>3, <3>1
  <2>6. \A k \in C \cup {o[i]} : k \in Nat /\ k < n  BY <2>1 DEF Items
  <2>7. Items(c, n, p, d, O \ {o[i]}, C \cup {o[i]})
    BY <1>2, <1>4, <1>5, <2>4, <2>5, <2>6 DEF Items
  <2> QED  BY <2>7 DEF d
<1> QED  BY <1>6, <1>7

LEMMA ItemElsewhere ==
    ASSUME NEW a, NEW n, NEW o, NEW b, NEW O, NEW C, Items(a, n, o, b, O, C),
           NEW c, NEW i \in BlockIndices, \A j \in BlockIndices : j # i => c[j] = a[j],
           a[i] = c[i] \/ (a[i] \notin ItemStages /\ c[i] \notin ItemStages),
           a[i] \in {"new", "raw"} \/ c[i] \notin {"new", "raw"}
    PROVE  Items(c, n, o, b, O, C)
<1>1. Cardinality(Used(a)) <= Cardinality(Used(c)) /\ Cardinality(Used(a)) \in Nat
      /\ Cardinality(Used(c)) \in Nat
  BY UsedMore, UsedBound
<1>2. n \in Nat /\ n <= Cardinality(Used(c))  BY <1>1 DEF Items
<1>3. DOMAIN o = {j \in BlockIndices : c[j] \in ItemStages}  BY DEF Items
<1>4. \A j \in DOMAIN o : c[j] = a[j]  BY DEF Items
<1>5. /\ \A j \in DOMAIN o : o[j] \in Nat /\ o[j] < n
      /\ \A j, k \in DOMAIN o : o[j] = o[k] => j = k
      /\ \A k \in C : k \in Nat /\ k < n
  BY DEF Items
<1>6. \A j \in DOMAIN o : IF c[j] = "halted" THEN o[j] \notin DOMAIN b
                          ELSE o[j] \in DOMAIN b /\ b[o[j]] = BufferOf(c[j]) /\ o[j] \in O
  BY <1>4 DEF Items
<1>7. \A k \in O : \E j \in DOMAIN o : k = o[j] /\ c[j] # "halted"
  BY <1>4 DEF Items
<1> QED  BY <1>2, <1>3, <1>5, <1>6, <1>7 DEF Items

LEMMA WireNone ==
    ASSUME NEW w, ViewShape(w), NEW t
    PROVE  Wires(w, <<>>, w.open, w.closed, t)
BY PlaysNothing DEF Wires, Wired, Kept

LEMMA WireStep ==
    ASSUME NEW w, w.begun, ~w.finished, NEW q, NEW O, NEW C, NEW t, Wires(w, q, O, C, t),
           NEW k \in BlockIndices
    PROVE  /\ k \in O => /\ Wires(w, Append(q, Frame("part", k)), O, C, t)
                         /\ Wires(w, Append(q, Frame("delta", k)), O, C, t)
                         /\ Wires(w, Append(q, Frame("close", k)), O \ {k}, C \cup {k}, t)
           /\ k \notin O /\ k \notin C => Wires(w, Append(q, Frame("open", k)), O \cup {k}, C, t)
<1>1. PICK v : Wired(w, q, v, O, C, t)  BY DEF Wires
<1>2. /\ Plays("responses", w, q, v, t) /\ ViewShape(v) /\ v.open = O /\ v.closed = C
      /\ v.begun /\ ~v.finished /\ v.reason = w.reason /\ v.usage = w.usage
  BY <1>1 DEF Wired, Kept
<1>3. ASSUME NEW f, Fits("responses", v, f, t), f.fr \in {"part", "delta", "close", "open"}, f.item = k
      PROVE  Wires(w, Append(q, f),
                   CASE f.fr = "open" -> O \cup {k} [] f.fr = "close" -> O \ {k} [] OTHER -> O,
                   IF f.fr = "close" THEN C \cup {k} ELSE C, t)
  <2> DEFINE x == Client!See(v, f)
  <2>1. x = Client!See(v, f)  OBVIOUS
  <2> HIDE DEF x
  <2>2. Plays("responses", w, Append(q, f), x, t) /\ SeenAs(v, f, x)
    BY <1>2, <1>3, <2>1, ShowsMore
  <2>3. Kept(w, x)  BY <1>2, <1>3, <2>2 DEF Kept, SeenAs
  <2>4. /\ x.open = (CASE f.fr = "open" -> O \cup {k} [] f.fr = "close" -> O \ {k} [] OTHER -> O)
        /\ x.closed = (IF f.fr = "close" THEN C \cup {k} ELSE C)
    BY <1>2, <1>3, <2>2 DEF SeenAs
  <2> QED  BY <2>2, <2>3, <2>4 DEF Wires, Wired
<1>4. ASSUME NEW n \in {"part", "delta"}, k \in O PROVE Wires(w, Append(q, Frame(n, k)), O, C, t)
  <2> DEFINE f == Frame(n, k)
  <2>1. f.fr = n /\ f.item = k /\ f = Frame(f.fr, f.item)  BY DEF Frame
  <2> HIDE DEF f
  <2>2. Fits("responses", v, f, t)  BY <1>2, <1>4, <2>1 DEF Fits
  <2> QED  BY <1>3, <1>4, <2>1, <2>2 DEF f
<1>5. ASSUME k \in O PROVE Wires(w, Append(q, Frame("close", k)), O \ {k}, C \cup {k}, t)
  <2> DEFINE f == Frame("close", k)
  <2>1. f.fr = "close" /\ f.item = k /\ f = Frame("close", f.item)  BY DEF Frame
  <2> HIDE DEF f
  <2>2. Fits("responses", v, f, t)  BY <1>2, <1>5, <2>1 DEF Fits
  <2> QED  BY <1>3, <1>5, <2>1, <2>2 DEF f
<1>6. ASSUME k \notin O, k \notin C PROVE Wires(w, Append(q, Frame("open", k)), O \cup {k}, C, t)
  <2> DEFINE f == Frame("open", k)
  <2>1. f.fr = "open" /\ f.item = k /\ f = Frame("open", f.item)  BY DEF Frame
  <2> HIDE DEF f
  <2>2. Fits("responses", v, f, t)  BY <1>2, <1>6, <2>1 DEF Fits
  <2> QED  BY <1>3, <1>6, <2>1, <2>2 DEF f
<1> QED  BY <1>4, <1>5, <1>6

LEMMA WireItems ==
    ASSUME NEW w, ViewShape(w), w.begun, ~w.finished, NEW t, NEW k \in BlockIndices,
           NEW O, O = w.open, NEW C, C = w.closed
    PROVE  /\ k \in O =>
                 /\ Wires(w, <<Frame("delta", k)>>, O, C, t)
                 /\ Wires(w, <<Frame("part", k), Frame("close", k)>>, O \ {k}, C \cup {k}, t)
                 /\ Wires(w, <<Frame("part", k), Frame("part", k), Frame("close", k)>>,
                          O \ {k}, C \cup {k}, t)
           /\ k \notin O /\ k \notin C =>
                 /\ Wires(w, <<Frame("open", k)>>, O \cup {k}, C, t)
                 /\ Wires(w, <<Frame("open", k), Frame("part", k)>>, O \cup {k}, C, t)
<1> DEFINE P == Frame("part", k)
           D == Frame("delta", k)
           E == Frame("close", k)
           S == Frame("open", k)
<1>0. Wires(w, <<>>, O, C, t)  BY WireNone
<1>1. /\ \A x : Append(<<>>, x) = <<x>>
      /\ \A x, y : Append(<<x>>, y) = <<x, y>>
      /\ \A x, y, z : Append(<<x, y>>, z) = <<x, y, z>>
  <2>1. ASSUME NEW x, NEW y, NEW z
        PROVE  /\ Append(<<>>, x) = <<x>> /\ Append(<<x>>, y) = <<x, y>>
               /\ Append(<<x, y>>, z) = <<x, y, z>>
    <3>1. Append(<<>>, x) = <<x>>  OBVIOUS
    <3>2. <<x, y>> = Append(<<x>>, y)  BY AppendTwo
    <3>3. <<x, y, z>> = Append(Append(<<x>>, y), z)  BY AppendThree
    <3> QED  BY <3>1, <3>2, <3>3
  <2> QED  BY <2>1
<1>2. ASSUME NEW q, NEW Q, NEW R, Wires(w, q, Q, R, t)
      PROVE  /\ k \in Q => /\ Wires(w, Append(q, P), Q, R, t)
                           /\ Wires(w, Append(q, D), Q, R, t)
                           /\ Wires(w, Append(q, E), Q \ {k}, R \cup {k}, t)
             /\ k \notin Q /\ k \notin R => Wires(w, Append(q, S), Q \cup {k}, R, t)
  BY <1>2, WireStep
<1> HIDE DEF P, D, E, S
<1>3. ASSUME k \in O
      PROVE  /\ Wires(w, <<D>>, O, C, t)
             /\ Wires(w, <<P, E>>, O \ {k}, C \cup {k}, t)
             /\ Wires(w, <<P, P, E>>, O \ {k}, C \cup {k}, t)
  <2>1. Wires(w, <<D>>, O, C, t) /\ Wires(w, <<P>>, O, C, t)
    <3>1. Wires(w, Append(<<>>, D), O, C, t) /\ Wires(w, Append(<<>>, P), O, C, t)
      BY <1>0, <1>2, <1>3
    <3> QED  BY <1>1, <3>1
  <2>2. Wires(w, <<P, E>>, O \ {k}, C \cup {k}, t) /\ Wires(w, <<P, P>>, O, C, t)
    <3>1. Wires(w, Append(<<P>>, E), O \ {k}, C \cup {k}, t) /\ Wires(w, Append(<<P>>, P), O, C, t)
      BY <1>2, <1>3, <2>1
    <3> QED  BY <1>1, <3>1
  <2>3. Wires(w, <<P, P, E>>, O \ {k}, C \cup {k}, t)
    <3>1. Wires(w, Append(<<P, P>>, E), O \ {k}, C \cup {k}, t)
      BY <1>2, <1>3, <2>2
    <3> QED  BY <1>1, <3>1
  <2> QED  BY <2>1, <2>2, <2>3
<1>4. ASSUME k \notin O, k \notin C
      PROVE  /\ Wires(w, <<S>>, O \cup {k}, C, t)
             /\ Wires(w, <<S, P>>, O \cup {k}, C, t)
  <2>1. Wires(w, <<S>>, O \cup {k}, C, t)
    <3>1. Wires(w, Append(<<>>, S), O \cup {k}, C, t)  BY <1>0, <1>2, <1>4
    <3> QED  BY <1>1, <3>1
  <2>2. Wires(w, <<S, P>>, O \cup {k}, C, t)
    <3>1. k \in O \cup {k}  OBVIOUS
    <3>2. Wires(w, Append(<<S>>, P), O \cup {k}, C, t)  BY <1>2, <2>1, <3>1
    <3> QED  BY <1>1, <3>2
  <2> QED  BY <2>1, <2>2
<1> QED  BY <1>3, <1>4 DEF P, D, E, S

LEMMA ResponsesItem ==
    ASSUME NEW g, NEW s, ~s.done, NEW w, ResponsesFront(g, s, w), NEW t, NEW r, NEW h,
           h.seen = g.seen, h.spent = g.spent, NEW n, NEW o, NEW b, NEW O, NEW C,
           Mapped(s, n, o, b, r.st), Items(h.stage, n, o, b, O, C), Wires(w, r.out, O, C, t)
    PROVE  ResponsesShown(h, r, w, t)
<1>1. ResponsesOpen(g, s, w)  BY DEF ResponsesFront
<1>2. PICK x : Wired(w, r.out, x, O, C, t)  BY DEF Wires
<1>3. Plays("responses", w, r.out, x, t) /\ Kept(w, x) /\ x.open = O /\ x.closed = C
  BY <1>2 DEF Wired
<1>4. ResponsesOpen(h, r.st, x)
  BY <1>1, <1>3 DEF ResponsesOpen, Mapped, Kept
<1>5. ResponsesFront(h, r.st, x)  BY <1>3, <1>4 DEF ResponsesFront, Mapped, Kept
<1> QED  BY <1>3, <1>5 DEF ResponsesShown

LEMMA MappedAs ==
    ASSUME NEW s, ResponsesShape(s), NEW n, NEW o, NEW b, NEW r,
           r = [output_index |-> n, output |-> o, buffered |-> b,
                final_status |-> s.final_status, tokens |-> s.tokens, done |-> s.done]
    PROVE  Mapped(s, n, o, b, r)
BY DEF Mapped, ResponsesShape

LEMMA Unmapped ==
    ASSUME NEW s, ResponsesShape(s), NEW r
    PROVE  /\ r = s => Mapped(s, s.output_index, s.output, s.buffered, r)
           /\ \A b : r = [s EXCEPT !.buffered = b] =>
                      Mapped(s, s.output_index, s.output, b, r)
           /\ \A o, b : r = [s EXCEPT !.output = o, !.buffered = b] =>
                         Mapped(s, s.output_index, o, b, r)
           /\ \A i, x : r = AddItem(s, i, x) =>
                         Mapped(s, s.output_index + 1, Insert(s.output, i, s.output_index),
                                Insert(s.buffered, s.output_index, x), r)
<1>1. ASSUME r = s PROVE Mapped(s, s.output_index, s.output, s.buffered, r)
  BY <1>1 DEF Mapped, ResponsesShape
<1>2. ASSUME NEW b, r = [s EXCEPT !.buffered = b]
      PROVE  Mapped(s, s.output_index, s.output, b, r)
  <2>1. r = [output_index |-> s.output_index, output |-> s.output, buffered |-> b,
             final_status |-> s.final_status, tokens |-> s.tokens, done |-> s.done]
    BY <1>2 DEF ResponsesShape
  <2> QED  BY <2>1, MappedAs
<1>3. ASSUME NEW o, NEW b, r = [s EXCEPT !.output = o, !.buffered = b]
      PROVE  Mapped(s, s.output_index, o, b, r)
  <2> DEFINE z == [s EXCEPT !.output = o]
  <2>1. z = [output_index |-> s.output_index, output |-> o, buffered |-> s.buffered,
             final_status |-> s.final_status, tokens |-> s.tokens, done |-> s.done]
    BY DEF ResponsesShape
  <2>2. r = [z EXCEPT !.buffered = b]  BY <1>3
  <2> HIDE DEF z
  <2>3. r = [output_index |-> s.output_index, output |-> o, buffered |-> b,
             final_status |-> s.final_status, tokens |-> s.tokens, done |-> s.done]
    BY <2>1, <2>2
  <2> QED  BY <2>3, MappedAs
<1>4. ASSUME NEW i, NEW x, r = AddItem(s, i, x)
      PROVE  Mapped(s, s.output_index + 1, Insert(s.output, i, s.output_index),
                    Insert(s.buffered, s.output_index, x), r)
  <2> DEFINE m == s.output_index + 1
             p == Insert(s.output, i, s.output_index)
             d == Insert(s.buffered, s.output_index, x)
             y == [s EXCEPT !.output_index = m]
             z == [y EXCEPT !.output = p]
  <2>1. r = [z EXCEPT !.buffered = d]  BY <1>4 DEF AddItem
  <2> HIDE DEF m, p, d
  <2>2. y = [output_index |-> m, output |-> s.output, buffered |-> s.buffered,
             final_status |-> s.final_status, tokens |-> s.tokens, done |-> s.done]
    BY DEF ResponsesShape
  <2> HIDE DEF y
  <2>3. z = [output_index |-> m, output |-> p, buffered |-> s.buffered,
             final_status |-> s.final_status, tokens |-> s.tokens, done |-> s.done]
    BY <2>2
  <2> HIDE DEF z
  <2>4. r = [output_index |-> m, output |-> p, buffered |-> d,
             final_status |-> s.final_status, tokens |-> s.tokens, done |-> s.done]
    BY <2>1, <2>3
  <2>5. Mapped(s, m, p, d, r)  BY <2>4, MappedAs
  <2> QED  BY <2>5 DEF m, p, d
<1> QED  BY <1>1, <1>2, <1>3, <1>4

LEMMA ResponsesStarts ==
    ASSUME NEW g, Sound(g), NEW s, ~s.done, NEW w, ResponsesFront(g, s, w), NEW e, NEW t,
           Regular(g, e, t), NEW r, r = ResponsesHandle(s, e),
           e.ev \in {"ContentBlockStart", "ToolCallStart"}
    PROVE  ResponsesShown(Book(g, e), r, w, t)
<1> DEFINE h == Book(g, e)
           i == e.index
           n == s.output_index
           o == s.output
           b == s.buffered
           O == w.open
           C == w.closed
<1>0. /\ ResponsesShape(s) /\ ViewShape(w) /\ ResponsesOpen(g, s, w) /\ g \in Account
      /\ "MessageStart" \in g.seen => "ResponseStart" \in g.seen
  BY DEF ResponsesFront, Sound
<1> HIDE DEF h
<1>1. BlockBooked(g, e, h) /\ i \in BlockIndices /\ "MessageStart" \in g.seen
  BY <1>0, BlockBooks DEF h
<1>2. /\ \A j \in BlockIndices : j # i => h.stage[j] = g.stage[j]
      /\ h.seen = g.seen /\ h.spent = g.spent
      /\ e.ev = "ContentBlockStart" =>
            g.stage[i] = "new" /\ h.stage[i] = (IF e.kind = "ToolCall" THEN "raw" ELSE e.kind)
            /\ e.kind \in ContentBlockKind
      /\ e.ev = "ToolCallStart" => g.stage[i] = "raw" /\ h.stage[i] = "named"
  BY <1>1 DEF BlockBooked
<1>3. w.begun /\ ~w.finished /\ Items(g.stage, n, o, b, O, C)  BY <1>0, <1>1 DEF ResponsesOpen
<1>4. r = ItemStart(s, e)  BY DEF ResponsesHandle
<1>5. g.stage[i] \in {"new", "raw"}  BY <1>2
<1>6. n \in BlockIndices /\ n \notin O /\ n \notin C  BY <1>1, <1>3, <1>5, ItemNumbers
<1>7. ASSUME NEW x, x = BufferOf(h.stage[i]), h.stage[i] \in {"Text", "Reasoning", "named"},
             r.st = AddItem(s, i, x), Wires(w, r.out, O \cup {n}, C, t)
      PROVE  ResponsesShown(h, r, w, t)
  <2> DEFINE p == Insert(o, i, n)
             d == Insert(b, n, x)
  <2>1. Mapped(s, n + 1, p, d, r.st)  BY <1>0, <1>7, Unmapped
  <2>2. p = Insert(o, i, n) /\ d = Insert(b, n, BufferOf(h.stage[i]))  BY <1>7
  <2> HIDE DEF p, d, n, o, b, i
  <2>3. Items(h.stage, n + 1, p, d, O \cup {n}, C)
    BY <1>1, <1>2, <1>3, <1>5, <1>7, <2>2, ItemAdded
  <2> QED  BY <1>2, <1>7, <2>1, <2>3, ResponsesItem
<1>8. CASE e.ev = "ToolCallStart"
  <2>1. r = [st |-> AddItem(s, i, "args"), out |-> <<Frame("open", n)>>]
    BY <1>4, <1>8 DEF ItemStart
  <2>2. Wires(w, <<Frame("open", n)>>, O \cup {n}, C, t)  BY <1>0, <1>3, <1>6, WireItems
  <2>3. h.stage[i] = "named" /\ "args" = BufferOf("named")  BY <1>2, <1>8 DEF BufferOf
  <2> QED  BY <1>7, <2>1, <2>2, <2>3 DEF h
<1>9. CASE e.ev = "ContentBlockStart" /\ e.kind = "Text"
  <2>1. r = [st |-> AddItem(s, i, "text"), out |-> <<Frame("open", n), Frame("part", n)>>]
    BY <1>4, <1>9 DEF ItemStart
  <2>2. Wires(w, <<Frame("open", n), Frame("part", n)>>, O \cup {n}, C, t)
    BY <1>0, <1>3, <1>6, WireItems
  <2>3. h.stage[i] = "Text" /\ "text" = BufferOf("Text")  BY <1>2, <1>9 DEF BufferOf
  <2>4. r.st = AddItem(s, i, "text") /\ r.out = <<Frame("open", n), Frame("part", n)>>  BY <2>1
  <2> QED  BY <1>7, <2>2, <2>3, <2>4 DEF h
<1>10. CASE e.ev = "ContentBlockStart" /\ e.kind = "Reasoning"
  <2>1. r = [st |-> AddItem(s, i, "reasoning"), out |-> <<Frame("open", n)>>]
    BY <1>4, <1>10 DEF ItemStart
  <2>2. Wires(w, <<Frame("open", n)>>, O \cup {n}, C, t)  BY <1>0, <1>3, <1>6, WireItems
  <2>3. h.stage[i] = "Reasoning" /\ "reasoning" = BufferOf("Reasoning")  BY <1>2, <1>10 DEF BufferOf
  <2> QED  BY <1>7, <2>1, <2>2, <2>3 DEF h
<1>11. CASE e.ev = "ContentBlockStart" /\ e.kind \notin {"Text", "Reasoning"}
  <2>1. r = Start(s)  BY <1>4, <1>11 DEF ItemStart
  <2>2. r.st = s /\ r.out = <<>>  BY <2>1 DEF Start
  <2>3. g.stage[i] = "new" /\ h.stage[i] \in {"raw", "RedactedReasoning"}
    BY <1>2, <1>11 DEF ContentBlockKind
  <2>4. Items(h.stage, n, o, b, O, C)
    BY <1>1, <1>2, <1>3, <2>3, ItemElsewhere DEF ItemStages
  <2>5. Wires(w, r.out, O, C, t)  BY <1>0, <2>2, WireNone
  <2>6. Mapped(s, n, o, b, r.st)  BY <1>0, <2>2, Unmapped
  <2> QED  BY <1>2, <2>4, <2>5, <2>6, ResponsesItem DEF h
<1> QED  BY <1>8, <1>9, <1>10, <1>11

LEMMA ResponsesGoesOn ==
    ASSUME NEW g, Sound(g), NEW s, ~s.done, NEW w, ResponsesFront(g, s, w), NEW e, NEW t,
           Regular(g, e, t), NEW r, r = ResponsesHandle(s, e),
           e.ev \in {"TextDelta", "ReasoningDelta", "ToolCallArgumentsDelta", "ToolCallStop",
                     "ContentBlockStop"}
    PROVE  ResponsesShown(Book(g, e), r, w, t)
<1> DEFINE h == Book(g, e)
           i == e.index
           n == s.output_index
           o == s.output
           b == s.buffered
           O == w.open
           C == w.closed
<1>0. /\ ResponsesShape(s) /\ ViewShape(w) /\ ResponsesOpen(g, s, w) /\ g \in Account
      /\ "MessageStart" \in g.seen => "ResponseStart" \in g.seen
  BY DEF ResponsesFront, Sound
<1> HIDE DEF h
<1>1. BlockBooked(g, e, h) /\ i \in BlockIndices /\ "MessageStart" \in g.seen
  BY <1>0, BlockBooks DEF h
<1>2. /\ \A j \in BlockIndices : j # i => h.stage[j] = g.stage[j]
      /\ h.seen = g.seen /\ h.spent = g.spent
  BY <1>1 DEF BlockBooked
<1>3. w.begun /\ ~w.finished /\ Items(g.stage, n, o, b, O, C)  BY <1>0, <1>1 DEF ResponsesOpen
<1>4. /\ DOMAIN o = {j \in BlockIndices : g.stage[j] \in ItemStages}
      /\ i \in DOMAIN o => o[i] \in BlockIndices
      /\ i \in DOMAIN o => IF g.stage[i] = "halted" THEN o[i] \notin DOMAIN b
                           ELSE o[i] \in DOMAIN b /\ b[o[i]] = BufferOf(g.stage[i]) /\ o[i] \in O
  <2>1. \A j \in DOMAIN o : o[j] \in BlockIndices  BY <1>3, ItemNumbers
  <2> QED  BY <1>3, <2>1 DEF Items
<1>5. CASE e.ev \in {"TextDelta", "ReasoningDelta", "ToolCallArgumentsDelta"}
  <2>1. g.stage[i] \in {"Text", "Reasoning", "named"} /\ h.stage[i] = g.stage[i]
    BY <1>1, <1>5 DEF BlockBooked
  <2>2. i \in DOMAIN o /\ o[i] \in BlockIndices /\ o[i] \in O
    BY <1>1, <1>4, <2>1 DEF ItemStages
  <2>3. r = Say(Start(s), <<Frame("delta", o[i])>>)
    BY <1>5, <2>2 DEF ResponsesHandle, ItemDelta
  <2>4. r.st = s /\ r.out = <<Frame("delta", o[i])>>  BY <2>3, SayFrames
  <2>5. Wires(w, <<Frame("delta", o[i])>>, O, C, t)  BY <1>0, <1>3, <2>2, WireItems
  <2>6. Items(h.stage, n, o, b, O, C)
    BY <1>1, <1>2, <1>3, <2>1, ItemElsewhere DEF ItemStages
  <2>7. Mapped(s, n, o, b, r.st)  BY <1>0, <2>4, Unmapped
  <2>8. Wires(w, r.out, O, C, t)  BY <2>4, <2>5
  <2> QED  BY <1>2, <2>6, <2>7, <2>8, ResponsesItem DEF h
<1>6. CASE e.ev = "ToolCallStop"
  <2>1. g.stage[i] = "named" /\ h.stage[i] = "halted"  BY <1>1, <1>6 DEF BlockBooked
  <2>2. i \in DOMAIN o /\ o[i] \in BlockIndices /\ o[i] \in O /\ o[i] \in DOMAIN b /\ b[o[i]] = "args"
    BY <1>1, <1>4, <2>1 DEF ItemStages, BufferOf
  <2> DEFINE d == Without(b, o[i])
  <2>3. r = ToolDone(s, e)  BY <1>6 DEF ResponsesHandle
  <2>4. r.st = [s EXCEPT !.buffered = d] /\ r.out = <<Frame("part", o[i]), Frame("close", o[i])>>
    BY <2>2, <2>3 DEF ToolDone, When
  <2>5. Wires(w, <<Frame("part", o[i]), Frame("close", o[i])>>, O \ {o[i]}, C \cup {o[i]}, t)
    BY <1>0, <1>3, <2>2, WireItems
  <2>6. Items(h.stage, n, o, d, O \ {o[i]}, C \cup {o[i]})
    BY <1>1, <1>2, <1>3, <2>1, ItemHalted
  <2>7. Mapped(s, n, o, d, r.st)  BY <1>0, <2>4, Unmapped
  <2>8. Wires(w, r.out, O \ {o[i]}, C \cup {o[i]}, t)  BY <2>4, <2>5
  <2> QED  BY <1>2, <2>6, <2>7, <2>8, ResponsesItem DEF h
<1>7. CASE e.ev = "ContentBlockStop"
  <2>1. g.stage[i] \in {"Text", "Reasoning", "RedactedReasoning", "halted"} /\ h.stage[i] = "closed"
    BY <1>1, <1>7 DEF BlockBooked
  <2>2. r = ItemDone(s, e)  BY <1>7 DEF ResponsesHandle
  <2> DEFINE p == Without(o, i)
             d == Without(b, o[i])
  <2>3. CASE g.stage[i] = "RedactedReasoning"
    <3>1. i \notin DOMAIN o  BY <1>4, <2>3 DEF ItemStages
    <3>2. r.st = s /\ r.out = <<>>  BY <2>2, <3>1 DEF ItemDone, Start
    <3>3. Items(h.stage, n, o, b, O, C)
      BY <1>1, <1>2, <1>3, <2>1, <2>3, ItemElsewhere DEF ItemStages
    <3>4. Wires(w, r.out, O, C, t)  BY <1>0, <3>2, WireNone
    <3>5. Mapped(s, n, o, b, r.st)  BY <1>0, <3>2, Unmapped
    <3> QED  BY <1>2, <3>3, <3>4, <3>5, ResponsesItem DEF h
  <2>4. CASE g.stage[i] = "halted"
    <3>1. i \in DOMAIN o /\ o[i] \notin DOMAIN b  BY <1>1, <1>4, <2>4 DEF ItemStages
    <3>2. r.st = [s EXCEPT !.output = p, !.buffered = b] /\ r.out = <<>>
      BY <1>0, <2>2, <3>1 DEF ItemDone, When, ResponsesShape
    <3>3. Items(h.stage, n, p, b, O, C)
      <4>1. p = Without(o, i)  OBVIOUS
      <4> HIDE DEF p, n, o, b, O, C, i
      <4> QED  BY <1>1, <1>2, <1>3, <2>1, <2>4, <4>1, ItemClosed
    <3>4. Wires(w, r.out, O, C, t)  BY <1>0, <3>2, WireNone
    <3>5. Mapped(s, n, p, b, r.st)  BY <1>0, <3>2, Unmapped
    <3> QED  BY <1>2, <3>3, <3>4, <3>5, ResponsesItem DEF h
  <2>5. CASE g.stage[i] \in {"Text", "Reasoning"}
    <3>1. i \in DOMAIN o /\ o[i] \in BlockIndices /\ o[i] \in O /\ o[i] \in DOMAIN b
          /\ b[o[i]] = BufferOf(g.stage[i])
      BY <1>1, <1>4, <2>5 DEF ItemStages
    <3>2. b[o[i]] = (IF g.stage[i] = "Text" THEN "text" ELSE "reasoning")
      BY <2>5, <3>1 DEF BufferOf
    <3>3. r.st = [s EXCEPT !.output = p, !.buffered = d]
      BY <2>2, <2>5, <3>1, <3>2 DEF ItemDone, When
    <3>4. Wires(w, r.out, O \ {o[i]}, C \cup {o[i]}, t)
      <4>1. /\ Wires(w, <<Frame("part", o[i]), Frame("close", o[i])>>, O \ {o[i]}, C \cup {o[i]}, t)
            /\ Wires(w, <<Frame("part", o[i]), Frame("part", o[i]), Frame("close", o[i])>>,
                     O \ {o[i]}, C \cup {o[i]}, t)
        BY <1>0, <1>3, <3>1, WireItems
      <4>2. CASE g.stage[i] = "Text"
        <5>1. r.out = <<Frame("part", o[i]), Frame("part", o[i]), Frame("close", o[i])>>
          BY <2>2, <3>1, <3>2, <4>2 DEF ItemDone
        <5> QED  BY <4>1, <5>1
      <4>3. CASE g.stage[i] = "Reasoning"
        <5>1. r.out = <<Frame("part", o[i]), Frame("close", o[i])>>
          BY <2>2, <3>1, <3>2, <4>3 DEF ItemDone
        <5> QED  BY <4>1, <5>1
      <4> QED  BY <2>5, <4>2, <4>3
    <3>5. Items(h.stage, n, p, d, O \ {o[i]}, C \cup {o[i]})
      BY <1>1, <1>2, <1>3, <2>1, <2>5, ItemClosed
    <3>6. Mapped(s, n, p, d, r.st)  BY <1>0, <3>3, Unmapped
    <3> QED  BY <1>2, <3>4, <3>5, <3>6, ResponsesItem DEF h
  <2> QED  BY <2>1, <2>3, <2>4, <2>5
<1> QED  BY <1>5, <1>6, <1>7

LEMMA ResponsesEnvelope ==
    ASSUME NEW g, Sound(g), NEW s, ~s.done, NEW w, ResponsesFront(g, s, w), NEW e, NEW t,
           Regular(g, e, t), NEW r, r = ResponsesHandle(s, e),
           e.ev \in {"ResponseStart", "MessageStart", "MessageStop", "UsageDelta", "Err", "Error"}
    PROVE  ResponsesShown(Book(g, e), r, w, t)
<1> DEFINE h == Book(g, e)
<1>0. /\ ResponsesShape(s) /\ ViewShape(w) /\ ResponsesOpen(g, s, w) /\ g \in Account
  BY DEF ResponsesFront, Sound
<1>1. CASE e.ev = "ResponseStart"
  <2> DEFINE f == Frame("begin", NoIndex)
             v == Client!See(w, f)
  <2>1. r = Say(Start(s), <<f>>)  BY <1>1 DEF ResponsesHandle
  <2>2. r.st = s /\ r.out = <<f>>  BY <2>1, SayFrames
  <2>3. g.seen = {} /\ h.seen = {"ResponseStart"} /\ h.stage = g.stage /\ h.spent = g.spent
    BY <1>1 DEF Regular, Book, WithSeen
  <2>4. f.fr = "begin" /\ Fits("responses", w, f, t) /\ v = Client!See(w, f)
    BY <1>0, <2>3 DEF Fits, Frame, ResponsesOpen
  <2> HIDE DEF f, v, h
  <2>5. Plays("responses", w, <<f>>, v, t) /\ SeenAs(w, f, v)  BY <1>0, <2>4, ShowsOne
  <2>6. /\ ViewShape(v) /\ v.begun /\ v.open = w.open /\ v.closed = w.closed
        /\ (v.finished <=> w.finished) /\ v.reason = w.reason /\ v.usage = w.usage
    BY <2>4, <2>5 DEF SeenAs
  <2>7. ResponsesOpen(h, s, v)  BY <1>0, <2>3, <2>6 DEF ResponsesOpen
  <2> QED  BY <1>0, <2>2, <2>5, <2>6, <2>7 DEF ResponsesShown, ResponsesFront, h
<1>2. CASE e.ev \in {"Err", "Error"}
  <2> DEFINE f == Frame("error", NoIndex)
             v == Client!See(w, f)
  <2>1. r = Say(Start(s), <<f>>)  BY <1>2 DEF ResponsesHandle
  <2>2. r.st = s /\ r.out = <<f>>  BY <2>1, SayFrames
  <2>3. h = g  BY <1>2 DEF Book
  <2>4. f.fr = "error" /\ Fits("responses", w, f, t) /\ v = Client!See(w, f)
    BY <1>0 DEF Fits, Frame, ResponsesOpen
  <2> HIDE DEF f, v, h
  <2>5. Plays("responses", w, <<f>>, v, t) /\ SeenAs(w, f, v)  BY <1>0, <2>4, ShowsOne
  <2>6. /\ ViewShape(v) /\ (v.begun <=> w.begun) /\ v.open = w.open /\ v.closed = w.closed
        /\ (v.finished <=> w.finished) /\ v.reason = w.reason /\ v.usage = w.usage
    BY <2>4, <2>5 DEF SeenAs
  <2>7. ResponsesOpen(h, s, v)  BY <1>0, <2>3, <2>6 DEF ResponsesOpen
  <2> QED  BY <1>0, <2>2, <2>5, <2>6, <2>7 DEF ResponsesShown, ResponsesFront, h
<1>3. CASE e.ev = "MessageStart"
  <2>1. r = Start(s)  BY <1>3 DEF ResponsesHandle
  <2>2. r.st = s /\ r.out = <<>>  BY <2>1 DEF Start
  <2>3. g.seen = {"ResponseStart"} /\ h.seen = {"ResponseStart", "MessageStart"}
        /\ h.stage = g.stage /\ h.spent = g.spent
    BY <1>3 DEF Regular, Book, WithSeen
  <2> HIDE DEF h
  <2>4. ResponsesOpen(h, s, w)  BY <1>0, <2>3 DEF ResponsesOpen
  <2> QED  BY <1>0, <2>2, <2>4, PlaysNothing DEF ResponsesShown, ResponsesFront, h
<1>4. CASE e.ev = "MessageStop"
  <2> DEFINE x == StatusOf(e.stop)
  <2>1. r.st = [s EXCEPT !.final_status = {x}] /\ r.out = <<>>
    BY <1>4 DEF ResponsesHandle, Start
  <2>2. x \in {"completed", "incomplete"}  BY DEF StatusOf
  <2> HIDE DEF x
  <2>3. r.st = [output_index |-> s.output_index, output |-> s.output, buffered |-> s.buffered,
                final_status |-> {x}, tokens |-> s.tokens, done |-> s.done]
    BY <1>0, <2>1 DEF ResponsesShape
  <2> DEFINE z == r.st
  <2>4. /\ ResponsesShape(z) /\ z.done = s.done /\ z.tokens = s.tokens
        /\ z.final_status = {x} /\ z.output_index = s.output_index /\ z.output = s.output
        /\ z.buffered = s.buffered
    BY <1>0, <2>3 DEF ResponsesShape
  <2>5. h.seen = g.seen \cup {"MessageStop"} /\ h.stage = g.stage /\ h.spent = g.spent
    BY <1>4 DEF Book, WithStop
  <2>6. z = r.st  OBVIOUS
  <2> HIDE DEF h, z
  <2>7. ResponsesOpen(h, z, w)  BY <1>0, <2>2, <2>4, <2>5 DEF ResponsesOpen, OneOf
  <2>8. ResponsesFront(h, z, w)  BY <1>0, <2>4, <2>7 DEF ResponsesFront
  <2> QED  BY <2>1, <2>6, <2>8, PlaysNothing DEF ResponsesShown, h
<1>5. CASE e.ev = "UsageDelta"
  <2> DEFINE n == s.tokens + (CHOOSE m \in e.usage : TRUE)
  <2>1. r.st = [s EXCEPT !.tokens = n] /\ r.out = <<>>
    BY <1>5 DEF ResponsesHandle, Start, AddUsage
  <2>2. h.seen = g.seen /\ h.stage = g.stage /\ h.spent = g.spent + (CHOOSE m \in e.usage : TRUE)
    BY <1>5 DEF Book, WithSpent
  <2>9. h.spent = n  BY <1>0, <2>2 DEF ResponsesOpen
  <2> HIDE DEF n
  <2>3. r.st = [output_index |-> s.output_index, output |-> s.output, buffered |-> s.buffered,
                final_status |-> s.final_status, tokens |-> n, done |-> s.done]
    BY <1>0, <2>1 DEF ResponsesShape
  <2> DEFINE z == r.st
  <2>4. /\ ResponsesShape(z) /\ z.done = s.done /\ z.tokens = n
        /\ z.final_status = s.final_status /\ z.output_index = s.output_index /\ z.output = s.output
        /\ z.buffered = s.buffered
    BY <1>0, <2>3 DEF ResponsesShape
  <2>6. z = r.st  OBVIOUS
  <2> HIDE DEF h, z
  <2>7. ResponsesOpen(h, z, w)  BY <1>0, <2>2, <2>4, <2>9 DEF ResponsesOpen
  <2>8. ResponsesFront(h, z, w)  BY <1>0, <2>4, <2>7 DEF ResponsesFront
  <2> QED  BY <2>1, <2>6, <2>8, PlaysNothing DEF ResponsesShown, h
<1> QED  BY <1>1, <1>2, <1>3, <1>4, <1>5

LEMMA ResponsesStop ==
    ASSUME NEW g, Sound(g), NEW s, ~s.done, NEW w, ResponsesFront(g, s, w), NEW e, NEW t,
           Regular(g, e, t), NEW r, r = ResponsesHandle(s, e), t.tokens \in Nat,
           e.ev = "ResponseStop"
    PROVE  ResponsesShown(Book(g, e), r, w, t)
<1>0. /\ ResponsesShape(s) /\ ViewShape(w) /\ ResponsesOpen(g, s, w)
      /\ "MessageStop" \in g.seen => AllQuiet(g)
  BY DEF ResponsesFront, Sound
<1>1. /\ "MessageStop" \in g.seen /\ "ResponseStart" \in g.seen /\ FinalUsage(g.spent, e) = t.tokens
  BY DEF Regular
<1> DEFINE n == FinalUsage(s.tokens, e)
           c == IF s.final_status = {} THEN "completed" ELSE CHOOSE x \in s.final_status : TRUE
           f1 == StopFrame("stop", c)
           f2 == UsageFrame("usage", n)
           f3 == Frame("finish", NoIndex)
           v1 == Client!See(w, f1)
           v2 == Client!See(v1, f2)
           v3 == Client!See(v2, f3)
<1>4. n = t.tokens  BY <1>0, <1>1 DEF ResponsesOpen
<1>5. r = ResponseCompleted(s, e)  BY DEF ResponsesHandle
<1>6. r.st = [s EXCEPT !.tokens = n, !.done = TRUE] /\ r.out = <<f1, f2, f3>>
  BY <1>5 DEF ResponseCompleted
<1>2. c \in {"completed", "incomplete"}
  <2>1. CASE s.final_status = {}  BY <2>1
  <2>2. CASE s.final_status # {}
    <3>1. PICK y \in {"completed", "incomplete"} : s.final_status = {y}
      BY <1>0, <2>2 DEF ResponsesOpen, OneOf
    <3>2. (CHOOSE x \in {y} : TRUE) = y  OBVIOUS
    <3> QED  BY <2>2, <3>1, <3>2
  <2> QED  BY <2>1, <2>2
<1>11. /\ f1.fr = "stop" /\ f1.reason = c /\ f1 = StopFrame("stop", f1.reason)
       /\ f2.fr = "usage" /\ f2.usage = t.tokens /\ f2 = UsageFrame("usage", f2.usage)
       /\ f3.fr = "finish" /\ f3 = Frame("finish", NoIndex)
  BY <1>4 DEF StopFrame, UsageFrame, Frame
<1>12. v1 = Client!See(w, f1) /\ v2 = Client!See(v1, f2) /\ v3 = Client!See(v2, f3)  OBVIOUS
<1> HIDE DEF f1, f2, f3, v1, v2, v3, n, c
<1>7. ResponsesShape(r.st) /\ r.st.done
  <2> DEFINE z == [s EXCEPT !.tokens = n]
  <2>1. z = [output_index |-> s.output_index, output |-> s.output, buffered |-> s.buffered,
             final_status |-> s.final_status, tokens |-> n, done |-> s.done]
    BY <1>0 DEF ResponsesShape
  <2>2. r.st = [z EXCEPT !.done = TRUE]  BY <1>6
  <2> HIDE DEF z
  <2>3. r.st = [output_index |-> s.output_index, output |-> s.output, buffered |-> s.buffered,
                final_status |-> s.final_status, tokens |-> n, done |-> TRUE]
    BY <2>1, <2>2
  <2> QED  BY <2>3 DEF ResponsesShape
<1>8. w.open = {} /\ w.begun /\ ~w.finished /\ w.reason = "none" /\ w.usage = {}
  <2>1. w.begun /\ ~w.finished /\ w.reason = "none" /\ w.usage = {}
        /\ Items(g.stage, s.output_index, s.output, s.buffered, w.open, w.closed)
    BY <1>0, <1>1 DEF ResponsesOpen
  <2>2. \A i \in BlockIndices : g.stage[i] \notin ItemStages
    BY <1>0, <1>1 DEF AllQuiet, ItemStages
  <2>3. DOMAIN s.output = {}  BY <2>1, <2>2 DEF Items
  <2>4. w.open = {}  BY <2>1, <2>3 DEF Items
  <2> QED  BY <2>1, <2>4
<1>10. Tells(c, t, "responses") /\ c \in Reasons /\ c # "none"
  BY <1>2 DEF Tells, Reasons
<1>13. Fits("responses", w, f1, t)  BY <1>8, <1>10, <1>11 DEF Fits
<1>14. Plays("responses", w, <<f1>>, v1, t) /\ SeenAs(w, f1, v1)  BY <1>0, <1>12, <1>13, ShowsOne
<1>15. ViewShape(v1) /\ v1.begun /\ ~v1.finished /\ v1.usage = {} /\ v1.reason # "none" /\ v1.open = {}
  BY <1>8, <1>10, <1>11, <1>14 DEF SeenAs
<1>16. Fits("responses", v1, f2, t)  BY <1>11, <1>15 DEF Fits
<1>17. Plays("responses", w, Append(<<f1>>, f2), v2, t) /\ SeenAs(v1, f2, v2)
  BY <1>12, <1>14, <1>15, <1>16, ShowsMore
<1>18. ViewShape(v2) /\ v2.begun /\ ~v2.finished /\ v2.reason # "none" /\ v2.open = {}
  BY <1>11, <1>15, <1>17 DEF SeenAs
<1>19. Fits("responses", v2, f3, t)  BY <1>11, <1>18 DEF Fits
<1>20. Plays("responses", w, Append(Append(<<f1>>, f2), f3), v3, t) /\ SeenAs(v2, f3, v3)
  BY <1>12, <1>17, <1>18, <1>19, ShowsMore
<1>21. ViewShape(v3) /\ v3.finished  BY <1>11, <1>20 DEF SeenAs
<1>22. Plays("responses", w, r.out, v3, t)
  <2>1. r.out = <<f1, f2, f3>>  BY <1>6
  <2>2. <<f1, f2, f3>> = Append(Append(<<f1>>, f2), f3)  BY AppendThree
  <2>3. Append(Append(<<f1>>, f2), f3) = r.out  BY <2>1, <2>2
  <2> QED  BY <1>20, <2>3
<1> QED  BY <1>7, <1>21, <1>22 DEF ResponsesShown, ResponsesFront

LEMMA ResponsesEncodes ==
    ASSUME NEW g, Sound(g), NEW s, ~s.done, NEW w, ResponsesFront(g, s, w), NEW e, NEW t,
           Regular(g, e, t), NEW r, r = ResponsesHandle(s, e), t.tokens \in Nat
    PROVE  ResponsesShown(Book(g, e), r, w, t)
<1>1. \/ e.ev \in {"ResponseStart", "MessageStart", "MessageStop", "UsageDelta", "Err", "Error"}
      \/ e.ev \in {"ContentBlockStart", "ToolCallStart"}
      \/ e.ev \in {"TextDelta", "ReasoningDelta", "ToolCallArgumentsDelta", "ToolCallStop",
                   "ContentBlockStop"}
      \/ e.ev = "ResponseStop"
  BY DEF Regular
<1> QED  BY <1>1, ResponsesEnvelope, ResponsesStarts, ResponsesGoesOn, ResponsesStop
-----------------------------------------------------------------------------
(* One response as a whole: an event goes from the queue to the client.    *)
LEMMA LeadsDone ==
    ASSUME NEW g, NEW h, NEW t, Leads(g, <<>>, h, t)
    PROVE  h = g
BY DEF Leads

(* An encoder that is not done.                                            *)
LEMMA FrontOpen ==
    ASSUME NEW d \in {"anthropic", "chat", "responses"}, NEW g, NEW s, NEW w,
           FrontHolds(d, TRUE, g, s, w)
    PROVE  /\ s.done => w.finished
           /\ ~s.done => /\ "ResponseStop" \notin g.seen /\ w.usage = {}
                         /\ w.begun <=> "ResponseStart" \in g.seen
                         /\ w.reason # "none" => g.stop # {}
<1>1. CASE d = "anthropic"
  BY <1>1 DEF FrontHolds, AnthropicFront, AnthropicOpen
<1>2. CASE d = "chat"
  BY <1>2 DEF FrontHolds, ChatFront, ChatOpen
<1>3. CASE d = "responses"
  BY <1>3 DEF FrontHolds, ResponsesFront, ResponsesOpen
<1> QED  BY <1>1, <1>2, <1>3

(* One event through the encoder.                                          *)
LEMMA FrontStep ==
    ASSUME NEW d \in {"anthropic", "chat", "responses"}, NEW x \in BOOLEAN, NEW g, Sound(g),
           NEW s, ~s.done, NEW w, FrontHolds(d, x, g, s, w), NEW e, NEW t, Regular(g, e, t),
           t.tokens \in Nat, Settled(g, t), NEW r, r = HandleOf(d, x, s, e)
    PROVE  \E y : /\ Plays(d, w, r.out, y, t) /\ FrontHolds(d, x, Book(g, e), r.st, y)
                  /\ ~x => r.out = <<>> /\ y = w
<1>1. CASE ~x
  <2>1. r = Start(Collect(s, e))  BY <1>1 DEF HandleOf
  <2>2. r.out = <<>>  BY <2>1 DEF Start
  <2> QED  BY <1>1, <2>2, PlaysNothing DEF FrontHolds
<1>2. CASE x /\ d = "anthropic"
  <2>1. r = AnthropicHandle(s, e)  BY <1>2 DEF HandleOf
  <2>2. AnthropicFront(g, s, w)  BY <1>2 DEF FrontHolds
  <2>3. AnthropicShown(Book(g, e), r, w, t)  BY <2>1, <2>2, AnthropicEncodes
  <2>4. PICK y : Plays("anthropic", w, r.out, y, t) /\ AnthropicFront(Book(g, e), r.st, y)
    BY <2>3 DEF AnthropicShown
  <2>5. FrontHolds(d, x, Book(g, e), r.st, y)  BY <1>2, <2>4 DEF FrontHolds
  <2> QED  BY <1>2, <2>4, <2>5
<1>3. CASE x /\ d = "chat"
  <2>1. r = ChatHandle(s, e)  BY <1>3 DEF HandleOf
  <2>2. ChatFront(g, s, w)  BY <1>3 DEF FrontHolds
  <2>3. ChatShown(Book(g, e), r, w, t)  BY <2>1, <2>2, ChatEncodes
  <2>4. PICK y : Plays("chat", w, r.out, y, t) /\ ChatFront(Book(g, e), r.st, y)
    BY <2>3 DEF ChatShown
  <2>5. FrontHolds(d, x, Book(g, e), r.st, y)  BY <1>3, <2>4 DEF FrontHolds
  <2> QED  BY <1>3, <2>4, <2>5
<1>4. CASE x /\ d = "responses"
  <2>1. r = ResponsesHandle(s, e)  BY <1>4 DEF HandleOf
  <2>2. ResponsesFront(g, s, w)  BY <1>4 DEF FrontHolds
  <2>3. ResponsesShown(Book(g, e), r, w, t)  BY <2>1, <2>2, ResponsesEncodes
  <2>4. PICK y : Plays("responses", w, r.out, y, t) /\ ResponsesFront(Book(g, e), r.st, y)
    BY <2>3 DEF ResponsesShown
  <2>5. FrontHolds(d, x, Book(g, e), r.st, y)  BY <1>4, <2>4 DEF FrontHolds
  <2> QED  BY <1>4, <2>4, <2>5
<1> QED  BY <1>1, <1>2, <1>3, <1>4

(* The encoder pulls an event: a step of the validator.                    *)
LEMMA PullHolds ==
    ASSUME NEW p, NEW d, NEW x, NEW u, NEW q, NEW s, NEW fr, NEW l, NEW v, NEW fin,
           NEW g, NEW h, NEW w, Holds(p, d, x, u, q, s, fr, l, v, fin, g, h, w),
           ~fin, fr = <<>>, q # <<>>, ~s.done, NEW e, e = Head(q),
           NEW r, r = HandleOf(d, x, s, e), NEW m, m = Lifecycle!Record(l, e)
    PROVE  /\ \E k, y : Holds(p, d, x, u, Tail(q), r.st, r.out, m, v, fin, k, h, y)
           /\ \E z \in Lifecycle!Event : Lifecycle!Legal(l, z) /\ m = Lifecycle!Record(l, z)
<1> DEFINE t == Terms(p, u)
           k == Book(g, e)
<1>0. /\ d \in {"anthropic", "chat", "responses"} /\ x \in BOOLEAN /\ fin \in BOOLEAN
      /\ Sound(g) /\ Of(l, g) /\ Leads(g, q, h, t) /\ Settled(g, t)
      /\ ViewShape(v) /\ Says(v, t, d) /\ Plays(d, v, fr, w, t)
      /\ ~x => v = Client!Blank /\ fr = <<>>
      /\ FrontHolds(d, x, g, s, w) /\ Through(p, h, u) /\ ~l.ended
  BY DEF Holds
<1>1. t.tokens \in Nat  BY <1>0 DEF Terms, Through
<1> HIDE DEF t
<1>2. Regular(g, e, t) /\ Leads(k, Tail(q), h, t)  BY <1>0, LeadsTail
<1>3. w = v  BY <1>0, PlaysDone
<1>4. PICK y : /\ Plays(d, w, r.out, y, t) /\ FrontHolds(d, x, k, r.st, y)
               /\ ~x => r.out = <<>> /\ y = w
  BY <1>0, <1>1, <1>2, FrontStep
<1>5. Sound(k)  BY <1>0, <1>2, BookSound
<1>6. Settled(k, t)  BY <1>0, <1>2, BookSettled
<1>7. Of(m, k)  BY <1>0, <1>2, RecordOf
<1>8. m.ended = l.ended
  <2>1. LifeShape(l)  BY <1>0 DEF Of
  <2> QED  BY <2>1, RecordIs
<1>9. Plays(d, v, r.out, y, t)  BY <1>3, <1>4
<1> HIDE DEF k
<1>10. Holds(p, d, x, u, Tail(q), r.st, r.out, m, v, fin, k, h, y)
  BY <1>0, <1>2, <1>4, <1>5, <1>6, <1>7, <1>8, <1>9 DEF Holds, t
<1>11. Lifecycle!Legal(l, e)  BY <1>0, <1>2, RegularLegal
<1>12. \E z \in Lifecycle!Event : Lifecycle!Legal(l, z) /\ Lifecycle!Record(l, z) = Lifecycle!Record(l, e)
  BY <1>2, <1>11, RegularEvent
<1> QED  BY <1>10, <1>12

(* The body writes a frame.                                                *)
LEMMA WriteHolds ==
    ASSUME NEW p, NEW d, NEW x, NEW u, NEW q, NEW s, NEW fr, NEW l, NEW v, NEW fin,
           NEW g, NEW h, NEW w, Holds(p, d, x, u, q, s, fr, l, v, fin, g, h, w),
           fr # <<>>, NEW y, y = Client!See(v, Head(fr))
    PROVE  /\ Holds(p, d, x, u, q, s, Tail(fr), l, y, fin, g, h, w)
           /\ ViewShape(v) /\ Fits(d, v, Head(fr), Terms(p, u))
<1> DEFINE t == Terms(p, u)
<1>0. /\ d \in {"anthropic", "chat", "responses"} /\ x \in BOOLEAN /\ fin \in BOOLEAN
      /\ Sound(g) /\ Of(l, g) /\ Leads(g, q, h, t) /\ Settled(g, t)
      /\ ViewShape(v) /\ Says(v, t, d) /\ Plays(d, v, fr, w, t)
      /\ x /\ ~fin
      /\ FrontHolds(d, x, g, s, w) /\ Through(p, h, u) /\ ~l.ended
  BY DEF Holds
<1> HIDE DEF t
<1>1. Fits(d, v, Head(fr), t) /\ Plays(d, y, Tail(fr), w, t)  BY <1>0, PlaysTail
<1>2. Says(y, t, d) /\ ViewShape(y)  BY <1>0, <1>1, SeeSays
<1>3. Holds(p, d, x, u, q, s, Tail(fr), l, y, fin, g, h, w)
  BY <1>0, <1>1, <1>2 DEF Holds, t
<1> QED  BY <1>0, <1>1, <1>3 DEF t

(* The body ends.                                                          *)
LEMMA EndHolds ==
    ASSUME NEW p, NEW d, NEW x, NEW u, NEW q, NEW s, NEW fr, NEW l, NEW v, NEW fin,
           NEW g, NEW h, NEW w, Holds(p, d, x, u, q, s, fr, l, v, fin, g, h, w),
           ~fin, fr = <<>>, s.done \/ (q = <<>> /\ u.phase = "gone"),
           NEW m, m = IF s.done THEN l ELSE Lifecycle!End(l)
    PROVE  Of(m, g) /\ (m.ended => q = <<>> /\ u.phase = "gone")
<1> DEFINE t == Terms(p, u)
<1>0. /\ d \in {"anthropic", "chat", "responses"} /\ x \in BOOLEAN
      /\ Sound(g) /\ Of(l, g) /\ Leads(g, q, h, t) /\ Settled(g, t)
      /\ ViewShape(v) /\ Says(v, t, d) /\ Plays(d, v, fr, w, t)
      /\ ~x => v = Client!Blank /\ fr = <<>>
      /\ FrontHolds(d, x, g, s, w) /\ Through(p, h, u) /\ ~l.ended
  BY DEF Holds
<1> HIDE DEF t
<1>1. Of(m, g) /\ (m.ended => q = <<>> /\ u.phase = "gone")
  <2>1. CASE s.done  BY <1>0, <2>1
  <2>2. CASE ~s.done
    <3>1. LifeShape(l)  BY <1>0 DEF Of
    <3>2. m = [l EXCEPT !.ended = TRUE]  BY <2>2 DEF Lifecycle!End
    <3>3. /\ LifeShape(m) /\ m.seen = l.seen /\ m.open = l.open /\ m.closed = l.closed
          /\ m.tool_stopped = l.tool_stopped
      BY <3>1, <3>2 DEF LifeShape
    <3>4. Of(m, g)  BY <1>0, <3>3 DEF Of
    <3> QED  BY <2>2, <3>4
  <2> QED  BY <2>1, <2>2
<1> QED  BY <1>1

(* More from the upstream, once everything before it has been written.     *)
LEMMA FeedHolds ==
    ASSUME NEW p, NEW d, NEW x, NEW u, NEW q, NEW s, NEW fr, NEW l, NEW v, NEW fin,
           NEW g, NEW h, NEW w, Holds(p, d, x, u, q, s, fr, l, v, fin, g, h, w),
           ~fin, fr = <<>>, q = <<>>, ~s.done,
           NEW c, NEW n, NEW k, Leads(h, n, k, Terms(p, c)), Through(p, k, c),
           h.stop # {} => c.called = u.called /\ c.reason = u.reason /\ c.reasoned = u.reasoned
    PROVE  Holds(p, d, x, c, n, s, fr, l, v, fin, g, k, w)
<1> DEFINE t == Terms(p, u)
           z == Terms(p, c)
<1>0. /\ d \in {"anthropic", "chat", "responses"} /\ x \in BOOLEAN /\ fin \in BOOLEAN
      /\ Sound(g) /\ Of(l, g) /\ Leads(g, q, h, t) /\ Settled(g, t)
      /\ ViewShape(v) /\ Says(v, t, d) /\ Plays(d, v, fr, w, t)
      /\ ~x => v = Client!Blank
      /\ FrontHolds(d, x, g, s, w) /\ ~l.ended
  BY DEF Holds
<1>1. g.stop # {} => z.due = t.due /\ z.final = t.final
  <2>1. h = g  BY <1>0, LeadsDone
  <2> QED  BY <2>1 DEF Terms, Due
<1>2. Leads(h, n, k, z)  OBVIOUS
<1> HIDE DEF t, z
<1>3. h = g /\ w = v  BY <1>0, LeadsDone, PlaysDone
<1>4. Leads(g, n, k, z)  BY <1>2, <1>3
<1>5. Settled(g, z)  BY <1>0, <1>1 DEF Settled, Honest
<1>6. v.usage = {} /\ (v.reason # "none" => g.stop # {})
  <2>1. CASE x
    <3>1. FrontHolds(d, TRUE, g, s, w)  BY <1>0, <2>1
    <3> QED  BY <1>0, <1>3, <3>1, FrontOpen
  <2>2. CASE ~x  BY <1>0, <2>2 DEF Client!Blank
  <2> QED  BY <2>1, <2>2
<1>7. Says(v, z, d)
  <2>1. v.reason # "none" => Tells(v.reason, z, d)
    BY <1>0, <1>1, <1>6 DEF Says, Tells
  <2> QED  BY <1>0, <1>6, <2>1 DEF Says
<1>8. Plays(d, v, fr, w, z)  BY <1>3, PlaysNothing
<1> QED  BY <1>0, <1>4, <1>5, <1>7, <1>8 DEF Holds, z

(* What the runs check of a response follows.                              *)
LEMMA HoldsShows ==
    ASSUME NEW g, NEW h, NEW w,
           Holds(provider, frontend, streamed, up, events, encoder, frames, life, view, ended, g, h, w)
    PROVE  DrainTail /\ UsageExact /\ ReasonKept
<1> DEFINE t == Terms(provider, up)
<1>0. /\ frontend \in {"anthropic", "chat", "responses"} /\ streamed \in BOOLEAN
      /\ Of(life, g) /\ Leads(g, events, h, t) /\ ViewShape(view) /\ Says(view, t, frontend)
      /\ Plays(frontend, view, frames, w, t)
      /\ ~streamed => view = Client!Blank
      /\ FrontHolds(frontend, streamed, g, encoder, w) /\ Through(provider, h, up)
      /\ ended => frames = <<>> /\ (encoder.done \/ (events = <<>> /\ up.phase = "gone"))
      /\ life.ended => ended /\ events = <<>> /\ up.phase = "gone"
  BY DEF Holds
<1>1. t.tokens = up.tokens /\ t.due = Due(provider, up) /\ (t.final <=> provider # "responses" /\ up.reasoned)
  BY DEF Terms
<1> HIDE DEF t
<1>2. UsageExact  BY <1>0, <1>1 DEF UsageExact, Says
<1>3. ReasonKept
  BY <1>0, <1>1 DEF ReasonKept, ReasonDue, Says, Tells, Due
<1>4. ASSUME ended, provider # "anthropic" \/ up.reasoned
      PROVE  /\ life.ended => life.error \/ Lifecycle!AllClosed(life)
             /\ streamed /\ view.begun => view.finished \/ view.errored
  <2>1. ASSUME events = <<>>, up.phase = "gone"
        PROVE  AllQuiet(g) /\ ("ResponseStart" \in g.seen => "ResponseStop" \in g.seen)
    <3>1. h = g  BY <1>0, <2>1, LeadsDone
    <3> QED  BY <1>0, <1>4, <2>1, <3>1 DEF Through
  <2>2. ASSUME life.ended PROVE Lifecycle!AllClosed(life)
    <3>1. AllQuiet(g)  BY <1>0, <2>1, <2>2
    <3>2. \A i \in BlockIndices : BlockKind(g.stage[i]) \notin ContentBlockKind
      BY <3>1 DEF AllQuiet, BlockKind, ContentBlockKind
    <3>3. life.open = {}
      <4>1. ASSUME NEW b \in life.open PROVE FALSE
        <5>1. PICK i \in BlockIndices, k \in ContentBlockKind : b = <<i, k>>  BY <1>0 DEF Of
        <5>2. BlockKind(g.stage[i]) = k  BY <1>0, <5>1 DEF Of
        <5> QED  BY <3>2, <5>2
      <4> QED  BY <4>1
    <3> QED  BY <3>3 DEF Lifecycle!AllClosed
  <2>3. ASSUME streamed, view.begun PROVE view.finished
    <3>1. w = view  BY <1>0, <1>4, PlaysDone
    <3>2. FrontHolds(frontend, TRUE, g, encoder, w)  BY <1>0, <2>3
    <3>3. CASE encoder.done  BY <1>0, <3>1, <3>2, <3>3, FrontOpen
    <3>4. CASE ~encoder.done
      <4>1. "ResponseStart" \in g.seen => "ResponseStop" \in g.seen  BY <1>0, <1>4, <2>1, <3>4
      <4>2. "ResponseStop" \notin g.seen /\ (w.begun <=> "ResponseStart" \in g.seen)
        BY <1>0, <3>2, <3>4, FrontOpen
      <4> QED  BY <2>3, <3>1, <4>1, <4>2
    <3> QED  BY <3>3, <3>4
  <2> QED  BY <2>2, <2>3
<1>5. DrainTail  BY <1>4 DEF DrainTail
<1> QED  BY <1>2, <1>3, <1>5

LEMMA NothingYet ==
    /\ Sound(NoAccount) /\ AllQuiet(NoAccount) /\ Of(Lifecycle!Fresh, NoAccount)
    /\ ViewShape(Client!Blank)
<1>1. NoAccount \in Account
  BY DEF NoAccount, Account, Stages, OneOf
<1>2. AllQuiet(NoAccount)  BY DEF AllQuiet, NoAccount
<1>3. Sound(NoAccount)  BY <1>1, <1>2 DEF Sound, NoAccount
<1>4. LifeShape(Lifecycle!Fresh)  BY DEF LifeShape, Lifecycle!Fresh
<1>5. \A i \in BlockIndices : NoAccount.stage[i] = "new" /\ BlockKind("new") \notin ContentBlockKind
  BY DEF NoAccount, BlockKind, ContentBlockKind
<1>6. Of(Lifecycle!Fresh, NoAccount)
  <2> DEFINE l == Lifecycle!Fresh
  <2>1. l.seen = {} /\ l.open = {} /\ l.closed = {} /\ l.tool_stopped = {} /\ NoAccount.seen = {}
    BY DEF Lifecycle!Fresh, NoAccount
  <2> HIDE DEF l
  <2>2. Of(l, NoAccount)  BY <1>4, <1>5, <2>1 DEF Of, l
  <2> QED  BY <2>2 DEF l
<1>7. ViewShape(Client!Blank)  BY DEF ViewShape, Client!Blank
<1> QED  BY <1>2, <1>3, <1>6, <1>7

LEMMA InitHolds ==
    ASSUME Init
    PROVE  Holds(provider, frontend, streamed, up, events, encoder, frames, life, view, ended,
                 NoAccount, NoAccount, Client!Blank)
<1> DEFINE t == Terms(provider, up)
           b == Client!Blank
<1>0. /\ frontend \in {"anthropic", "chat", "responses"} /\ streamed \in BOOLEAN /\ ended = FALSE
      /\ events = <<>> /\ frames = <<>> /\ life = Lifecycle!Fresh /\ view = b
      /\ encoder = EncoderInit(frontend, streamed)
  BY StreamingAssumption DEF Init
<1>1. up.phase = "idle" /\ up.tokens = 0  BY DEF Init
<1>2. /\ Sound(NoAccount) /\ AllQuiet(NoAccount) /\ Of(Lifecycle!Fresh, NoAccount)
      /\ ViewShape(b) /\ NoAccount \in Account
  BY NothingYet DEF Sound
<1>3. Through(provider, NoAccount, up)  BY <1>1, <1>2 DEF Through
<1>4. Settled(NoAccount, t)  BY DEF Settled, NoAccount
<1>5. /\ b.begun = FALSE /\ b.finished = FALSE /\ b.errored = FALSE /\ b.reason = "none"
      /\ b.usage = {} /\ b.open = {} /\ b.closed = {}
  BY DEF Client!Blank
<1>6. Says(b, t, frontend)  BY <1>5 DEF Says
<1>7. ~Lifecycle!Fresh.ended  BY DEF Lifecycle!Fresh
<1>8. /\ NoAccount.seen = {} /\ NoAccount.stop = {} /\ NoAccount.spent = 0
      /\ \A i \in BlockIndices : NoAccount.stage[i] = "new"
  BY DEF NoAccount
<1> HIDE DEF b, t
<1>9. FrontHolds(frontend, streamed, NoAccount, encoder, b)
  <2>1. ASSUME streamed, frontend = "anthropic" PROVE AnthropicFront(NoAccount, encoder, b)
    <3>1. encoder = [tokens |-> 0, pending_stop |-> {}, done |-> FALSE]
      BY <1>0, <2>1 DEF EncoderInit, AnthropicEncoderInit
    <3>2. AnthropicOpen(NoAccount, encoder, b)
      BY <1>5, <1>8, <3>1 DEF AnthropicOpen, AnthropicWire
    <3> QED  BY <1>2, <3>1, <3>2 DEF AnthropicFront, AnthropicShape
  <2>2. ASSUME streamed, frontend = "chat" PROVE ChatFront(NoAccount, encoder, b)
    <3>1. encoder = [done |-> FALSE]
      BY <1>0, <2>2 DEF EncoderInit, ChatEncoderInit
    <3>2. ChatOpen(NoAccount, b)
      BY <1>5, <1>8 DEF ChatOpen
    <3> QED  BY <1>2, <3>1, <3>2 DEF ChatFront
  <2>3. ASSUME streamed, frontend = "responses" PROVE ResponsesFront(NoAccount, encoder, b)
    <3>1. encoder = [output_index |-> 0, output |-> <<>>, buffered |-> <<>>,
                     final_status |-> {}, tokens |-> 0, done |-> FALSE]
      BY <1>0, <2>3 DEF EncoderInit, ResponsesEncoderInit
    <3>2. /\ encoder.output_index = 0 /\ encoder.output = <<>> /\ encoder.buffered = <<>>
          /\ encoder.final_status = {} /\ encoder.tokens = 0 /\ encoder.done = FALSE
          /\ ResponsesShape(encoder)
      BY <3>1 DEF ResponsesShape
    <3>3. Items(NoAccount.stage, 0, <<>>, <<>>, {}, {})
      <4>1. Cardinality(Used(NoAccount.stage)) \in Nat  BY UsedBound
      <4>2. DOMAIN <<>> = {i \in BlockIndices : NoAccount.stage[i] \in ItemStages}
        BY <1>8 DEF ItemStages
      <4> QED  BY <4>1, <4>2 DEF Items
    <3>4. ResponsesOpen(NoAccount, encoder, b)
      BY <1>5, <1>8, <3>2, <3>3 DEF ResponsesOpen, OneOf
    <3> QED  BY <1>2, <3>2, <3>4 DEF ResponsesFront
  <2> QED  BY <2>1, <2>2, <2>3 DEF FrontHolds
<1>10. Leads(NoAccount, events, NoAccount, t) /\ Plays(frontend, b, frames, b, t)
  BY <1>0, LeadsNothing, PlaysNothing
<1>11. ~streamed => view = Client!Blank /\ frames = <<>>  BY <1>0 DEF b
<1>12. ended \in BOOLEAN /\ ~ended  BY <1>0
<1>13. Holds(provider, frontend, streamed, up, events, encoder, frames, life, view, ended,
             NoAccount, NoAccount, b)
  BY <1>0, <1>2, <1>3, <1>4, <1>6, <1>7, <1>9, <1>10, <1>11, <1>12 DEF Holds, t
<1> QED  BY <1>13 DEF b
-----------------------------------------------------------------------------
(* A whole body of frames at once.                                         *)
LEMMA FlattenNone ==
    ASSUME NEW s, s = <<>>
    PROVE  FlattenSeq(s) = <<>>
<1>1. Len(s) = 0  OBVIOUS
<1> QED  BY <1>1, Zenon DEF FlattenSeq

(* One event; one queue after another.                                     *)
LEMMA LeadsOne ==
    ASSUME NEW h, NEW e, NEW t, Regular(h, e, t)
    PROVE  Leads(h, <<e>>, Book(h, e), t)
<1>1. Leads(h, <<>> \o <<e>>, Book(h, e), t)  BY LeadsNothing, LeadsOn
<1>2. <<>> \o <<e>> = <<e>>  OBVIOUS
<1> QED  BY <1>1, <1>2

LEMMA LeadsJoin ==
    ASSUME NEW g, NEW q, NEW h, NEW r, NEW k, NEW t, Leads(g, q, h, t), Leads(h, r, k, t)
    PROVE  Leads(g, Cat(q, r), k, t)
<1>1. q \in Seq(CanonicalEvent) /\ r \in Seq(CanonicalEvent)  BY DEF Leads
<1>2. PICK a : /\ a[0] = g /\ a[Len(q)] = h
               /\ \A i \in 1 .. Len(q) :
                     Regular(a[i - 1], q[i], t) /\ a[i] = Book(a[i - 1], q[i])
  BY DEF Leads
<1>3. PICK b : /\ b[0] = h /\ b[Len(r)] = k
               /\ \A i \in 1 .. Len(r) :
                     Regular(b[i - 1], r[i], t) /\ b[i] = Book(b[i - 1], r[i])
  BY DEF Leads
<1> DEFINE s == q \o r
           m == Len(q)
           p == [i \in 0 .. Len(s) |-> IF i <= m THEN a[i] ELSE b[i - m]]
<1>4. /\ m \in Nat /\ Len(r) \in Nat /\ Len(s) = m + Len(r) /\ s \in Seq(CanonicalEvent)
      /\ \A i \in 1 .. m : s[i] = q[i]
      /\ \A i \in (m + 1) .. Len(s) : s[i] = r[i - m]
  BY <1>1
<1>9. m = Len(q)  OBVIOUS
<1> HIDE DEF s, m
<1>5. p[0] = g /\ p[Len(s)] = k
  <2>1. p[0] = g  BY <1>2, <1>4
  <2>2. CASE Len(r) = 0
    <3>1. Len(s) = m /\ b[0] = k  BY <1>3, <1>4, <2>2
    <3> QED  BY <1>2, <1>3, <1>4, <1>9, <3>1
  <2>3. CASE Len(r) # 0
    <3>1. p[Len(s)] = b[Len(s) - m] /\ Len(s) - m = Len(r)  BY <1>4, <2>3
    <3> QED  BY <1>3, <2>1, <3>1
  <2> QED  BY <2>1, <2>2, <2>3
<1>6. ASSUME NEW i \in 1 .. Len(s)
      PROVE  Regular(p[i - 1], s[i], t) /\ p[i] = Book(p[i - 1], s[i])
  <2>1. CASE i <= m
    <3>1. i \in 1 .. Len(q) /\ p[i - 1] = a[i - 1] /\ p[i] = a[i] /\ s[i] = q[i]
      BY <1>4, <1>6, <1>9, <2>1
    <3> QED  BY <1>2, <3>1
  <2>2. CASE i = m + 1
    <3>0. /\ i - m = 1 /\ i - 1 = m /\ i - 1 \in 0 .. Len(s) /\ i \in 0 .. Len(s) /\ ~(i <= m)
          /\ i \in (m + 1) .. Len(s) /\ 1 \in 1 .. Len(r) /\ 1 - 1 = 0 /\ m <= m
      BY <1>4, <1>6, <2>2
    <3>4. p[i - 1] = a[i - 1] /\ p[i] = b[i - m] /\ s[i] = r[i - m]  BY <1>4, <3>0
    <3> HIDE DEF p
    <3>1. 1 \in 1 .. Len(r) /\ p[i - 1] = a[m] /\ p[i] = b[1] /\ s[i] = r[1] /\ 1 - 1 = 0
      BY <3>0, <3>4
    <3>2. a[m] = b[0]  BY <1>2, <1>3, <1>9
    <3>3. Regular(b[1 - 1], r[1], t) /\ b[1] = Book(b[1 - 1], r[1])  BY <1>3, <3>1
    <3> QED  BY <3>1, <3>2, <3>3
  <2>3. CASE i > m + 1
    <3>0. /\ (i - 1) - m = (i - m) - 1 /\ i - 1 \in 0 .. Len(s) /\ i \in 0 .. Len(s)
          /\ ~(i <= m) /\ ~(i - 1 <= m) /\ i \in (m + 1) .. Len(s) /\ i - m \in 1 .. Len(r)
      BY <1>4, <1>6, <2>3
    <3>2. p[i - 1] = b[(i - 1) - m] /\ p[i] = b[i - m] /\ s[i] = r[i - m]  BY <1>4, <3>0
    <3> HIDE DEF p
    <3>1. /\ i - m \in 1 .. Len(r) /\ p[i - 1] = b[(i - m) - 1] /\ p[i] = b[i - m]
          /\ s[i] = r[i - m]
      BY <3>0, <3>2
    <3> QED  BY <1>3, <3>1
  <2> QED  BY <1>4, <1>6, <2>1, <2>2, <2>3
<1> HIDE DEF p
<1>7. Leads(g, s, k, t)  BY <1>4, <1>5, <1>6 DEF Leads
<1> QED  BY <1>7 DEF s, Cat

(* The parts of s one after the other: K[n] are the accounts possible      *)
(* after n of them.                                                        *)
LEMMA FlattenPath ==
    ASSUME NEW t, NEW s \in Seq(Seq(CanonicalEvent)), NEW K, NEW h \in K[0],
           \A n \in 1 .. Len(s) : \A x \in K[n - 1] : \E k \in K[n] : Leads(x, s[n], k, t)
    PROVE  \E k \in K[Len(s)] : Leads(h, FlattenSeq(s), k, t)
<1>0. CASE Len(s) = 0
  <2>1. FlattenSeq(s) = <<>>  BY <1>0, FlattenNone
  <2> QED  BY <1>0, <2>1, LeadsNothing
<1> SUFFICES ASSUME Len(s) # 0 PROVE \E k \in K[Len(s)] : Leads(h, FlattenSeq(s), k, t)
  BY <1>0
<1>9. Len(s) \in Nat  OBVIOUS
<1>1. PICK f : /\ \A i \in 1 .. Len(s) : f[i] = IF i = 1 THEN s[i] ELSE Cat(f[i - 1], s[i])
               /\ FlattenSeq(s) = f[Len(s)]
  BY <1>9, FlattenSteps
<1> DEFINE Got(n) == \E k \in K[n] : Leads(h, f[n], k, t)
           Bad == {n \in 1 .. Len(s) : ~Got(n)}
<1>2. Bad = {}
  <2> SUFFICES ASSUME Bad # {} PROVE FALSE  OBVIOUS
  <2>0. Bad \subseteq Nat  OBVIOUS
  <2> HIDE DEF Bad
  <2>1. PICK n \in Bad : \A m \in Bad : n <= m  BY <2>0, LeastNumber
  <2>2. n \in 1 .. Len(s) /\ ~Got(n)  BY <2>1 DEF Bad
  <2>3. CASE n = 1
    <3>1. f[n] = s[n]  BY <1>1, <2>2, <2>3
    <3>2. 1 - 1 = 0 /\ 1 \in 1 .. Len(s)  BY <2>2, <2>3
    <3>3. h \in K[1 - 1]  BY <3>2
    <3>4. \E k \in K[1] : Leads(h, s[1], k, t)  BY <3>2, <3>3
    <3> QED  BY <2>2, <2>3, <3>1, <3>4
  <2>4. CASE n # 1
    <3>1. n - 1 \in 1 .. Len(s) /\ ~(n - 1 \in Bad) /\ f[n] = Cat(f[n - 1], s[n])
      BY <1>1, <1>9, <2>1, <2>2, <2>4
    <3>2. Got(n - 1)  BY <3>1 DEF Bad
    <3>3. PICK x \in K[n - 1] : Leads(h, f[n - 1], x, t)  BY <3>2
    <3>4. PICK k \in K[n] : Leads(x, s[n], k, t)  BY <2>2, <3>3
    <3>5. Leads(h, f[n], k, t)  BY <3>1, <3>3, <3>4, LeadsJoin
    <3> QED  BY <2>2, <3>5
  <2> QED  BY <2>3, <2>4
<1>3. Got(Len(s))
  <2>1. Len(s) \in 1 .. Len(s)  BY <1>9
  <2>2. Len(s) \notin Bad  BY <1>2
  <2> HIDE DEF Got
  <2> QED  BY <2>1, <2>2 DEF Bad
<1> QED  BY <1>1, <1>3

(* What is left of a sequence is no longer.                                *)
LEMMA FlattenShort ==
    ASSUME NEW S, NEW s, Len(s) \in Nat, Len(s) # 0,
           \A n \in 1 .. Len(s) : s[n] = <<>> \/ \E x \in S : s[n] = <<x>>
    PROVE  FlattenSeq(s) \in Seq(S) /\ Len(FlattenSeq(s)) <= Len(s)
<1>1. PICK f : /\ \A i \in 1 .. Len(s) : f[i] = IF i = 1 THEN s[i] ELSE Cat(f[i - 1], s[i])
               /\ FlattenSeq(s) = f[Len(s)]
  BY FlattenSteps
<1> DEFINE Got(n) == f[n] \in Seq(S) /\ Len(f[n]) <= n
           Bad == {n \in 1 .. Len(s) : ~Got(n)}
<1>2. Bad = {}
  <2> SUFFICES ASSUME Bad # {} PROVE FALSE  OBVIOUS
  <2>0. Bad \subseteq Nat  OBVIOUS
  <2> HIDE DEF Bad
  <2>1. PICK n \in Bad : \A m \in Bad : n <= m  BY <2>0, LeastNumber
  <2>2. n \in 1 .. Len(s) /\ ~Got(n)  BY <2>1 DEF Bad
  <2>3. s[n] \in Seq(S) /\ Len(s[n]) <= 1
    <3>1. CASE s[n] = <<>>  BY <3>1
    <3>2. ASSUME NEW x \in S, s[n] = <<x>> PROVE s[n] \in Seq(S) /\ Len(s[n]) <= 1
      <4>1. <<x>> \in Seq(S) /\ Len(<<x>>) = 1  OBVIOUS
      <4> QED  BY <3>2, <4>1
    <3> QED  BY <2>2, <3>1, <3>2
  <2>4. CASE n = 1
    <3>1. f[n] = s[n]  BY <1>1, <2>2, <2>4
    <3> QED  BY <2>2, <2>3, <2>4, <3>1
  <2>5. CASE n # 1
    <3>1. n - 1 \in 1 .. Len(s) /\ ~(n - 1 \in Bad) /\ f[n] = Cat(f[n - 1], s[n])
      BY <1>1, <2>1, <2>2, <2>5
    <3>2. f[n - 1] \in Seq(S) /\ Len(f[n - 1]) <= n - 1  BY <3>1 DEF Bad
    <3> DEFINE a == f[n - 1]
               b == s[n]
    <3>3. a \in Seq(S) /\ b \in Seq(S) /\ Len(a) <= n - 1 /\ Len(b) <= 1 /\ f[n] = a \o b
      BY <2>3, <3>1, <3>2 DEF Cat
    <3> HIDE DEF a, b
    <3>4. a \o b \in Seq(S) /\ Len(a \o b) = Len(a) + Len(b)  BY <3>3
    <3>5. Len(a) \in Nat /\ Len(b) \in Nat  BY <3>3
    <3> QED  BY <2>2, <3>3, <3>4, <3>5
  <2> QED  BY <2>4, <2>5
<1>3. Got(Len(s))  BY <1>2
<1> QED  BY <1>1, <1>3

LEMMA OneMove ==
    ASSUME NEW h, NEW e, NEW k, NEW t, Moves(h, <<>>, e, k, t)
    PROVE  Leads(h, <<e>>, k, t)
<1>1. <<>> \o <<e>> = <<e>>  OBVIOUS
<1> QED  BY <1>1 DEF Moves
-----------------------------------------------------------------------------
(* A unary answer.                                                         *)
LEMMA StageOpened ==
    ASSUME NEW h, InMessage(h), NEW i \in BlockIndices, NEW x \in Stages
    PROVE  Opened(h, i, x, WithStage(h, i, x))
<1>1. WithStage(h, i, x) \in Account  BY MoveTypes DEF InMessage
<1> QED  BY <1>1 DEF Opened, InMessage, WithStage, Account

LEMMA OpenedTwice ==
    ASSUME NEW h, NEW k, NEW m, NEW i, NEW x, NEW y, Opened(h, i, x, k), Opened(k, i, y, m)
    PROVE  Opened(h, i, y, m)
BY DEF Opened

LEMMA OpensBlock ==
    ASSUME NEW h, InMessage(h), NEW i \in BlockIndices, h.stage[i] = "new", NEW t,
           NEW x \in ContentBlockKind
    PROVE  \E k : /\ Leads(h, <<ContentBlockStart(i, x)>>, k, t)
                  /\ Opened(h, i, IF x = "ToolCall" THEN "raw" ELSE x, k)
<1> DEFINE y == IF x = "ToolCall" THEN "raw" ELSE x
           k == WithStage(h, i, y)
<1>1. y \in Stages  BY DEF Stages
<1>2. Opened(h, i, y, k)  BY <1>1, StageOpened
<1>3. Moves(h, <<>>, ContentBlockStart(i, x), k, t)
  BY LeadsNothing, MoveBlockStart DEF InMessage
<1> HIDE DEF k
<1>4. Leads(h, <<ContentBlockStart(i, x)>>, k, t)  BY <1>3, OneMove
<1> QED  BY <1>2, <1>4

LEMMA ClosesBlock ==
    ASSUME NEW h, InMessage(h), NEW i \in BlockIndices, NEW t,
           h.stage[i] \in {"Text", "Reasoning", "RedactedReasoning", "halted"}
    PROVE  \E k : Leads(h, <<ContentBlockStop(i)>>, k, t) /\ Opened(h, i, "closed", k)
<1> DEFINE k == WithStage(h, i, "closed")
<1>1. Opened(h, i, "closed", k)  BY StageOpened DEF Stages
<1>2. Moves(h, <<>>, ContentBlockStop(i), k, t)  BY LeadsNothing, MoveStage DEF InMessage
<1> HIDE DEF k
<1>3. Leads(h, <<ContentBlockStop(i)>>, k, t)  BY <1>2, OneMove
<1> QED  BY <1>1, <1>3

LEMMA NamesCall ==
    ASSUME NEW h, InMessage(h), NEW i \in BlockIndices, NEW t, h.stage[i] = "raw"
    PROVE  \E k : Leads(h, <<BlockEvent("ToolCallStart", i)>>, k, t) /\ Opened(h, i, "named", k)
<1> DEFINE k == WithStage(h, i, "named")
<1>1. Opened(h, i, "named", k)  BY StageOpened DEF Stages
<1>2. Moves(h, <<>>, BlockEvent("ToolCallStart", i), k, t)  BY LeadsNothing, MoveStage DEF InMessage
<1> HIDE DEF k
<1>3. Leads(h, <<BlockEvent("ToolCallStart", i)>>, k, t)  BY <1>2, OneMove
<1> QED  BY <1>1, <1>3

LEMMA ClosesTool ==
    ASSUME NEW h, InMessage(h), NEW i \in BlockIndices, NEW t, h.stage[i] = "named"
    PROVE  \E k : Leads(h, CloseTool(i), k, t) /\ Opened(h, i, "closed", k)
<1> DEFINE k == WithStage(h, i, "closed")
<1>1. Opened(h, i, "closed", k)  BY StageOpened DEF Stages
<1>2. Leads(h, <<>> \o CloseTool(i), k, t)  BY LeadsNothing, MoveCloseTool DEF InMessage
<1>3. <<>> \o CloseTool(i) = CloseTool(i)  BY ToolEventTypes
<1> HIDE DEF k
<1> QED  BY <1>1, <1>2, <1>3

LEMMA HasDelta ==
    ASSUME NEW h, InMessage(h), NEW i \in BlockIndices, NEW t
    PROVE  /\ h.stage[i] = "Text" => Leads(h, <<BlockEvent("TextDelta", i)>>, h, t)
           /\ h.stage[i] = "Reasoning" => Leads(h, <<BlockEvent("ReasoningDelta", i)>>, h, t)
           /\ h.stage[i] = "named" => Leads(h, <<BlockEvent("ToolCallArgumentsDelta", i)>>, h, t)
<1>1. ASSUME h.stage[i] = "Text" PROVE Leads(h, <<BlockEvent("TextDelta", i)>>, h, t)
  <2>1. Moves(h, <<>>, BlockEvent("TextDelta", i), h, t)
    BY <1>1, LeadsNothing, MoveDelta DEF InMessage
  <2> QED  BY <2>1, OneMove
<1>2. ASSUME h.stage[i] = "Reasoning" PROVE Leads(h, <<BlockEvent("ReasoningDelta", i)>>, h, t)
  <2>1. Moves(h, <<>>, BlockEvent("ReasoningDelta", i), h, t)
    BY <1>2, LeadsNothing, MoveDelta DEF InMessage
  <2> QED  BY <2>1, OneMove
<1>3. ASSUME h.stage[i] = "named"
      PROVE  Leads(h, <<BlockEvent("ToolCallArgumentsDelta", i)>>, h, t)
  <2>1. Moves(h, <<>>, BlockEvent("ToolCallArgumentsDelta", i), h, t)
    BY <1>3, LeadsNothing, MoveDelta DEF InMessage
  <2> QED  BY <2>1, OneMove
<1> QED  BY <1>1, <1>2, <1>3

LEMMA WholeBlockLeads ==
    ASSUME NEW h, InMessage(h), NEW i \in BlockIndices, h.stage[i] = "new", NEW t,
           NEW x \in {"Text", "Reasoning", "RedactedReasoning"}, NEW d,
           \/ d = <<>>
           \/ x = "Text" /\ d = <<BlockEvent("TextDelta", i)>>
           \/ x = "Reasoning" /\ d = <<BlockEvent("ReasoningDelta", i)>>
    PROVE  \E k : Leads(h, WholeBlock(i, x, d), k, t) /\ Opened(h, i, "closed", k)
<1>1. PICK k : Leads(h, <<ContentBlockStart(i, x)>>, k, t) /\ Opened(h, i, x, k)
  BY OpensBlock DEF ContentBlockKind
<1>2. InMessage(k) /\ k.stage[i] = x  BY <1>1 DEF Opened
<1>3. Leads(k, d, k, t)  BY <1>2, LeadsNothing, HasDelta
<1>4. PICK m : Leads(k, <<ContentBlockStop(i)>>, m, t) /\ Opened(k, i, "closed", m)
  BY <1>2, ClosesBlock
<1>5. Leads(h, Cat(<<ContentBlockStart(i, x)>>, d), k, t)  BY <1>1, <1>3, LeadsJoin
<1>6. Leads(h, Cat(Cat(<<ContentBlockStart(i, x)>>, d), <<ContentBlockStop(i)>>), m, t)
  BY <1>4, <1>5, LeadsJoin
<1>7. WholeBlock(i, x, d) = Cat(Cat(<<ContentBlockStart(i, x)>>, d), <<ContentBlockStop(i)>>)
  BY DEF WholeBlock, Cat
<1> QED  BY <1>1, <1>4, <1>6, <1>7, OpenedTwice

LEMMA CatSingles ==
    ASSUME NEW a, NEW b, NEW c
    PROVE  Cat(<<a>>, <<b>>) = <<a, b>> /\ Cat(<<a, b>>, <<c>>) = <<a, b, c>>
<1> DEFINE S == {a, b, c}
<1>1. ASSUME NEW q \in Seq(S), NEW x \in S PROVE Cat(q, <<x>>) = Append(q, x)
  <2>1. <<x>> \in Seq(S)  OBVIOUS
  <2> QED  BY <2>1 DEF Cat
<1>2. /\ <<a>> \in Seq(S) /\ <<a, b>> \in Seq(S) /\ b \in S /\ c \in S  OBVIOUS
<1>3. <<a, b>> = Append(<<a>>, b)  BY AppendTwo
<1>4. <<a, b, c>> = Append(Append(<<a>>, b), c)  BY AppendThree
<1> HIDE DEF S
<1>5. Cat(<<a>>, <<b>>) = Append(<<a>>, b) /\ Cat(<<a, b>>, <<c>>) = Append(<<a, b>>, c)
  BY <1>1, <1>2
<1> QED  BY <1>3, <1>4, <1>5

LEMMA CallLeads ==
    ASSUME NEW h, InMessage(h), NEW i \in BlockIndices, h.stage[i] = "new", NEW t,
           NEW q, q = <<ContentBlockStart(i, "ToolCall"), BlockEvent("ToolCallStart", i),
                        BlockEvent("ToolCallArgumentsDelta", i)>>
    PROVE  \E k : Leads(h, q, k, t) /\ Opened(h, i, "named", k)
<1> DEFINE a == ContentBlockStart(i, "ToolCall")
           b == BlockEvent("ToolCallStart", i)
           c == BlockEvent("ToolCallArgumentsDelta", i)
<1>1. PICK k : Leads(h, <<a>>, k, t) /\ Opened(h, i, "raw", k)
  BY OpensBlock DEF ContentBlockKind
<1>2. PICK m : Leads(k, <<b>>, m, t) /\ Opened(k, i, "named", m)  BY <1>1, NamesCall DEF Opened
<1>3. InMessage(m) /\ m.stage[i] = "named"  BY <1>2 DEF Opened
<1>4. Leads(m, <<c>>, m, t)  BY <1>3, HasDelta
<1>7. Cat(Cat(<<a>>, <<b>>), <<c>>) = q  BY CatSingles
<1> HIDE DEF a, b, c
<1>8. Leads(h, Cat(<<a>>, <<b>>), m, t)  BY <1>1, <1>2, LeadsJoin
<1>9. Leads(h, Cat(Cat(<<a>>, <<b>>), <<c>>), m, t)  BY <1>4, <1>8, LeadsJoin
<1>11. Opened(h, i, "named", m)  BY <1>1, <1>2, OpenedTwice
<1> QED  BY <1>7, <1>9, <1>11

LEMMA WholeCallLeads ==
    ASSUME NEW h, InMessage(h), NEW i \in BlockIndices, h.stage[i] = "new", NEW t
    PROVE  \E k : Leads(h, WholeCall(i), k, t) /\ Opened(h, i, "closed", k)
<1> DEFINE q == <<ContentBlockStart(i, "ToolCall"), BlockEvent("ToolCallStart", i),
                  BlockEvent("ToolCallArgumentsDelta", i)>>
<1>1. PICK m : Leads(h, q, m, t) /\ Opened(h, i, "named", m)  BY CallLeads
<1>2. PICK k : Leads(m, CloseTool(i), k, t) /\ Opened(m, i, "closed", k)
  BY <1>1, ClosesTool DEF Opened
<1>3. WholeCall(i) = Cat(q, CloseTool(i))  BY DEF WholeCall, Cat
<1> HIDE DEF q
<1> QED  BY <1>1, <1>2, <1>3, LeadsJoin, OpenedTwice

LEMMA BlockLeads ==
    ASSUME NEW h, InMessage(h), NEW i \in BlockIndices, h.stage[i] = "new", NEW t,
           NEW b \in Parts
    PROVE  \E k : Leads(h, BlockEvents(i, b), k, t) /\ \E x \in {"new", "closed"} : Opened(h, i, x, k)
<1>1. CASE b \in {"text", "empty", "thought", "redacted"}
  <2>1. \E x, d :
           /\ x \in {"Text", "Reasoning", "RedactedReasoning"}
           /\ BlockEvents(i, b) = WholeBlock(i, x, d)
           /\ \/ d = <<>>
              \/ x = "Text" /\ d = <<BlockEvent("TextDelta", i)>>
              \/ x = "Reasoning" /\ d = <<BlockEvent("ReasoningDelta", i)>>
    <3>1. CASE b = "text"  BY <3>1 DEF BlockEvents
    <3>2. CASE b = "empty"  BY <3>2 DEF BlockEvents
    <3>3. CASE b = "thought"  BY <3>3 DEF BlockEvents
    <3>4. CASE b = "redacted"  BY <3>4 DEF BlockEvents
    <3> QED  BY <1>1, <3>1, <3>2, <3>3, <3>4
  <2>2. PICK x, d :
           /\ x \in {"Text", "Reasoning", "RedactedReasoning"}
           /\ BlockEvents(i, b) = WholeBlock(i, x, d)
           /\ \/ d = <<>>
              \/ x = "Text" /\ d = <<BlockEvent("TextDelta", i)>>
              \/ x = "Reasoning" /\ d = <<BlockEvent("ReasoningDelta", i)>>
    BY <2>1
  <2>3. \E k : Leads(h, WholeBlock(i, x, d), k, t) /\ Opened(h, i, "closed", k)
    BY <2>2, WholeBlockLeads
  <2> QED  BY <2>2, <2>3
<1>2. CASE b = "call"
  <2>1. BlockEvents(i, b) = WholeCall(i)  BY <1>2 DEF BlockEvents
  <2> QED  BY <2>1, WholeCallLeads
<1>3. CASE b = "media"
  <2>1. BlockEvents(i, b) = <<>>  BY <1>3 DEF BlockEvents
  <2>2. Opened(h, i, "new", h)  BY DEF Opened
  <2> QED  BY <2>1, <2>2, LeadsNothing
<1> QED  BY <1>1, <1>2, <1>3 DEF Parts

LEMMA FreshNext ==
    ASSUME NEW h, NEW n \in BlockIndices, Fresh(h, n), NEW x \in {"new", "closed"}, NEW k,
           Opened(h, n, x, k)
    PROVE  Fresh(k, n + 1) /\ Alike(h, k)
<1>1. \A j \in BlockIndices : k.stage[j] \in {"new", "closed"}  BY DEF Opened, Fresh, AllQuiet
<1>2. \A j \in BlockIndices : j >= n + 1 => k.stage[j] = "new"
  BY DEF Opened, Fresh, BlockIndices
<1> QED  BY <1>1, <1>2 DEF Opened, Fresh, Alike, AllQuiet

LEMMA NumberedLeads ==
    ASSUME NEW b \in Seq(Parts), Len(b) <= 3, NEW h, Fresh(h, 0), NEW t
    PROVE  \E k : Leads(h, Numbered(b), k, t) /\ Fresh(k, 3) /\ Alike(h, k)
<1> DEFINE s == [n \in DOMAIN b |-> BlockEvents(n - 1, b[n])]
           K == [n \in 0 .. 3 |-> {k \in Account : Fresh(k, n) /\ Alike(h, k)}]
<1>0. Len(b) \in 0 .. 3 /\ DOMAIN b = 1 .. Len(b) /\ (\A n \in DOMAIN b : b[n] \in Parts)
  <2>1. Len(b) \in Nat /\ DOMAIN b = 1 .. Len(b)  OBVIOUS
  <2>2. \A n \in 1 .. Len(b) : b[n] \in Parts  OBVIOUS
  <2> QED  BY <2>1, <2>2
<1>1. \A n \in 1 .. Len(b) : n - 1 \in BlockIndices /\ (n - 1) + 1 = n /\ n - 1 \in 0 .. 3 /\ n \in 0 .. 3
  <2>1. ASSUME NEW n \in 1 .. Len(b)
        PROVE  n - 1 \in BlockIndices /\ (n - 1) + 1 = n /\ n - 1 \in 0 .. 3 /\ n \in 0 .. 3
    <3>1. n = 1 \/ n = 2 \/ n = 3  BY <1>0
    <3> QED  BY <3>1, SmallIndices
  <2> QED  BY <2>1
<1>2. \A n \in 1 .. Len(b) : s[n] = BlockEvents(n - 1, b[n])  BY <1>0
<1>3. ASSUME NEW n \in 1 .. Len(b), NEW x, Fresh(x, n - 1)
      PROVE  \E k : Leads(x, s[n], k, t) /\ Fresh(k, n) /\ Alike(x, k)
  <2> DEFINE i == n - 1
  <2>1. /\ i \in BlockIndices /\ i + 1 = n /\ Fresh(x, i) /\ b[n] \in Parts
        /\ s[n] = BlockEvents(i, b[n])
    BY <1>0, <1>1, <1>2, <1>3
  <2> HIDE DEF i, s
  <2>2. InMessage(x) /\ x.stage[i] = "new"  BY <2>1 DEF Fresh, BlockIndices
  <2>3. PICK k : /\ Leads(x, BlockEvents(i, b[n]), k, t)
                 /\ \E y \in {"new", "closed"} : Opened(x, i, y, k)
    BY <2>1, <2>2, BlockLeads
  <2>4. Fresh(k, i + 1) /\ Alike(x, k)  BY <2>1, <2>3, FreshNext
  <2> QED  BY <2>1, <2>3, <2>4
<1>4. s \in Seq(Seq(CanonicalEvent)) /\ Len(s) = Len(b)
  <2>1. ASSUME NEW n \in 1 .. Len(b) PROVE s[n] \in Seq(CanonicalEvent)
    <3>1. Fresh(h, n - 1)
      BY <1>1, <2>1 DEF Fresh, BlockIndices
    <3> HIDE DEF s
    <3> QED  BY <1>3, <3>1 DEF Leads
  <2>2. DOMAIN s = 1 .. Len(b)  BY <1>0
  <2>3. s = [n \in 1 .. Len(b) |-> s[n]]  BY <1>0
  <2> HIDE DEF s
  <2>4. s \in [1 .. Len(b) -> Seq(CanonicalEvent)]  BY <2>1, <2>3
  <2> QED  BY <1>0, <2>4
<1>5. h \in K[0]
  BY DEF Fresh, InMessage, Alike
<1>6. \A n \in 0 .. 3 : K[n] = {k \in Account : Fresh(k, n) /\ Alike(h, k)}  OBVIOUS
<1> HIDE DEF K, s
<1>7. ASSUME NEW n \in 1 .. Len(s), NEW x \in K[n - 1]
      PROVE  \E k \in K[n] : Leads(x, s[n], k, t)
  <2>1. n \in 1 .. Len(b) /\ n - 1 \in 0 .. 3 /\ n \in 0 .. 3  BY <1>1, <1>4
  <2>2. Fresh(x, n - 1) /\ Alike(h, x)  BY <1>6, <2>1
  <2>3. PICK k : Leads(x, s[n], k, t) /\ Fresh(k, n) /\ Alike(x, k)  BY <1>3, <2>1, <2>2
  <2>4. k \in K[n]  BY <1>6, <2>1, <2>2, <2>3 DEF Fresh, InMessage, Alike
  <2> QED  BY <2>3, <2>4
<1>8. PICK k \in K[Len(s)] : Leads(h, FlattenSeq(s), k, t)  BY <1>4, <1>5, <1>7, FlattenPath
<1>9. Numbered(b) = FlattenSeq(s)  BY DEF Numbered, s
<1>10. Fresh(k, Len(b)) /\ Alike(h, k)  BY <1>0, <1>4, <1>6, <1>8
<1>11. Fresh(k, 3)  BY <1>0, <1>10 DEF Fresh, BlockIndices
<1> QED  BY <1>8, <1>9, <1>10, <1>11

(* The envelope of a response, opened and closed.                          *)
LEMMA OpensResponse ==
    ASSUME NEW h \in Account, h.seen = {}, NEW t
    PROVE  \E k \in Account : /\ Leads(h, <<ResponseStart, MessageStart>>, k, t)
                              /\ k.seen = {"ResponseStart", "MessageStart"} /\ k.stage = h.stage
                              /\ k.stop = h.stop /\ k.spent = h.spent
<1> DEFINE g == WithSeen(h, "ResponseStart")
           k == WithSeen(g, "MessageStart")
<1>1. g \in Account /\ g.seen = {"ResponseStart"} /\ g.stage = h.stage /\ g.stop = h.stop
      /\ g.spent = h.spent
  BY MoveTypes DEF WithSeen, Envelopes
<1>2. Leads(h, <<ResponseStart>>, g, t)  BY LeadsNothing, MoveResponseStart, OneMove
<1> HIDE DEF g
<1>3. k \in Account /\ k.seen = {"ResponseStart", "MessageStart"} /\ k.stage = h.stage
      /\ k.stop = h.stop /\ k.spent = h.spent
  BY <1>1, MoveTypes DEF WithSeen, Envelopes
<1>4. Leads(g, <<MessageStart>>, k, t)  BY <1>1, LeadsNothing, MoveMessageStart, OneMove
<1> HIDE DEF k
<1>5. Cat(<<ResponseStart>>, <<MessageStart>>) = <<ResponseStart, MessageStart>>  BY CatSingles
<1>6. Leads(h, Cat(<<ResponseStart>>, <<MessageStart>>), k, t)  BY <1>2, <1>4, LeadsJoin
<1> QED  BY <1>3, <1>5, <1>6

LEMMA EndsResponse ==
    ASSUME NEW h \in Account, AllQuiet(h), "ResponseStart" \in h.seen, "MessageStop" \notin h.seen,
           "ResponseStop" \notin h.seen, NEW t, NEW r \in StopReason, Honest(r, t),
           NEW u \in OneOf(Nat), Sums(h, u, t), NEW q, q = <<MessageStop(r), ResponseStop(u)>>
    PROVE  \E k : Leads(h, q, k, t) /\ EndedFrom(h, r, k)
<1> DEFINE m == MessageStop(r)
           e == ResponseStop(u)
           g == WithStop(h, r)
           k == WithSeen(g, "ResponseStop")
<1>1. /\ g \in Account /\ AllQuiet(g) /\ g.spent = h.spent /\ g.stage = h.stage /\ g.stop = {r}
      /\ g.seen = h.seen \cup {"MessageStop"}
  BY MoveTypes DEF WithStop, AllQuiet
<1>2. Moves(h, <<>>, m, g, t)  BY LeadsNothing, MoveMessageStop
<1>3. Leads(h, <<m>>, g, t)  BY <1>2, OneMove
<1> HIDE DEF g
<1>4. EndedFrom(h, r, k)
  BY <1>1, MoveTypes DEF WithSeen, AllQuiet, Ended, Envelopes, EndedFrom
<1>5. Moves(g, <<>>, e, k, t)  BY <1>1, LeadsNothing, MoveResponseStop DEF Sums
<1>6. Leads(g, <<e>>, k, t)  BY <1>5, OneMove
<1> HIDE DEF k, m, e
<1>7. Cat(<<m>>, <<e>>) = <<m, e>>  BY CatSingles
<1>8. Leads(h, Cat(<<m>>, <<e>>), k, t)  BY <1>3, <1>6, LeadsJoin
<1>9. Leads(h, <<m, e>>, k, t)  BY <1>7, <1>8
<1> QED  BY <1>4, <1>9 DEF m, e

LEMMA EnvelopeLeads ==
    ASSUME NEW b \in Seq(Parts), Len(b) <= 3, NEW body, body.stop \in StopReason,
           body.usage \in OneOf(Nat), NEW before, before = <<>> \/ before = UsageSeq(body.usage),
           NEW t, t.tokens = Counted(body.usage), ~t.final
    PROVE  \E k : Leads(NoAccount, Envelope(Numbered(b), before, body), k, t) /\ Ended(k)
<1> DEFINE u == body.usage
           m == MessageStop(body.stop)
           e == ResponseStop(body.usage)
<1>0. NoAccount \in Account /\ NoAccount.seen = {} /\ NoAccount.spent = 0
      /\ \A i \in BlockIndices : NoAccount.stage[i] = "new"
  BY NothingYet DEF Sound, NoAccount
<1>5. PICK g2 \in Account : /\ Leads(NoAccount, <<ResponseStart, MessageStart>>, g2, t)
                            /\ g2.seen = {"ResponseStart", "MessageStart"}
                            /\ g2.stage = NoAccount.stage /\ g2.spent = 0
  BY <1>0, OpensResponse
<1>3. \A i \in BlockIndices : g2.stage[i] = "new"  BY <1>0, <1>5
<1> DEFINE q2 == <<ResponseStart, MessageStart>>
<1> HIDE DEF q2
<1>6. PICK g3 \in Account : /\ Leads(NoAccount, Cat(q2, before), g3, t)
                            /\ g3.spent \in Nat /\ (u = {} => g3.spent = 0)
                            /\ g3.seen = g2.seen /\ g3.stage = g2.stage
  <2>1. Leads(NoAccount, q2, g2, t)  BY <1>5 DEF q2
  <2>2. CASE before = <<>>
    <3>1. Cat(q2, before) = q2  BY <2>1, <2>2 DEF Cat, Leads
    <3> QED  BY <1>3, <1>5, <2>1, <3>1
  <2>3. CASE before = UsageSeq(u)
    <3>1. UsageTo(NoAccount, Cat(q2, before), g2, t, u)  BY <1>3, <1>5, <2>1, <2>3, MoveUsageOption
    <3>2. PICK k \in Account : /\ Leads(NoAccount, Cat(q2, before), k, t)
                               /\ k.spent = Plus(g2.spent, u)
                               /\ k.seen = g2.seen /\ k.stage = g2.stage
      BY <3>1 DEF UsageTo
    <3>3. k.spent \in Nat  BY <3>2 DEF Account
    <3>4. u = {} => k.spent = 0  BY <1>3, <1>5, <3>2 DEF Plus
    <3> QED  BY <3>2, <3>3, <3>4
  <2> QED  BY <2>2, <2>3
<1>7. Fresh(g3, 0)  BY <1>3, <1>5, <1>6 DEF Fresh, InMessage, AllQuiet
<1>8. PICK g4 : Leads(g3, Numbered(b), g4, t) /\ Fresh(g4, 3) /\ Alike(g3, g4)
  BY <1>7, NumberedLeads
<1>9. /\ g4 \in Account /\ AllQuiet(g4) /\ g4.seen = {"ResponseStart", "MessageStart"}
      /\ (u = {} => g4.spent = 0)
  BY <1>3, <1>5, <1>6, <1>8 DEF Fresh, InMessage, Alike
<1>11. Sums(g4, u, t)
  <2>2. u = {} => g4.spent = t.tokens  BY <1>9 DEF Counted
  <2>1. ASSUME NEW n \in Nat, u = {n} PROVE u = {t.tokens}
    <3>1. (CHOOSE x \in {n} : TRUE) = n  OBVIOUS
    <3> QED  BY <2>1, <3>1 DEF Counted
  <2> QED  BY <2>1, <2>2 DEF OneOf, Sums
<1>16. PICK g6 : Leads(g4, <<m, e>>, g6, t) /\ Ended(g6)
  BY <1>9, <1>11, EndsResponse DEF Honest, EndedFrom
<1> HIDE DEF m, e
<1>17. Leads(NoAccount, Cat(Cat(q2, before), Numbered(b)), g4, t)  BY <1>6, <1>8, LeadsJoin
<1>18. Leads(NoAccount, Cat(Cat(Cat(q2, before), Numbered(b)), <<m, e>>), g6, t)
  BY <1>16, <1>17, LeadsJoin
<1>19. Envelope(Numbered(b), before, body) = Cat(Cat(Cat(q2, before), Numbered(b)), <<m, e>>)
  BY DEF Envelope, Cat, q2, m, e
<1> QED  BY <1>16, <1>18, <1>19

(* The blocks that are left, and the parts run together, are no more.      *)
LEMMA KeepShort ==
    ASSUME NEW b \in Seq(Parts), NEW S
    PROVE  Keep(b, S) \in Seq(Parts) /\ Len(Keep(b, S)) <= Len(b)
<1> DEFINE s == [k \in DOMAIN b |-> When(b[k] \in S, <<b[k]>>, <<>>)]
<1>1. Keep(b, S) = FlattenSeq(s)  BY DEF Keep
<1>2. Len(b) \in Nat /\ DOMAIN b = 1 .. Len(b) /\ \A n \in 1 .. Len(b) : b[n] \in Parts  OBVIOUS
<1>3. Len(s) = Len(b) /\ (Len(b) = 0 => s = <<>>)  BY <1>2
<1>4. \A n \in 1 .. Len(s) : s[n] = <<>> \/ \E x \in Parts : s[n] = <<x>>
  BY <1>2, <1>3 DEF When
<1> HIDE DEF s
<1>5. CASE Len(b) = 0
  <2>1. Keep(b, S) = <<>>  BY <1>1, <1>3, <1>5, FlattenNone
  <2> QED  BY <1>5, <2>1
<1>6. CASE Len(b) # 0
  <2>1. FlattenSeq(s) \in Seq(Parts) /\ Len(FlattenSeq(s)) <= Len(s)
    BY <1>2, <1>3, <1>4, <1>6, FlattenShort
  <2> QED  BY <1>1, <1>3, <2>1
<1> QED  BY <1>5, <1>6

LEMMA MergeShort ==
    ASSUME NEW b \in Seq(Parts)
    PROVE  MergeParts(b) \in Seq(Parts) /\ Len(MergeParts(b)) <= Len(b)
<1> DEFINE joins(k) == k > 1 /\ b[k] \in {"text", "thought"} /\ b[k - 1] = b[k]
           s == [k \in DOMAIN b |-> When(joins(k), <<>>, <<b[k]>>)]
<1>1. MergeParts(b) = FlattenSeq(s)  BY DEF MergeParts
<1>2. Len(b) \in Nat /\ DOMAIN b = 1 .. Len(b) /\ \A n \in 1 .. Len(b) : b[n] \in Parts  OBVIOUS
<1>3. Len(s) = Len(b) /\ (Len(b) = 0 => s = <<>>)  BY <1>2
<1>4. \A n \in 1 .. Len(s) : s[n] = <<>> \/ \E x \in Parts : s[n] = <<x>>
  BY <1>2, <1>3 DEF When
<1> HIDE DEF s
<1>5. CASE Len(b) = 0
  <2>1. MergeParts(b) = <<>>  BY <1>1, <1>3, <1>5, FlattenNone
  <2> QED  BY <1>5, <2>1
<1>6. CASE Len(b) # 0
  <2>1. FlattenSeq(s) \in Seq(Parts) /\ Len(FlattenSeq(s)) <= Len(s)
    BY <1>2, <1>3, <1>4, <1>6, FlattenShort
  <2> QED  BY <1>1, <1>3, <2>1
<1> QED  BY <1>5, <1>6

LEMMA ShapesShort ==
    ASSUME provider \in {"chat", "deepseek", "anthropic", "gemini"}, NEW b \in Shapes
    PROVE  b \in Seq(Parts) /\ Len(b) <= 3
<1>1. \A x \in Parts : <<x>> \in Seq(Parts) /\ Len(<<x>>) = 1  OBVIOUS
<1>2. \A x, y \in Parts : <<x, y>> \in Seq(Parts) /\ Len(<<x, y>>) = 2  OBVIOUS
<1>3. \A x, y, z \in Parts : <<x, y, z>> \in Seq(Parts) /\ Len(<<x, y, z>>) = 3  OBVIOUS
<1>4. <<>> \in Seq(Parts) /\ Len(<<>>) = 0  OBVIOUS
<1>6. \/ b = <<>> \/ \E x \in Parts : b = <<x>>
      \/ \E x, y \in Parts : b = <<x, y>>
      \/ \E x, y, z \in Parts : b = <<x, y, z>>
  <2>1. CASE provider = "chat"  BY <2>1 DEF Shapes, Parts
  <2>2. CASE provider = "deepseek"  BY <2>2 DEF Shapes, Parts
  <2>3. CASE provider = "anthropic"  BY <2>3 DEF Shapes, Parts
  <2>4. CASE provider = "gemini"  BY <2>4 DEF Shapes, Parts
  <2> QED  BY <2>1, <2>2, <2>3, <2>4
<1>7. b \in Seq(Parts) /\ Len(b) \in {0, 1, 2, 3}
  <2>1. CASE b = <<>>  BY <1>4, <2>1
  <2>2. ASSUME NEW x \in Parts, b = <<x>> PROVE b \in Seq(Parts) /\ Len(b) = 1  BY <1>1, <2>2
  <2>3. ASSUME NEW x \in Parts, NEW y \in Parts, b = <<x, y>>
        PROVE  b \in Seq(Parts) /\ Len(b) = 2
    BY <1>2, <2>3
  <2>4. ASSUME NEW x \in Parts, NEW y \in Parts, NEW z \in Parts, b = <<x, y, z>>
        PROVE  b \in Seq(Parts) /\ Len(b) = 3
    BY <1>3, <2>4
  <2> QED  BY <1>6, <2>1, <2>2, <2>3, <2>4
<1>8. \A n \in {0, 1, 2, 3} : n <= 3  OBVIOUS
<1> QED  BY <1>7, <1>8, Zenon

LEMMA AnswerLeads ==
    ASSUME provider \in {"chat", "deepseek", "anthropic", "gemini"}, NEW body \in Bodies,
           NEW t, ~t.final,
           body.kind = "body" => t.tokens = Counted(body.usage)
    PROVE  \E k : Leads(NoAccount, UnaryEvents(provider, body), k, t) /\ Settles(k)
<1>1. CASE body.kind \in {"error", "garbage"}
  <2>1. PICK e \in {StreamErr, ErrorEvent} : UnaryEvents(provider, body) = <<e>>
    BY <1>1 DEF UnaryEvents
  <2>2. Regular(NoAccount, e, t) /\ Book(NoAccount, e) = NoAccount
    BY <2>1 DEF Regular, Book, StreamErr, ErrorEvent, Plain
  <2>3. Leads(NoAccount, <<e>>, NoAccount, t)  BY <2>2, LeadsOne
  <2>4. Settles(NoAccount)  BY NothingYet DEF Settles, Sound, NoAccount
  <2> QED  BY <2>1, <2>3, <2>4
<1>2. CASE body.kind \notin {"error", "garbage"}
  <2>1. PICK b \in Shapes, r \in {"EndTurn", "ToolUse", "MaxTokens"},
             u \in {{}} \cup {{n} : n \in TokenCounts} :
           body = [kind |-> "body", blocks |-> b, stop |-> r, usage |-> u]
    BY <1>2 DEF Bodies
  <2>2. /\ body.kind = "body" /\ body.blocks = b /\ body.stop \in StopReason
        /\ body.usage \in OneOf(Nat) /\ t.tokens = Counted(body.usage)
    BY <2>1, StreamingAssumption DEF StopReason, OneOf, TokenCounts
  <2>3. b \in Seq(Parts) /\ Len(b) <= 3  BY <2>1, ShapesShort
  <2>4. Len(b) \in Nat  BY <2>3
  <2>5. \A S : Keep(b, S) \in Seq(Parts) /\ Len(Keep(b, S)) <= 3
    <3>1. ASSUME NEW S PROVE Keep(b, S) \in Seq(Parts) /\ Len(Keep(b, S)) <= 3
      <4>1. Keep(b, S) \in Seq(Parts) /\ Len(Keep(b, S)) <= Len(b)  BY <2>3, KeepShort
      <4>2. Len(Keep(b, S)) \in Nat  BY <4>1
      <4> QED  BY <2>3, <2>4, <4>1, <4>2
    <3> QED  BY <3>1
  <2>6. \A k : Ended(k) => Settles(k)  BY DEF Ended, Settles
  <2>7. CASE provider = "chat"
    <3> DEFINE c == Keep(b, {"text", "thought", "call"})
    <3>1. UnaryEvents(provider, body) = Envelope(Numbered(c), <<>>, body)
      BY <2>2, <2>7 DEF UnaryEvents, ChatUnary
    <3>2. c \in Seq(Parts) /\ Len(c) <= 3  BY <2>5
    <3> HIDE DEF c
    <3> QED  BY <2>2, <2>6, <3>1, <3>2, EnvelopeLeads
  <2>8. CASE provider = "deepseek"
    <3> DEFINE c == Keep(b, {"text", "call"})
    <3>1. UnaryEvents(provider, body) = Envelope(Numbered(c), <<>>, body)
      BY <2>2, <2>8 DEF UnaryEvents, DeepSeekUnary
    <3>2. c \in Seq(Parts) /\ Len(c) <= 3  BY <2>5
    <3> HIDE DEF c
    <3> QED  BY <2>2, <2>6, <3>1, <3>2, EnvelopeLeads
  <2>9. CASE provider = "anthropic"
    <3>1. UnaryEvents(provider, body) = Envelope(Numbered(b), UsageSeq(body.usage), body)
      BY <2>2, <2>9 DEF UnaryEvents, AnthropicUnary, UsageSeq
    <3> QED  BY <2>2, <2>3, <2>6, <3>1, EnvelopeLeads
  <2>10. CASE provider = "gemini"
    <3> DEFINE c == MergeParts(b)
               z == GeminiCanonical(body)
               y == [body EXCEPT !.blocks = c]
    <3>1. UnaryEvents(provider, body) = Envelope(Numbered(z.blocks), <<>>, z)
      BY <2>2, <2>10 DEF UnaryEvents, CanonicalResponseToEvents
    <3>2. c \in Seq(Parts) /\ Len(c) <= Len(b)  BY <2>3, MergeShort
    <3>3. Len(c) \in Nat  BY <3>2
    <3>4. Len(c) <= 3  BY <2>3, <2>4, <3>2, <3>3
    <3> DEFINE x == IF \E k \in DOMAIN body.blocks : body.blocks[k] = "call" THEN "ToolUse"
                    ELSE body.stop
    <3>5. z = [body EXCEPT !.blocks = c, !.stop = x]  BY <2>2 DEF GeminiCanonical
    <3>6. x \in StopReason  BY <2>2 DEF StopReason
    <3>9. y = [body EXCEPT !.blocks = c]  OBVIOUS
    <3> HIDE DEF c, z, x, y
    <3>7. y = [kind |-> "body", blocks |-> c, stop |-> r, usage |-> u]  BY <2>1, <3>9
    <3>10. z = [y EXCEPT !.stop = x]  BY <3>5, <3>9
    <3>8. z.blocks = c /\ z.stop = x /\ z.usage = body.usage  BY <2>1, <3>7, <3>10
    <3>11. \E k : Leads(NoAccount, Envelope(Numbered(c), <<>>, z), k, t) /\ Ended(k)
      BY <2>2, <3>2, <3>4, <3>6, <3>8, EnvelopeLeads
    <3> QED  BY <2>6, <3>1, <3>8, <3>11
  <2> QED  BY <2>7, <2>8, <2>9, <2>10
<1> QED  BY <1>1, <1>2
-----------------------------------------------------------------------------
(* The upstreams of typed events: how an event moves the upstream on.      *)
LEMMA FollowIs ==
    ASSUME NEW in, in.kind \notin {"chunk", "response"}, NEW u, u = Follow(in)
    PROVE  /\ u.phase = IF in.kind \in {"done", "completed", "failed", "message_stop"} THEN "stopped"
                        ELSE IF in.kind = "message_delta" THEN "closing"
                        ELSE IF up.phase = "idle" THEN "live" ELSE up.phase
           /\ in.kind = "item_added" => u.open = Insert(up.open, in.index, in.item)
           /\ in.kind = "block_start" => u.open = Insert(up.open, in.index, in.block)
           /\ in.kind \in {"item_done", "block_stop"} => u.open = Without(up.open, in.index)
           /\ in.kind \notin {"item_added", "block_start", "item_done", "block_stop"} =>
                 u.open = up.open
           /\ u.next = IF in.kind \in {"item_added", "block_start"} THEN up.next + 1 ELSE up.next
           /\ in.kind \notin {"completed", "message_start", "message_delta"} => u.tokens = up.tokens
           /\ in.kind \in {"completed", "message_start", "message_delta"} =>
                 u.tokens = IF in.usage = {} THEN up.tokens ELSE CHOOSE n \in in.usage : TRUE
           /\ u.called <=> \/ up.called
                           \/ in.kind = "block_start" /\ in.block = "ToolCall"
                           \/ in.kind = "item_added" /\ in.item = "function_call"
           /\ u.called \in BOOLEAN
           /\ u.reasoned <=> up.reasoned \/ in.kind \in {"completed", "message_stop"}
           /\ u.reasoned \in BOOLEAN
           /\ in.kind # "message_delta" => u.reason = up.reason
           /\ \A r : in.kind = "message_delta" /\ in.reason = {r} => u.reason = Means(r)
<1>1. Finishing(in) <=> in.kind \in {"done", "completed", "failed", "message_stop"}
  BY DEF Finishing
<1>2. Told(in) = IF in.kind \in {"completed", "message_start", "message_delta"} THEN in.usage ELSE {}
  BY DEF Told
<1>3. u.phase = IF in.kind \in {"done", "completed", "failed", "message_stop"} THEN "stopped"
                ELSE IF in.kind = "message_delta" THEN "closing"
                ELSE IF up.phase = "idle" THEN "live" ELSE up.phase
  BY <1>1 DEF Follow
<1>4. /\ in.kind = "item_added" => u.open = Insert(up.open, in.index, in.item)
      /\ in.kind = "block_start" => u.open = Insert(up.open, in.index, in.block)
      /\ in.kind \in {"item_done", "block_stop"} => u.open = Without(up.open, in.index)
      /\ in.kind \notin {"item_added", "block_start", "item_done", "block_stop"} => u.open = up.open
      /\ u.next = IF in.kind \in {"item_added", "block_start"} THEN up.next + 1 ELSE up.next
  BY DEF Follow
<1>5. /\ in.kind \notin {"completed", "message_start", "message_delta"} => u.tokens = up.tokens
      /\ in.kind \in {"completed", "message_start", "message_delta"} =>
            u.tokens = IF in.usage = {} THEN up.tokens ELSE CHOOSE n \in in.usage : TRUE
  <2>1. u.tokens = IF Told(in) = {} THEN up.tokens ELSE CHOOSE n \in Told(in) : TRUE
    BY DEF Follow
  <2>2. CASE in.kind \in {"completed", "message_start", "message_delta"}
    <3>1. Told(in) = in.usage  BY <1>2, <2>2
    <3> QED  BY <2>1, <2>2, <3>1, Zenon
  <2>3. CASE in.kind \notin {"completed", "message_start", "message_delta"}  BY <1>2, <2>1, <2>3
  <2> QED  BY <2>2, <2>3
<1>6. /\ u.called = \/ up.called
                    \/ in.kind = "block_start" /\ in.block = "ToolCall"
                    \/ in.kind = "chunk" /\ ToolsIn(in) # {}
                    \/ in.kind = "item_added" /\ in.item = "function_call"
                    \/ in.kind = "response" /\ in.candidate /\ "call" \in ToSet(in.parts)
      /\ u.reasoned = (up.reasoned \/ (Finishing(in) /\ in.kind \notin {"done", "failed"}))
  BY Zenon DEF Follow
<1>7. /\ u.called <=> \/ up.called
                      \/ in.kind = "block_start" /\ in.block = "ToolCall"
                      \/ in.kind = "item_added" /\ in.item = "function_call"
      /\ u.called \in BOOLEAN
  BY <1>6
<1>8. (u.reasoned <=> up.reasoned \/ in.kind \in {"completed", "message_stop"}) /\ u.reasoned \in BOOLEAN
  BY <1>1, <1>6
<1>9. ReasonIn(in) = IF in.kind = "message_delta" THEN in.reason ELSE {}
  BY DEF ReasonIn
<1>10. /\ in.kind # "message_delta" => u.reason = up.reason
       /\ \A r : in.kind = "message_delta" /\ in.reason = {r} => u.reason = Means(r)
  BY <1>9, FollowReason
<1> QED  BY <1>3, <1>4, <1>5, <1>7, <1>8, <1>10
-----------------------------------------------------------------------------
(* Blocks kept in a map from index to kind.                                *)
LEMMA OpenAsStart ==
    ASSUME NEW h, NEW o, NEW n \in BlockIndices, OpenAs(h, o, n), NEW k \in ContentBlockKind,
           NEW m, Opened(h, n, StageOf(k), m), NEW z, z = Insert(o, n, k)
    PROVE  OpenAs(m, z, n + 1)
<1>1. DOMAIN z = DOMAIN o \cup {n} /\ z[n] = k /\ \A j \in DOMAIN o \ {n} : z[j] = o[j]
  BY DEF Insert
<1>2. \A j \in DOMAIN z : z[j] \in ContentBlockKind /\ m.stage[j] = StageOf(z[j])
  BY <1>1 DEF OpenAs, Opened
<1>3. \A j \in BlockIndices : j \notin DOMAIN z => m.stage[j] \in {"new", "closed"}
  BY <1>1 DEF OpenAs, Opened
<1>4. \A j \in BlockIndices : j >= n + 1 => m.stage[j] = "new"
  BY DEF OpenAs, Opened, BlockIndices
<1> QED  BY <1>1, <1>2, <1>3, <1>4 DEF OpenAs

LEMMA OpenAsStop ==
    ASSUME NEW h, NEW o, NEW n \in Nat, OpenAs(h, o, n), NEW i \in DOMAIN o,
           NEW m, Opened(h, i, "closed", m), NEW z, z = Without(o, i)
    PROVE  OpenAs(m, z, n)
<1>1. DOMAIN z = DOMAIN o \ {i} /\ \A j \in DOMAIN z : z[j] = o[j]
  BY DEF Without
<1>2. \A j \in DOMAIN z : z[j] \in ContentBlockKind /\ m.stage[j] = StageOf(z[j])
  BY <1>1 DEF OpenAs, Opened
<1>3. \A j \in BlockIndices : j \notin DOMAIN z => m.stage[j] \in {"new", "closed"}
  BY <1>1 DEF OpenAs, Opened
<1>4. h.stage[i] # "new"  BY DEF OpenAs, StageOf, ContentBlockKind
<1>5. \A j \in BlockIndices : j >= n => m.stage[j] = "new"
  BY <1>4 DEF OpenAs, Opened
<1> QED  BY <1>1, <1>2, <1>3, <1>5 DEF OpenAs

LEMMA OpenAsQuiet ==
    ASSUME NEW h, NEW o, NEW n, OpenAs(h, o, n), DOMAIN o = {}
    PROVE  AllQuiet(h)
BY DEF OpenAs, AllQuiet

(* A block opened, a tool block with its name.                             *)
LEMMA NewBlock ==
    ASSUME NEW h, InMessage(h), NEW i \in BlockIndices, h.stage[i] = "new", NEW t
    PROVE  /\ \E k : /\ Leads(h, <<ContentBlockStart(i, "ToolCall"), BlockEvent("ToolCallStart", i)>>, k, t)
                     /\ Opened(h, i, "named", k)
           /\ \A x \in ContentBlockKind \ {"ToolCall"} :
                 \E k : Leads(h, <<ContentBlockStart(i, x)>>, k, t) /\ Opened(h, i, x, k)
<1>1. ASSUME NEW x \in ContentBlockKind \ {"ToolCall"}
      PROVE  \E k : Leads(h, <<ContentBlockStart(i, x)>>, k, t) /\ Opened(h, i, x, k)
  BY <1>1, OpensBlock
<1> DEFINE a == ContentBlockStart(i, "ToolCall")
           b == BlockEvent("ToolCallStart", i)
<1>2. PICK k : Leads(h, <<a>>, k, t) /\ Opened(h, i, "raw", k)
  BY OpensBlock DEF ContentBlockKind
<1>3. PICK m : Leads(k, <<b>>, m, t) /\ Opened(k, i, "named", m)  BY <1>2, NamesCall DEF Opened
<1>4. Opened(h, i, "named", m)  BY <1>2, <1>3, OpenedTwice
<1> HIDE DEF a, b
<1>5. Leads(h, Cat(<<a>>, <<b>>), m, t)  BY <1>2, <1>3, LeadsJoin
<1>6. Cat(<<a>>, <<b>>) = <<a, b>>  BY CatSingles
<1>7. Leads(h, <<a, b>>, m, t)  BY <1>5, <1>6
<1> QED  BY <1>1, <1>4, <1>7 DEF a, b

(* A fragment of an open block.                                            *)
LEMMA BlockDelta ==
    ASSUME NEW h, InMessage(h), NEW i \in BlockIndices, NEW t,
           NEW b \in {"Text", "Reasoning", "ToolCall"}, h.stage[i] = StageOf(b)
    PROVE  Leads(h, <<BlockEvent(DeltaOf[b], i)>>, h, t)
<1>1. /\ DeltaOf["Text"] = "TextDelta" /\ DeltaOf["Reasoning"] = "ReasoningDelta"
      /\ DeltaOf["ToolCall"] = "ToolCallArgumentsDelta"
  BY DEF DeltaOf
<1>2. CASE b = "Text"
  <2>1. h.stage[i] = "Text"  BY <1>2 DEF StageOf
  <2> QED  BY <1>1, <1>2, <2>1, HasDelta
<1>3. CASE b = "Reasoning"
  <2>1. h.stage[i] = "Reasoning"  BY <1>3 DEF StageOf
  <2> QED  BY <1>1, <1>3, <2>1, HasDelta
<1>4. CASE b = "ToolCall"
  <2>1. h.stage[i] = "named"  BY <1>4 DEF StageOf
  <2> QED  BY <1>1, <1>4, <2>1, HasDelta
<1> QED  BY <1>2, <1>3, <1>4

(* An open block closed, a tool block after its ToolCallStop.              *)
LEMMA EndBlock ==
    ASSUME NEW h, InMessage(h), NEW i \in BlockIndices, NEW t, NEW b \in ContentBlockKind,
           h.stage[i] = StageOf(b), NEW q,
           q = IF b = "ToolCall" THEN CloseTool(i) ELSE <<ContentBlockStop(i)>>
    PROVE  \E k : Leads(h, q, k, t) /\ Opened(h, i, "closed", k)
<1>1. CASE b = "ToolCall"
  <2>1. h.stage[i] = "named" /\ q = CloseTool(i)  BY <1>1 DEF StageOf
  <2> QED  BY <2>1, ClosesTool
<1>2. CASE b # "ToolCall"
  <2>1. h.stage[i] \in {"Text", "Reasoning", "RedactedReasoning"} /\ q = <<ContentBlockStop(i)>>
    BY <1>2 DEF StageOf, ContentBlockKind
  <2> QED  BY <2>1, ClosesBlock
<1> QED  BY <1>1, <1>2
-----------------------------------------------------------------------------
(* The Anthropic parser.                                                   *)
LEMMA AnthropicThrough ==
    ASSUME NEW st, NEW h, NEW u, AnthropicBack(st, h, u)
    PROVE  Through("anthropic", h, u)
<1>1. h \in Account /\ u.tokens \in Nat  BY DEF AnthropicBack, AnthropicHeld, UpTyped
<1>2. ASSUME u.reasoned PROVE AllQuiet(h) /\ "ResponseStop" \in h.seen
  <2>1. "ResponseStop" \in h.seen /\ DOMAIN u.open = {} /\ OpenAs(h, u.open, u.next)
    BY <1>2 DEF AnthropicBack, AnthropicHeld
  <2> QED  BY <2>1, OpenAsQuiet
<1> QED  BY <1>1, <1>2 DEF Through

LEMMA AnthropicBegins ==
    ASSUME NEW u, u = [phase |-> "idle", open |-> <<>>, next |-> 0, tokens |-> 0,
                       called |-> FALSE, reason |-> "none", reasoned |-> FALSE]
    PROVE  AnthropicBack(AnthropicInit, NoAccount, u)
<1>1. /\ NoAccount \in Account /\ NoAccount.seen = {} /\ NoAccount.stop = {}
      /\ \A i \in BlockIndices : NoAccount.stage[i] = "new"
  BY NothingYet DEF Sound, NoAccount
<1>2. DOMAIN u.open = {}  OBVIOUS
<1>3. OpenAs(NoAccount, u.open, u.next)  BY <1>1, <1>2 DEF OpenAs
<1> DEFINE st == AnthropicInit
<1>4. AnthropicParser(st) /\ st.open_tools = {} /\ st.tokens = {}
  BY DEF AnthropicInit, AnthropicParser
<1> HIDE DEF st
<1>5. UpTyped(u) /\ u.next <= MaxIndex + 1 /\ u.tokens = 0 /\ ~u.reasoned /\ u.phase = "idle"
  BY StreamingAssumption DEF UpTyped
<1>6. AnthropicHeld(st, NoAccount, u)
  BY <1>1, <1>2, <1>3, <1>4, <1>5 DEF AnthropicHeld, AnthropicCount
<1> QED  BY <1>1, <1>2, <1>5, <1>6 DEF AnthropicBack, st

LEMMA TakesUsage ==
    ASSUME NEW g, NEW a, Shaped(a), AnthropicParser(a.st), NEW t, NEW h \in Account,
           Leads(g, a.out, h, t), "ResponseStart" \in h.seen, "ResponseStop" \notin h.seen,
           NEW c, AnthropicCount(a.st, c), c.tokens \in Nat, NEW x \in OneOf(Nat),
           Grown(c.tokens, x),
           NEW u, u.tokens = Latest(c.tokens, x),
           NEW b, b = TakeUsage(a, x)
    PROVE  UsageTaken(g, a, h, u, b, t)
<1>1. CASE x = {}
  <2>1. b = a /\ u.tokens = c.tokens  BY <1>1 DEF TakeUsage, Latest
  <2> QED  BY <2>1 DEF AnthropicCount, UsageTaken
<1>2. ASSUME NEW n \in Nat, x = {n}
      PROVE  UsageTaken(g, a, h, u, b, t)
  <2>1. (CHOOSE m \in {n} : TRUE) = n  OBVIOUS
  <2>2. u.tokens = n /\ n >= c.tokens  BY <1>2, <2>1 DEF Latest, Grown
  <2> DEFINE y == MergeUsage(a.st.tokens, n)
             k == WithSpent(h, n)
             e == UsageDelta(n)
  <2>3. b = [st |-> [a.st EXCEPT !.tokens = y], out |-> Append(a.out, e)]
    BY <1>2, <2>1 DEF TakeUsage
  <2>4. y = {n}
    <3>1. CASE a.st.tokens = {}  BY <3>1 DEF MergeUsage
    <3>2. CASE a.st.tokens = {c.tokens}
      <4>1. (IF n > c.tokens THEN n ELSE c.tokens) = n  BY <2>2
      <4> QED  BY <3>2, <4>1 DEF MergeUsage
    <3> QED  BY <3>1, <3>2 DEF AnthropicCount
  <2>5. /\ k \in Account /\ k.seen = h.seen /\ k.stage = h.stage /\ k.stop = h.stop
    BY <1>2, MoveTypes DEF WithSpent
  <2>6. Moves(g, a.out, e, k, t)  BY <1>2, MoveUsage
  <2> HIDE DEF y, k, e
  <2>7. Leads(g, b.out, k, t)  BY <2>3, <2>6 DEF Moves
  <2>8. b.st = [stop |-> a.st.stop, tokens |-> y, open_tools |-> a.st.open_tools,
                completed |-> a.st.completed]
    BY <2>3 DEF AnthropicParser
  <2>9. AnthropicParser(b.st) /\ b.st.tokens = y /\ b.st.stop = a.st.stop
        /\ b.st.open_tools = a.st.open_tools
    BY <2>8 DEF AnthropicParser
  <2> QED  BY <1>2, <2>2, <2>4, <2>5, <2>7, <2>9 DEF AnthropicCount, UsageTaken
<1> QED  BY <1>1, <1>2 DEF OneOf

LEMMA OpenAsAlike ==
    ASSUME NEW h, NEW o, NEW n, OpenAs(h, o, n), NEW k, k.stage = h.stage
    PROVE  OpenAs(k, o, n)
BY DEF OpenAs

LEMMA AnthropicFeedStart ==
    ASSUME NEW h, AnthropicAt(h), up.phase = "idle", NEW x \in UsageNow,
           NEW in, in = [kind |-> "message_start", usage |-> x], NEW u, u = Follow(in),
           NEW r, r = AnthropicInput(parser, in)
    PROVE  AnthropicFed(h, r, u)
<1> DEFINE t == Terms("anthropic", u)
           a == Say(Start(parser), <<ResponseStart, MessageStart>>)
<1>1. /\ AnthropicHeld(parser, h, up) /\ h.seen = {} /\ DOMAIN up.open = {}
  BY DEF AnthropicAt, AnthropicBack
<1>2. /\ h \in Account /\ up.tokens \in Nat /\ ~up.reasoned /\ AnthropicCount(parser, up)
      /\ AnthropicParser(parser) /\ h.stop = {} /\ UpTyped(up) /\ up.next <= MaxIndex + 1
      /\ OpenAs(h, up.open, up.next)
      /\ parser.open_tools = {j \in DOMAIN up.open : up.open[j] = "ToolCall"}
  BY <1>1 DEF AnthropicHeld, UpTyped
<1>3. in.kind = "message_start" /\ in.usage = x  OBVIOUS
<1>4. /\ u.phase = "live" /\ u.open = up.open /\ u.next = up.next /\ ~u.reasoned
      /\ u.reasoned \in BOOLEAN /\ u.called \in BOOLEAN
      /\ u.tokens = Latest(up.tokens, x)
  BY <1>2, <1>3, FollowIs DEF Latest
<1>5. r = TakeUsage(a, x)  BY <1>3 DEF AnthropicInput
<1>6. a.st = parser /\ a.out = <<ResponseStart, MessageStart>> /\ Shaped(a)
  BY DEF Say, Start, Shaped
<1>7. PICK k \in Account : /\ Leads(h, <<ResponseStart, MessageStart>>, k, t)
                           /\ k.seen = {"ResponseStart", "MessageStart"} /\ k.stage = h.stage
                           /\ k.stop = h.stop
  BY <1>1, <1>2, OpensResponse
<1>8. x \in OneOf(Nat)  BY <1>2, UsageNowIs
<1>9. Grown(up.tokens, x)  BY StreamingAssumption DEF UsageNow, TokenCounts, Grown
<1> HIDE DEF t, a
<1>10. /\ Leads(h, a.out, k, t) /\ AnthropicParser(a.st) /\ AnthropicCount(a.st, up)
       /\ "ResponseStart" \in k.seen /\ "ResponseStop" \notin k.seen
  BY <1>2, <1>6, <1>7
<1>16. UsageTaken(h, a, k, u, r, t)
  BY <1>2, <1>4, <1>5, <1>6, <1>8, <1>9, <1>10, TakesUsage
<1>11. /\ AnthropicParser(r.st) /\ AnthropicCount(r.st, u) /\ u.tokens \in Nat
       /\ r.st.open_tools = parser.open_tools
  BY <1>6, <1>16 DEF UsageTaken
<1>12. PICK m \in Account : /\ Leads(h, r.out, m, t) /\ m.seen = k.seen
                            /\ m.stage = k.stage /\ m.stop = k.stop
  BY <1>16 DEF UsageTaken
<1>13. OpenAs(m, u.open, u.next)  BY <1>2, <1>4, <1>7, <1>12, OpenAsAlike
<1>14. AnthropicHeld(r.st, m, u)
  BY <1>2, <1>4, <1>6, <1>7, <1>11, <1>12, <1>13 DEF AnthropicHeld, UpTyped
<1>15. AnthropicBack(r.st, m, u)  BY <1>4, <1>7, <1>12, <1>14 DEF AnthropicBack
<1> QED  BY <1>12, <1>15 DEF AnthropicFed, t

LEMMA AnthropicLive ==
    ASSUME NEW h, AnthropicAt(h), up.phase = "live"
    PROVE  /\ InMessage(h) /\ h.seen = {"ResponseStart", "MessageStart"} /\ h.stop = {}
           /\ UpTyped(up) /\ up.next <= MaxIndex + 1 /\ ~up.reasoned
           /\ AnthropicParser(parser) /\ AnthropicCount(parser, up)
           /\ OpenAs(h, up.open, up.next)
           /\ parser.open_tools = {j \in DOMAIN up.open : up.open[j] = "ToolCall"}
BY DEF AnthropicAt, AnthropicBack, AnthropicHeld, InMessage

(* A step within the message that keeps the counts.                        *)
LEMMA AnthropicLiveBack ==
    ASSUME NEW h, AnthropicAt(h), up.phase = "live", NEW u, u.phase = "live",
           u.tokens = up.tokens, u.called \in BOOLEAN, ~u.reasoned, u.reasoned \in BOOLEAN,
           u.next \in Nat, u.next <= MaxIndex + 1,
           NEW k, k \in Account, k.seen = h.seen, k.stop = h.stop, OpenAs(k, u.open, u.next),
           NEW st, AnthropicParser(st), st.tokens = parser.tokens,
           st.open_tools = {j \in DOMAIN u.open : u.open[j] = "ToolCall"}
    PROVE  AnthropicBack(st, k, u)
<1>1. /\ h.seen = {"ResponseStart", "MessageStart"} /\ h.stop = {} /\ UpTyped(up)
      /\ AnthropicCount(parser, up)
  BY AnthropicLive
<1>2. AnthropicHeld(st, k, u)  BY <1>1 DEF AnthropicHeld, UpTyped, AnthropicCount
<1> QED  BY <1>1, <1>2 DEF AnthropicBack

LEMMA AnthropicFeedBlock ==
    ASSUME NEW h, AnthropicAt(h), up.phase = "live", up.next <= MaxIndex,
           NEW b \in ContentBlockKind, NEW x \in BOOLEAN,
           NEW in, in = [kind |-> "block_start", index |-> up.next, block |-> b, text |-> x],
           NEW u, u = Follow(in), NEW r, r = AnthropicInput(parser, in)
    PROVE  AnthropicFed(h, r, u)
<1> DEFINE t == Terms("anthropic", u)
           i == up.next
<1>1. /\ InMessage(h) /\ UpTyped(up) /\ ~up.reasoned /\ AnthropicParser(parser)
      /\ OpenAs(h, up.open, i)
      /\ parser.open_tools = {j \in DOMAIN up.open : up.open[j] = "ToolCall"}
  BY AnthropicLive
<1>2. i \in BlockIndices /\ i \in Nat  BY <1>1, StreamingAssumption DEF UpTyped, BlockIndices
<1>3. h.stage[i] = "new"  BY <1>2, <1>1 DEF OpenAs
<1>4. in.kind = "block_start" /\ in.index = i /\ in.block = b /\ in.text = x  OBVIOUS
<1>5. /\ u.phase = "live" /\ u.open = Insert(up.open, i, b) /\ u.next = i + 1
      /\ u.tokens = up.tokens /\ u.called \in BOOLEAN /\ ~u.reasoned /\ u.reasoned \in BOOLEAN
  BY <1>1, <1>4, FollowIs DEF UpTyped
<1>6. r = BlockStart(parser, in)  BY <1>4 DEF AnthropicInput
<1> DEFINE c == ContentBlockStart(i, b)
           e == BlockEvent("ToolCallStart", i)
           d == BlockEvent(DeltaOf[b], i)
           z == [parser EXCEPT !.open_tools = @ \cup {i}]
           text == b \in {"Text", "Reasoning"} /\ x
<1>7. /\ b = "ToolCall" => r.st = z /\ r.out = <<c, e>>
      /\ text => r.st = parser /\ r.out = <<c, d>>
      /\ b # "ToolCall" /\ ~text => r.st = parser /\ r.out = <<c>>
  <2>1. /\ b = "ToolCall" => r = [st |-> z, out |-> Append(<<c>>, e)]
        /\ text => r = Say(Start(parser), Append(<<c>>, d))
        /\ b # "ToolCall" /\ ~text => r = Say(Start(parser), <<c>>)
    BY <1>4, <1>6 DEF BlockStart
  <2>2. Append(<<c>>, d) = <<c, d>> /\ Append(<<c>>, e) = <<c, e>>  BY AppendTwo
  <2> HIDE DEF c, d, e, z, text
  <2>3. ASSUME b = "ToolCall" PROVE r.st = z /\ r.out = <<c, e>>  BY <2>1, <2>2, <2>3
  <2>4. ASSUME text PROVE r.st = parser /\ r.out = <<c, d>>
    <3>1. r = Say(Start(parser), <<c, d>>)  BY <2>1, <2>2, <2>4
    <3> QED  BY <3>1, SayFrames
  <2>5. ASSUME b # "ToolCall", ~text PROVE r.st = parser /\ r.out = <<c>>
    <3>1. r = Say(Start(parser), <<c>>)  BY <2>1, <2>5
    <3> QED  BY <3>1, SayFrames
  <2> QED  BY <2>3, <2>4, <2>5
<1> HIDE DEF z, text
<1>8. \E k : Leads(h, r.out, k, t) /\ Opened(h, i, StageOf(b), k)
  <2>1. CASE b = "ToolCall"
    <3>1. PICK k : /\ Leads(h, <<ContentBlockStart(i, "ToolCall"), e>>, k, t)
                   /\ Opened(h, i, "named", k)
      BY <1>1, <1>2, <1>3, NewBlock
    <3>2. r.out = <<ContentBlockStart(i, "ToolCall"), e>>  BY <1>7, <2>1
    <3> QED  BY <2>1, <3>1, <3>2 DEF StageOf
  <2>2. CASE b # "ToolCall"
    <3>1. StageOf(b) = b  BY <2>2 DEF StageOf
    <3>2. PICK k : Leads(h, <<c>>, k, t) /\ Opened(h, i, b, k)
      BY <1>1, <1>2, <1>3, <2>2, NewBlock
    <3>3. CASE text
      <4>1. Leads(k, <<d>>, k, t)  BY <1>2, <3>1, <3>2, <3>3, BlockDelta DEF Opened, text
      <4>2. r.out = <<c, d>>  BY <1>7, <3>3
      <4> HIDE DEF c, d, t
      <4>3. Leads(h, Cat(<<c>>, <<d>>), k, t)  BY <3>2, <4>1, LeadsJoin
      <4>4. Cat(<<c>>, <<d>>) = <<c, d>>  BY CatSingles
      <4> QED  BY <3>1, <3>2, <4>2, <4>3, <4>4
    <3>4. CASE ~text
      <4>1. r.out = <<c>>  BY <1>7, <2>2, <3>4
      <4> QED  BY <3>1, <3>2, <4>1
    <3> QED  BY <3>3, <3>4
  <2> QED  BY <2>1, <2>2
<1>9. PICK k : Leads(h, r.out, k, t) /\ Opened(h, i, StageOf(b), k)  BY <1>8
<1>10. OpenAs(k, u.open, u.next)  BY <1>1, <1>2, <1>5, <1>9, OpenAsStart
<1>11. /\ AnthropicParser(r.st) /\ r.st.tokens = parser.tokens
       /\ r.st.open_tools = {j \in DOMAIN u.open : u.open[j] = "ToolCall"}
  <2>1. /\ DOMAIN u.open = DOMAIN up.open \cup {i} /\ u.open[i] = b
        /\ \A j \in DOMAIN up.open \ {i} : u.open[j] = up.open[j]
    BY <1>5 DEF Insert
  <2>2. i \notin DOMAIN up.open
    <3>1. \A j \in DOMAIN up.open : h.stage[j] # "new"
      BY <1>1 DEF OpenAs, StageOf, ContentBlockKind
    <3> QED  BY <1>3, <3>1
  <2>3. CASE b = "ToolCall"
    <3>1. r.st = [stop |-> parser.stop, tokens |-> parser.tokens,
                  open_tools |-> parser.open_tools \cup {i}, completed |-> parser.completed]
      BY <1>1, <1>7, <2>3 DEF AnthropicParser, z
    <3>2. AnthropicParser(r.st) /\ r.st.tokens = parser.tokens
          /\ r.st.open_tools = parser.open_tools \cup {i}
      BY <3>1 DEF AnthropicParser
    <3> QED  BY <1>1, <2>1, <2>2, <2>3, <3>2
  <2>4. CASE b # "ToolCall"
    <3>1. r.st = parser  BY <1>7, <2>4 DEF text
    <3> QED  BY <1>1, <2>1, <2>2, <2>4, <3>1
  <2> QED  BY <2>3, <2>4
<1>12. k \in Account /\ k.seen = h.seen /\ k.stop = h.stop  BY <1>9 DEF Opened, InMessage
<1>13. u.next \in Nat /\ u.next <= MaxIndex + 1  BY <1>2, <1>5, StreamingAssumption
<1>14. AnthropicBack(r.st, k, u)
  BY <1>5, <1>10, <1>11, <1>12, <1>13, AnthropicLiveBack
<1> QED  BY <1>9, <1>14 DEF AnthropicFed

LEMMA AnthropicFeedWithin ==
    ASSUME NEW h, AnthropicAt(h), up.phase = "live", NEW i \in DOMAIN up.open,
           NEW in, \/ in = [kind |-> "block_stop", index |-> i]
                   \/ /\ up.open[i] # "RedactedReasoning"
                      /\ in = [kind |-> "block_delta", index |-> i, block |-> up.open[i]],
           NEW u, u = Follow(in), NEW r, r = AnthropicInput(parser, in)
    PROVE  AnthropicFed(h, r, u)
<1> DEFINE t == Terms("anthropic", u)
           b == up.open[i]
<1>1. /\ InMessage(h) /\ UpTyped(up) /\ up.next <= MaxIndex + 1 /\ ~up.reasoned
      /\ AnthropicParser(parser) /\ OpenAs(h, up.open, up.next)
      /\ parser.open_tools = {j \in DOMAIN up.open : up.open[j] = "ToolCall"}
  BY AnthropicLive
<1>2. i \in BlockIndices /\ b \in ContentBlockKind /\ h.stage[i] = StageOf(b)
  BY <1>1 DEF OpenAs
<1>3. in.kind \in {"block_stop", "block_delta"} /\ in.index = i  OBVIOUS
<1>4. /\ u.phase = "live" /\ u.next = up.next /\ u.next \in Nat
      /\ u.tokens = up.tokens /\ u.called \in BOOLEAN /\ ~u.reasoned /\ u.reasoned \in BOOLEAN
      /\ in.kind = "block_stop" => u.open = Without(up.open, i)
      /\ in.kind = "block_delta" => u.open = up.open
  BY <1>1, <1>3, FollowIs DEF UpTyped
<1>5. CASE in.kind = "block_delta"
  <2>1. in.block = b /\ b \in {"Text", "Reasoning", "ToolCall"}
    BY <1>2, <1>5 DEF ContentBlockKind
  <2> DEFINE d == BlockEvent(DeltaOf[b], i)
  <2>2. r = Say(Start(parser), <<d>>)  BY <1>3, <1>5, <2>1 DEF AnthropicInput
  <2>3. Leads(h, <<d>>, h, t)  BY <1>1, <1>2, <2>1, BlockDelta
  <2> HIDE DEF d, t
  <2>4. r.st = parser /\ r.out = <<d>>  BY <2>2, SayFrames
  <2>5. AnthropicBack(r.st, h, u)
    BY <1>1, <1>4, <1>5, <2>4, AnthropicLiveBack DEF InMessage
  <2> QED  BY <2>3, <2>4, <2>5 DEF AnthropicFed, t
<1>6. CASE in.kind = "block_stop"
  <2> DEFINE q == IF b = "ToolCall" THEN CloseTool(i) ELSE <<ContentBlockStop(i)>>
             z == [parser EXCEPT !.open_tools = @ \ {i}]
  <2>1. r = BlockStop(parser, in)  BY <1>6 DEF AnthropicInput
  <2>2. i \in parser.open_tools <=> b = "ToolCall"  BY <1>1
  <2>3. r.st = z /\ r.out = q  BY <1>3, <2>1, <2>2 DEF BlockStop
  <2>4. PICK k : Leads(h, q, k, t) /\ Opened(h, i, "closed", k)  BY <1>1, <1>2, EndBlock
  <2>5. z = [stop |-> parser.stop, tokens |-> parser.tokens,
             open_tools |-> parser.open_tools \ {i}, completed |-> parser.completed]
    BY <1>1 DEF AnthropicParser
  <2>6. AnthropicParser(z) /\ z.tokens = parser.tokens /\ z.open_tools = parser.open_tools \ {i}
    BY <2>5 DEF AnthropicParser
  <2> HIDE DEF q, z
  <2>7. OpenAs(k, u.open, u.next)  BY <1>1, <1>4, <1>6, <2>4, OpenAsStop DEF UpTyped
  <2>8. DOMAIN u.open = DOMAIN up.open \ {i} /\ \A j \in DOMAIN u.open : u.open[j] = up.open[j]
    BY <1>4, <1>6 DEF Without
  <2>9. z.open_tools = {j \in DOMAIN u.open : u.open[j] = "ToolCall"}  BY <1>1, <2>6, <2>8
  <2>10. k \in Account /\ k.seen = h.seen /\ k.stop = h.stop  BY <2>4 DEF Opened, InMessage
  <2>11. AnthropicBack(z, k, u)
    BY <1>1, <1>4, <2>6, <2>7, <2>9, <2>10, AnthropicLiveBack
  <2> QED  BY <2>3, <2>4, <2>11 DEF AnthropicFed
<1> QED  BY <1>3, <1>5, <1>6

LEMMA AnthropicFeedDelta ==
    ASSUME NEW h, AnthropicAt(h), up.phase = "live", DOMAIN up.open = {}, NEW n \in TokenCounts,
           n >= up.tokens, NEW in, in.kind = "message_delta", in.usage = {n},
           NEW w \in AnthropicReasons, in.reason = {w},
           NEW u, u = Follow(in), NEW r, r = AnthropicInput(parser, in)
    PROVE  AnthropicFed(h, r, u)
<1> DEFINE t == Terms("anthropic", u)
           s == FromAnthropic(w)
           z == [parser EXCEPT !.stop = {s}]
           a == Start(z)
<1>1. /\ InMessage(h) /\ h.seen = {"ResponseStart", "MessageStart"} /\ h.stop = {}
      /\ UpTyped(up) /\ up.next <= MaxIndex + 1 /\ ~up.reasoned
      /\ AnthropicParser(parser) /\ AnthropicCount(parser, up)
      /\ OpenAs(h, up.open, up.next)
      /\ parser.open_tools = {j \in DOMAIN up.open : up.open[j] = "ToolCall"}
  BY AnthropicLive
<1>2. (CHOOSE m \in {n} : TRUE) = n /\ n \in Nat  BY StreamingAssumption DEF TokenCounts
<1>3. /\ u.phase = "closing" /\ u.open = up.open /\ u.next = up.next /\ ~u.reasoned
      /\ u.reasoned \in BOOLEAN /\ u.called \in BOOLEAN
      /\ u.tokens = Latest(up.tokens, {n}) /\ u.reason = Means(w)
  BY <1>1, <1>2, FollowIs DEF Latest, UpTyped
<1>4. {FromAnthropic(x) : x \in in.reason} = {s}  OBVIOUS
<1>16. s \in StopReason /\ Sense(s) = Means(w)
  BY DEF FromAnthropic, AnthropicReasons, StopReason, Sense, Means
<1> HIDE DEF s
<1>5. r = TakeUsage(a, {n})
  <2>1. r = MessageDelta(parser, in)  BY DEF AnthropicInput
  <2>2. in.reason # {}  OBVIOUS
  <2> QED  BY <1>4, <2>1, <2>2 DEF MessageDelta
<1>6. z = [stop |-> {s}, tokens |-> parser.tokens,
           open_tools |-> parser.open_tools, completed |-> parser.completed]
  BY <1>1 DEF AnthropicParser
<1>7. /\ AnthropicParser(z) /\ z.tokens = parser.tokens /\ z.open_tools = parser.open_tools
      /\ z.stop = {s}
  BY <1>6 DEF AnthropicParser
<1> HIDE DEF z
<1>8. a.st = z /\ a.out = <<>> /\ Shaped(a)  BY DEF Start, Shaped
<1>9. {n} \in OneOf(Nat) /\ Grown(up.tokens, {n})  BY <1>2 DEF OneOf, Grown
<1> HIDE DEF a, t
<1>10. /\ Leads(h, a.out, h, t) /\ AnthropicParser(a.st) /\ AnthropicCount(a.st, up)
       /\ h \in Account /\ "ResponseStart" \in h.seen /\ "ResponseStop" \notin h.seen
       /\ up.tokens \in Nat
  BY <1>1, <1>7, <1>8, LeadsNothing DEF AnthropicCount, InMessage, UpTyped
<1>11. UsageTaken(h, a, h, u, r, t)
  BY <1>3, <1>5, <1>8, <1>9, <1>10, TakesUsage
<1>12. PICK m \in Account : /\ Leads(h, r.out, m, t) /\ m.seen = h.seen
                            /\ m.stage = h.stage /\ m.stop = h.stop
  BY <1>11 DEF UsageTaken
<1>13. /\ AnthropicParser(r.st) /\ AnthropicCount(r.st, u) /\ u.tokens \in Nat
       /\ r.st.open_tools = parser.open_tools /\ r.st.stop = {s}
  BY <1>7, <1>8, <1>11 DEF UsageTaken
<1>14. OpenAs(m, u.open, u.next)  BY <1>1, <1>3, <1>12, OpenAsAlike
<1>15. AnthropicHeld(r.st, m, u)
  BY <1>1, <1>3, <1>12, <1>13, <1>14 DEF AnthropicHeld, UpTyped
<1>17. AnthropicBack(r.st, m, u)
  BY <1>1, <1>3, <1>12, <1>13, <1>15, <1>16 DEF AnthropicBack
<1> QED  BY <1>12, <1>17 DEF AnthropicFed, t

LEMMA AnthropicFeedStop ==
    ASSUME NEW h, AnthropicAt(h), up.phase = "closing", NEW in, in.kind = "message_stop",
           NEW u, u = Follow(in), NEW r, r = AnthropicInput(parser, in)
    PROVE  AnthropicFed(h, r, u)
<1>0. PICK s \in StopReason : parser.stop = {s} /\ Sense(s) = up.reason
  BY DEF AnthropicAt, AnthropicBack
<1> DEFINE t == Terms("anthropic", u)
           x == IF parser.tokens = {} THEN {0} ELSE parser.tokens
           z == [parser EXCEPT !.stop = {}, !.tokens = {}, !.completed = TRUE]
<1>1. /\ AnthropicHeld(parser, h, up) /\ h.seen = {"ResponseStart", "MessageStart"}
      /\ DOMAIN up.open = {} /\ parser.stop = {s}
  BY <1>0 DEF AnthropicAt, AnthropicBack
<1>2. /\ h \in Account /\ UpTyped(up) /\ up.next <= MaxIndex + 1 /\ OpenAs(h, up.open, up.next)
      /\ AnthropicParser(parser) /\ AnthropicCount(parser, up)
      /\ parser.open_tools = {j \in DOMAIN up.open : up.open[j] = "ToolCall"}
  BY <1>1 DEF AnthropicHeld
<1>3. /\ u.phase = "stopped" /\ u.open = up.open /\ u.next = up.next /\ u.tokens = up.tokens
      /\ u.reasoned /\ u.reasoned \in BOOLEAN /\ u.called \in BOOLEAN /\ u.reason = up.reason
  BY <1>2, FollowIs DEF UpTyped
<1>4. (CHOOSE y \in {s} : TRUE) = s  OBVIOUS
<1>5. r = [st |-> z, out |-> <<MessageStop(s), ResponseStop(x)>>]
  <2>1. r = MessageEnd(parser)  BY DEF AnthropicInput
  <2>2. (IF parser.stop = {} THEN "EndTurn" ELSE CHOOSE y \in parser.stop : TRUE) = s
    BY <1>1, <1>4
  <2> QED  BY <2>1, <2>2 DEF MessageEnd
<1>6. AllQuiet(h)  BY <1>1, <1>2, OpenAsQuiet
<1>7. s \in StopReason /\ Honest(s, t)  BY <1>0, <1>3 DEF Honest, Terms, Due
<1>8. x \in OneOf(Nat) /\ x = {t.tokens}
  <2>1. t.tokens = up.tokens /\ up.tokens \in Nat  BY <1>2, <1>3 DEF Terms, UpTyped
  <2>2. x = {up.tokens}  BY <1>2 DEF AnthropicCount
  <2> QED  BY <2>1, <2>2 DEF OneOf
<1> HIDE DEF x, t
<1>18. /\ "ResponseStart" \in h.seen /\ "MessageStop" \notin h.seen /\ "ResponseStop" \notin h.seen
       /\ Sums(h, x, t)
  BY <1>1, <1>8 DEF Sums
<1> DEFINE q == <<MessageStop(s), ResponseStop(x)>>
<1>9. PICK k : Leads(h, q, k, t) /\ EndedFrom(h, s, k)
  BY <1>2, <1>6, <1>7, <1>8, <1>18, EndsResponse
<1>19. k.stage = h.stage /\ Ended(k)  BY <1>9 DEF EndedFrom
<1>10. z = [stop |-> {}, tokens |-> {}, open_tools |-> parser.open_tools, completed |-> TRUE]
  <2> DEFINE y == [stop |-> {}, tokens |-> parser.tokens, open_tools |-> parser.open_tools,
                   completed |-> parser.completed]
  <2>1. [parser EXCEPT !.stop = {}] = y  BY <1>2 DEF AnthropicParser
  <2> DEFINE w == [y EXCEPT !.tokens = {}]
  <2>2. z = [w EXCEPT !.completed = TRUE]  BY <2>1
  <2>3. w = [stop |-> {}, tokens |-> {}, open_tools |-> parser.open_tools,
             completed |-> parser.completed]
    OBVIOUS
  <2> HIDE DEF y, w, z
  <2> QED  BY <2>2, <2>3
<1>11. r.st = z /\ r.out = q  BY <1>5
<1> HIDE DEF z
<1>12. AnthropicParser(z) /\ z.open_tools = parser.open_tools  BY <1>10 DEF AnthropicParser
<1>13. OpenAs(k, u.open, u.next)  BY <1>2, <1>3, <1>19, OpenAsAlike
<1>14. k \in Account /\ "ResponseStop" \in k.seen  BY <1>19 DEF Ended
<1>15. UpTyped(u)  BY <1>2, <1>3 DEF UpTyped
<1>16. AnthropicHeld(z, k, u)
  BY <1>1, <1>2, <1>3, <1>12, <1>13, <1>14, <1>15 DEF AnthropicHeld
<1>17. AnthropicBack(z, k, u)  BY <1>3, <1>14, <1>16 DEF AnthropicBack
<1> QED  BY <1>9, <1>11, <1>17 DEF AnthropicFed, t

(* The Anthropic parser, whatever the upstream does next.                  *)
LEMMA AnthropicFeed ==
    ASSUME NEW h, AnthropicAt(h), NEW in,
           NEW u, \/ in \in AnthropicOffers /\ u = Follow(in)
                  \/ in \in Faults /\ u = up
                  \/ in = [kind |-> "eof"] /\ u.phase = "gone",
           u.phase = "gone" => u.open = up.open /\ u.next = up.next /\ u.tokens = up.tokens
                               /\ u.called = up.called /\ u.reason = up.reason /\ u.reasoned = up.reasoned,
           NEW r, r = AnthropicInput(parser, in)
    PROVE  AnthropicFed(h, r, u) /\ h.stop = {}
<1>1. /\ AnthropicBack(parser, h, up) /\ h.stop = {} /\ up.phase \in {"idle", "live", "closing"}
  BY DEF AnthropicAt, AnthropicBack, AnthropicHeld
<1>2. CASE in \in Faults /\ u = up
  <2>2. in.kind \in {"broken", "garbage", "error"}  BY <1>2 DEF Faults
  <2>3. /\ in.kind = "error" => r = Say(Start(parser), <<ErrorEvent>>)
        /\ in.kind = "garbage" => r = Say(Start(parser), <<StreamErr>>)
        /\ in.kind = "broken" => r = When(parser.completed, Start(parser),
                                          Say(Start(parser), <<StreamErr>>))
    BY DEF AnthropicInput
  <2>1. Mishap(r, parser)  BY <2>2, <2>3 DEF Mishap, When
  <2> QED  BY <1>1, <1>2, <2>1, MishapLeads DEF AnthropicFed
<1>3. CASE in = [kind |-> "eof"] /\ u.phase = "gone"
  <2>1. r = Start(parser)  BY <1>3 DEF AnthropicInput
  <2>2. r.st = parser /\ Leads(h, r.out, h, Terms("anthropic", u))
    BY <2>1, MishapLeads DEF Mishap
  <2>3. AnthropicHeld(parser, h, u)
    BY <1>1, <1>3 DEF AnthropicBack, AnthropicHeld, UpTyped, AnthropicCount
  <2>4. AnthropicBack(parser, h, u)  BY <1>3, <2>3 DEF AnthropicBack
  <2> QED  BY <1>1, <2>2, <2>4 DEF AnthropicFed
<1>4. CASE in \in AnthropicOffers /\ u = Follow(in)
  <2>1. CASE up.phase = "idle"
    <3>1. PICK x \in UsageNow : in = [kind |-> "message_start", usage |-> x]
      BY <1>4, <2>1 DEF AnthropicOffers
    <3> QED  BY <1>1, <1>4, <2>1, <3>1, AnthropicFeedStart
  <2>2. CASE up.phase = "closing"
    <3>1. in.kind = "message_stop"  BY <1>4, <2>2 DEF AnthropicOffers
    <3> QED  BY <1>1, <1>4, <2>2, <3>1, AnthropicFeedStop
  <2>3. CASE up.phase = "live" /\ DOMAIN up.open # {}
    <3>1. PICK i \in DOMAIN up.open :
             \/ in = [kind |-> "block_stop", index |-> i]
             \/ /\ up.open[i] # "RedactedReasoning"
                /\ in = [kind |-> "block_delta", index |-> i, block |-> up.open[i]]
      BY <1>4, <2>3 DEF AnthropicOffers
    <3> QED  BY <1>1, <1>4, <2>3, <3>1, AnthropicFeedWithin
  <2>4. CASE up.phase = "live" /\ DOMAIN up.open = {}
    <3>1. \/ \E b \in ContentBlockKind : \E x \in BOOLEAN :
                /\ up.next <= MaxIndex
                /\ in = [kind |-> "block_start", index |-> up.next, block |-> b, text |-> x]
          \/ \E n \in TokenCounts : \E w \in AnthropicReasons :
                /\ n >= up.tokens /\ in.kind = "message_delta" /\ in.usage = {n}
                /\ in.reason = {w}
      BY <1>4, <2>4 DEF AnthropicOffers
    <3>2. ASSUME NEW b \in ContentBlockKind, NEW x \in BOOLEAN, up.next <= MaxIndex,
                 in = [kind |-> "block_start", index |-> up.next, block |-> b, text |-> x]
          PROVE  AnthropicFed(h, r, u)
      BY <1>4, <2>4, <3>2, AnthropicFeedBlock
    <3>3. ASSUME NEW n \in TokenCounts, n >= up.tokens, in.kind = "message_delta",
                 in.usage = {n}, NEW w \in AnthropicReasons, in.reason = {w}
          PROVE  AnthropicFed(h, r, u)
      BY <1>4, <2>4, <3>3, AnthropicFeedDelta
    <3> QED  BY <1>1, <3>1, <3>2, <3>3
  <2> QED  BY <1>1, <2>1, <2>2, <2>3, <2>4
<1> QED  BY <1>2, <1>3, <1>4
-----------------------------------------------------------------------------
(* The Gemini parser.                                                      *)
LEMMA FoldPartsAre ==
    ASSUME NEW a, NEW s, DOMAIN s \in {{}, {1}, {1, 2}}
    PROVE  FoldParts(a, s) = IF DOMAIN s = {} THEN a
                             ELSE IF DOMAIN s = {1} THEN HandlePart(a, s[1])
                             ELSE HandlePart(HandlePart(a, s[1]), s[2])
<1> DEFINE D == DOMAIN s
           Tree(f) == f = [S \in SUBSET D |-> IF S = {} THEN a
                                              ELSE HandlePart(f[S \ {Max(S)}], s[Max(S)])]
           F == CHOOSE f : Tree(f)
           One == HandlePart(a, s[1])
           Two == HandlePart(a, s[2])
           Both == HandlePart(One, s[2])
           W == [S \in SUBSET D |-> IF S = {} THEN a ELSE IF S = {1} THEN One
                                    ELSE IF S = {2} THEN Two ELSE Both]
<1>1. FoldParts(a, s) = F[D]  BY Zenon DEF FoldParts, FoldLeft, MapThenFoldSet
<1>2. \A S \in SUBSET D : S \in {{}, {1}, {2}, {1, 2}}  OBVIOUS
<1>3. ASSUME NEW S \in SUBSET D
      PROVE  /\ S = {} => W[S] = a
             /\ S = {1} => W[S] = One /\ W[S \ {1}] = a
             /\ S = {2} => W[S] = Two /\ W[S \ {2}] = a
             /\ S = {1, 2} => W[S] = Both /\ W[S \ {2}] = One
  <2> HIDE DEF One, Two, Both
  <2>1. {1} \ {1} = {} /\ {2} \ {2} = {} /\ {1, 2} \ {2} = {1}  OBVIOUS
  <2> QED  BY <2>1
<1>4. W = [S \in SUBSET D |-> W[S]]  OBVIOUS
<1> HIDE DEF W
<1>5. ASSUME NEW S \in SUBSET D, S # {} PROVE W[S] = HandlePart(W[S \ {Max(S)}], s[Max(S)])
  <2>1. CASE S = {1}
    <3>1. Max(S) = 1  BY <2>1, MaxOne
    <3> QED  BY <1>3, <2>1, <3>1
  <2>2. CASE S = {2}
    <3>1. Max(S) = 2  BY <2>2, MaxTwo
    <3> QED  BY <1>3, <2>2, <3>1
  <2>3. CASE S = {1, 2}
    <3>1. Max(S) = 2  BY <2>3, MaxTwo
    <3> QED  BY <1>3, <2>3, <3>1
  <2> QED  BY <1>2, <1>5, <2>1, <2>2, <2>3
<1> HIDE DEF One, Two, Both, D
<1>6. Tree(W)
  <2>1. {} \in SUBSET D  OBVIOUS
  <2>2. W[{}] = a  BY <1>3, <2>1
  <2> QED  BY <1>4, <1>5, <2>2
<1>7. Tree(F)  BY <1>6, Zenon
<1>8. /\ F[{}] = a
      /\ \A S \in SUBSET D : S # {} => F[S] = HandlePart(F[S \ {Max(S)}], s[Max(S)])
  <2> HIDE DEF F
  <2> QED  BY <1>7
<1> HIDE DEF F
<1>9. {1} \ {1} = {} /\ {1, 2} \ {2} = {1}  OBVIOUS
<1>10. CASE D = {}  BY <1>1, <1>8, <1>10 DEF D
<1>11. CASE D = {1}
  <2>1. F[{1}] = HandlePart(F[{1} \ {Max({1})}], s[Max({1})])  BY <1>8, <1>11
  <2> QED  BY <1>1, <1>8, <1>9, <1>11, <2>1, MaxOne DEF D
<1>12. CASE D = {1, 2}
  <2>1. F[{1}] = HandlePart(F[{1} \ {Max({1})}], s[Max({1})])  BY <1>8, <1>12
  <2>2. F[{1, 2}] = HandlePart(F[{1, 2} \ {Max({1, 2})}], s[Max({1, 2})])  BY <1>8, <1>12
  <2> QED  BY <1>1, <1>8, <1>9, <1>12, <2>1, <2>2, MaxOne, MaxTwo DEF D
<1> QED  BY <1>10, <1>11, <1>12 DEF D

LEMMA GeminiQuiet ==
    ASSUME NEW h, NEW n, GeminiBlocks(h, {}, n)
    PROVE  AllQuiet(h)
<1>1. \A x, i : {} # {<<x, i>>}  OBVIOUS
<1> QED  BY <1>1 DEF GeminiBlocks

LEMMA BegunOpened ==
    ASSUME NEW h, Begun(h), NEW i, NEW x, NEW k, Opened(h, i, x, k)
    PROVE  Begun(k)
BY DEF Begun, Opened, InMessage

LEMMA BegunIn ==
    ASSUME NEW h, Begun(h)
    PROVE  InMessage(h)
BY DEF Begun, InMessage

LEMMA GeminiClose ==
    ASSUME NEW g, NEW a, NEW h, NEW t, GeminiAcc(g, a, h, t), NEW b, b = CloseOpenBlock(a)
    PROVE  /\ \E k : GeminiAcc(g, b, k, t)
           /\ b.st.open_block = {} /\ b.st.next_block = a.st.next_block
           /\ b.st.has_tool_call = a.st.has_tool_call /\ GeminiSame(a.st, b.st)
<1> DEFINE o == a.st.open_block
           z == [a.st EXCEPT !.open_block = {}]
           q == SetToSeq({ContentBlockStop(x[2]) : x \in o})
<1>1. /\ Shaped(a) /\ GeminiIs(a.st) /\ Leads(g, a.out, h, t) /\ Begun(h)
      /\ GeminiBlocks(h, o, a.st.next_block)
  BY DEF GeminiAcc
<1>2. b = [st |-> z, out |-> Cat(a.out, q)]  BY DEF CloseOpenBlock, Cat
<1>3. z = [started |-> a.st.started, stopped |-> a.st.stopped, next_block |-> a.st.next_block,
           open_block |-> {}, has_tool_call |-> a.st.has_tool_call, last_usage |-> a.st.last_usage]
  BY <1>1 DEF GeminiIs
<1>4. \E k : Leads(h, q, k, t) /\ Begun(k) /\ GeminiBlocks(k, {}, a.st.next_block)
  <2>1. CASE o = {} /\ AllQuiet(h)
    <3>1. {ContentBlockStop(x[2]) : x \in o} = {}  BY <2>1
    <3>2. q = <<>>  BY <3>1, OptionSeq
    <3>3. Leads(h, q, h, t)  BY <3>2, LeadsNothing
    <3>4. GeminiBlocks(h, {}, a.st.next_block)  BY <1>1, <2>1 DEF GeminiBlocks
    <3> QED  BY <1>1, <3>3, <3>4
  <2>2. ASSUME NEW i \in BlockIndices, NEW x \in {"Text", "Reasoning"}, o = {<<x, i>>},
               h.stage[i] = x, \A j \in BlockIndices \ {i} : h.stage[j] \in {"new", "closed"}
        PROVE  \E k : Leads(h, q, k, t) /\ Begun(k) /\ GeminiBlocks(k, {}, a.st.next_block)
    <3> DEFINE e == ContentBlockStop(i)
    <3>1. {ContentBlockStop(y[2]) : y \in o} = {e}  BY <2>2
    <3>2. q = <<e>>  BY <3>1, OptionSeq
    <3>3. PICK k : Leads(h, <<e>>, k, t) /\ Opened(h, i, "closed", k)
      BY <1>1, <2>2, ClosesBlock, BegunIn
    <3>4. \A j \in BlockIndices : k.stage[j] \in {"new", "closed"}  BY <2>2, <3>3 DEF Opened
    <3>5. \A j \in BlockIndices : j >= a.st.next_block => k.stage[j] = "new"
      BY <1>1, <2>2, <3>3 DEF Opened, GeminiBlocks
    <3>6. GeminiBlocks(k, {}, a.st.next_block)
      BY <1>1, <3>4, <3>5 DEF GeminiBlocks, AllQuiet
    <3> HIDE DEF e, q
    <3> QED  BY <1>1, <3>2, <3>3, <3>6, BegunOpened
  <2> QED  BY <1>1, <2>1, <2>2 DEF GeminiBlocks
<1>5. PICK k : Leads(h, q, k, t) /\ Begun(k) /\ GeminiBlocks(k, {}, a.st.next_block)  BY <1>4
<1> HIDE DEF q, z, o
<1>6. Leads(g, Cat(a.out, q), k, t)  BY <1>1, <1>5, LeadsJoin
<1>7. /\ b.st = z /\ b.out = Cat(a.out, q) /\ Shaped(b)  BY <1>2 DEF Shaped
<1>8. /\ GeminiIs(z) /\ z.open_block = {} /\ z.next_block = a.st.next_block
      /\ z.has_tool_call = a.st.has_tool_call /\ GeminiSame(a.st, z)
  BY <1>3 DEF GeminiIs, GeminiSame
<1>9. GeminiAcc(g, b, k, t)  BY <1>5, <1>6, <1>7, <1>8 DEF GeminiAcc
<1> QED  BY <1>7, <1>8, <1>9

(* A block of the kind asked for, opened if need be.                       *)
LEMMA GeminiEnsure ==
    ASSUME NEW g, NEW a, NEW h, NEW t, GeminiAcc(g, a, h, t), a.st.next_block <= MaxIndex,
           NEW x \in {"Text", "Reasoning"}, NEW b, b = EnsureBlock(a, x)
    PROVE  /\ \E k : GeminiAcc(g, b, k, t)
           /\ InBlock(b.st.open_block, x) /\ b.st.next_block <= a.st.next_block + 1
           /\ b.st.has_tool_call = a.st.has_tool_call /\ GeminiSame(a.st, b.st)
<1>0. /\ GeminiBlocks(h, a.st.open_block, a.st.next_block) /\ a.st.next_block \in Nat
  BY DEF GeminiAcc, GeminiBlocks
<1>1. CASE \E y \in a.st.open_block : y[1] = x
  <2>1. b = a  BY <1>1 DEF EnsureBlock
  <2>2. InBlock(a.st.open_block, x)
    <3>1. PICK i, y : a.st.open_block = {<<y, i>>}  BY <1>0, <1>1 DEF GeminiBlocks
    <3>2. y = x  BY <1>1, <3>1
    <3> QED  BY <3>1, <3>2 DEF InBlock
  <2> QED  BY <1>0, <2>1, <2>2 DEF GeminiSame
<1>2. CASE ~\E y \in a.st.open_block : y[1] = x
  <2> DEFINE c == CloseOpenBlock(a)
             n == a.st.next_block
             e == ContentBlockStart(n, x)
  <2>1. /\ \E k : GeminiAcc(g, c, k, t)
        /\ c.st.open_block = {} /\ c.st.next_block = n
        /\ c.st.has_tool_call = a.st.has_tool_call /\ GeminiSame(a.st, c.st)
    BY GeminiClose
  <2>2. b = [st |-> [c.st EXCEPT !.open_block = {<<x, c.st.next_block>>}, !.next_block = @ + 1],
             out |-> Append(c.out, ContentBlockStart(c.st.next_block, x))]
    BY <1>2 DEF EnsureBlock
  <2> HIDE DEF c
  <2>3. PICK k : GeminiAcc(g, c, k, t)  BY <2>1
  <2>4. /\ Shaped(c) /\ GeminiIs(c.st) /\ Leads(g, c.out, k, t) /\ Begun(k)
        /\ GeminiBlocks(k, {}, n)
    BY <2>1, <2>3 DEF GeminiAcc
  <2> DEFINE y == [c.st EXCEPT !.open_block = {<<x, n>>}]
             z == [y EXCEPT !.next_block = n + 1]
  <2>5. b.st = z /\ b.out = Append(c.out, e) /\ Shaped(b)  BY <2>1, <2>2 DEF Shaped
  <2>6. y = [started |-> c.st.started, stopped |-> c.st.stopped, next_block |-> n,
             open_block |-> {<<x, n>>}, has_tool_call |-> c.st.has_tool_call,
             last_usage |-> c.st.last_usage]
    BY <2>1, <2>4 DEF GeminiIs
  <2> HIDE DEF y
  <2>7. z = [started |-> c.st.started, stopped |-> c.st.stopped, next_block |-> n + 1,
             open_block |-> {<<x, n>>}, has_tool_call |-> c.st.has_tool_call,
             last_usage |-> c.st.last_usage]
    BY <2>6
  <2> HIDE DEF z
  <2>8. /\ GeminiIs(z) /\ z.open_block = {<<x, n>>} /\ z.next_block = n + 1
        /\ z.has_tool_call = a.st.has_tool_call /\ GeminiSame(a.st, z)
    BY <2>1, <2>7 DEF GeminiIs, GeminiSame
  <2>9. n \in BlockIndices /\ n + 1 \in Nat /\ n + 1 <= MaxIndex + 1
    BY <1>0, StreamingAssumption DEF BlockIndices
  <2>10. k.stage[n] = "new" /\ AllQuiet(k)
    <3>1. n >= n  BY <1>0
    <3>2. \A j \in BlockIndices : j >= n => k.stage[j] = "new"  BY <2>4 DEF GeminiBlocks
    <3> QED  BY <2>4, <2>9, <3>1, <3>2, GeminiQuiet
  <2>11. PICK m : Leads(k, <<e>>, m, t) /\ Opened(k, n, x, m)
    BY <2>4, <2>9, <2>10, BegunIn, NewBlock DEF ContentBlockKind
  <2>12. GeminiBlocks(m, {<<x, n>>}, n + 1)
    <3>1. \A j \in BlockIndices : j >= n + 1 => m.stage[j] = "new"
      BY <1>0, <2>4, <2>11 DEF GeminiBlocks, Opened, BlockIndices
    <3>2. m.stage[n] = x /\ \A j \in BlockIndices \ {n} : m.stage[j] \in {"new", "closed"}
      BY <2>10, <2>11 DEF Opened, AllQuiet
    <3> QED  BY <2>9, <3>1, <3>2 DEF GeminiBlocks
  <2> HIDE DEF e
  <2>13. Leads(g, Append(c.out, e), m, t)
    <3>1. Leads(g, Cat(c.out, <<e>>), m, t)  BY <2>4, <2>11, LeadsJoin
    <3>2. Cat(c.out, <<e>>) = Append(c.out, e)  BY <2>4 DEF Leads, Cat
    <3> QED  BY <3>1, <3>2
  <2>14. GeminiAcc(g, b, m, t)
    BY <2>4, <2>5, <2>8, <2>11, <2>12, <2>13, BegunOpened DEF GeminiAcc
  <2>15. InBlock(b.st.open_block, x)  BY <2>5, <2>8 DEF InBlock
  <2>16. n + 1 <= n + 1  BY <1>0
  <2> QED  BY <2>5, <2>8, <2>14, <2>15, <2>16
<1> QED  BY <1>1, <1>2

LEMMA GeminiFragment ==
    ASSUME NEW g, NEW a, NEW h, NEW t, GeminiAcc(g, a, h, t), a.st.next_block <= MaxIndex,
           NEW x \in {"Text", "Reasoning"}, NEW b, b = Fragment(a, x)
    PROVE  /\ \E k : GeminiAcc(g, b, k, t)
           /\ b.st.next_block <= a.st.next_block + 1
           /\ b.st.has_tool_call = a.st.has_tool_call /\ GeminiSame(a.st, b.st)
<1> DEFINE c == EnsureBlock(a, x)
<1>1. /\ \E k : GeminiAcc(g, c, k, t)
      /\ InBlock(c.st.open_block, x) /\ c.st.next_block <= a.st.next_block + 1
      /\ c.st.has_tool_call = a.st.has_tool_call /\ GeminiSame(a.st, c.st)
  BY GeminiEnsure
<1>2. b = Say(c, <<BlockEvent(DeltaOf[x], (CHOOSE y \in c.st.open_block : TRUE)[2])>>)
  BY DEF Fragment
<1> HIDE DEF c
<1>3. PICK k : GeminiAcc(g, c, k, t)  BY <1>1
<1>4. PICK i : c.st.open_block = {<<x, i>>}  BY <1>1 DEF InBlock
<1>5. (CHOOSE y \in {<<x, i>>} : TRUE) = <<x, i>>  OBVIOUS
<1> DEFINE e == BlockEvent(DeltaOf[x], i)
<1>6. b = Say(c, <<e>>)  BY <1>2, <1>4, <1>5
<1>7. /\ Shaped(c) /\ GeminiIs(c.st) /\ Leads(g, c.out, k, t) /\ Begun(k)
      /\ GeminiBlocks(k, {<<x, i>>}, c.st.next_block)
  BY <1>3, <1>4 DEF GeminiAcc
<1>8. i \in BlockIndices /\ k.stage[i] = x
  <2>1. PICK j \in BlockIndices, y \in {"Text", "Reasoning"} :
           {<<x, i>>} = {<<y, j>>} /\ k.stage[j] = y
    BY <1>7 DEF GeminiBlocks
  <2>2. <<x, i>> = <<y, j>>  BY <2>1
  <2> QED  BY <2>1, <2>2
<1>9. Leads(k, <<e>>, k, t)  BY <1>7, <1>8, BegunIn, BlockDelta DEF StageOf
<1> HIDE DEF e
<1>10. Shaped(b) /\ b.st = c.st /\ b.out = Cat(c.out, <<e>>)  BY <1>6, <1>7, Said
<1>11. Leads(g, b.out, k, t)  BY <1>7, <1>9, <1>10, LeadsJoin
<1>12. GeminiAcc(g, b, k, t)  BY <1>4, <1>7, <1>10, <1>11 DEF GeminiAcc
<1> QED  BY <1>1, <1>10, <1>12

LEMMA GeminiCall ==
    ASSUME NEW g, NEW a, NEW h, NEW t, GeminiAcc(g, a, h, t), a.st.open_block = {},
           a.st.next_block <= MaxIndex, NEW b, b = EmitToolCall(a)
    PROVE  /\ \E k : GeminiAcc(g, b, k, t)
           /\ b.st.next_block = a.st.next_block + 1
           /\ b.st.has_tool_call /\ b.st.has_tool_call \in BOOLEAN /\ GeminiSame(a.st, b.st)
<1> DEFINE i == a.st.next_block
           q == <<ContentBlockStart(i, "ToolCall"), BlockEvent("ToolCallStart", i),
                  BlockEvent("ToolCallArgumentsDelta", i)>>
           v == TRUE
           y == [a.st EXCEPT !.has_tool_call = v]
           z == [y EXCEPT !.next_block = i + 1]
<1>1. /\ Shaped(a) /\ GeminiIs(a.st) /\ Leads(g, a.out, h, t) /\ Begun(h)
      /\ GeminiBlocks(h, {}, i) /\ i \in Nat
      /\ \A j \in BlockIndices : j >= i => h.stage[j] = "new"
  BY DEF GeminiAcc, GeminiBlocks
<1>2. AllQuiet(h) /\ i \in BlockIndices /\ i + 1 \in Nat /\ i + 1 <= MaxIndex + 1
  BY <1>1, GeminiQuiet, StreamingAssumption DEF BlockIndices
<1>0. v /\ v \in BOOLEAN  OBVIOUS
<1>3. b.st = z /\ b.out = Cat(Cat(a.out, q), CloseTool(i)) /\ Shaped(b)
  BY DEF EmitToolCall, Shaped, Cat
<1> HIDE DEF v
<1>4. y = [started |-> a.st.started, stopped |-> a.st.stopped, next_block |-> i,
           open_block |-> a.st.open_block, has_tool_call |-> v, last_usage |-> a.st.last_usage]
  BY <1>1 DEF GeminiIs
<1>5. PICK m : Leads(h, q, m, t) /\ Opened(h, i, "named", m)
  BY <1>1, <1>2, BegunIn, CallLeads
<1>6. PICK k : Leads(m, CloseTool(i), k, t) /\ Opened(m, i, "closed", k)
  <2>1. InMessage(m) /\ m.stage[i] = "named"  BY <1>5 DEF Opened
  <2> QED  BY <1>2, <2>1, ClosesTool
<1> HIDE DEF y, q
<1>7. z = [started |-> a.st.started, stopped |-> a.st.stopped, next_block |-> i + 1,
           open_block |-> a.st.open_block, has_tool_call |-> v, last_usage |-> a.st.last_usage]
  BY <1>4
<1> HIDE DEF z
<1>8. /\ GeminiIs(z) /\ z.open_block = {} /\ z.next_block = i + 1 /\ z.has_tool_call = v
      /\ GeminiSame(a.st, z)
  BY <1>7 DEF GeminiIs, GeminiSame
<1>9. Opened(h, i, "closed", k) /\ Begun(k)
  BY <1>1, <1>5, <1>6, OpenedTwice, BegunOpened
<1>10. GeminiBlocks(k, {}, i + 1)
  <2>1. \A j \in BlockIndices : j >= i + 1 => k.stage[j] = "new"
    BY <1>1, <1>9 DEF Opened, BlockIndices
  <2>2. AllQuiet(k)  BY <1>2, <1>9 DEF Opened, AllQuiet
  <2> QED  BY <1>2, <2>1, <2>2 DEF GeminiBlocks
<1>11. Leads(g, b.out, k, t)
  <2>1. Leads(g, Cat(a.out, q), m, t)  BY <1>1, <1>5, LeadsJoin
  <2> QED  BY <1>3, <1>6, <2>1, LeadsJoin
<1>12. GeminiAcc(g, b, k, t)  BY <1>3, <1>8, <1>9, <1>10, <1>11 DEF GeminiAcc
<1> QED  BY <1>0, <1>3, <1>8, <1>12

LEMMA GeminiHandle ==
    ASSUME NEW g, NEW a, NEW h, NEW t, GeminiAcc(g, a, h, t), a.st.next_block <= MaxIndex,
           a.st.has_tool_call \in BOOLEAN, NEW p \in GeminiParts, NEW b, b = HandlePart(a, p),
           NEW c \in BOOLEAN, c <=> p = "call"
    PROVE  GeminiHandled(g, a, c, b, t)
<1>0. ASSUME NEW x, NEW k, GeminiAcc(g, x, k, t) PROVE x.st.next_block \in Nat
  BY <1>0 DEF GeminiAcc, GeminiBlocks
<1>1. CASE p = "call"
  <2> DEFINE d == CloseOpenBlock(a)
  <2>1. b = EmitToolCall(d)  BY <1>1 DEF HandlePart
  <2>2. /\ \E k : GeminiAcc(g, d, k, t)
        /\ d.st.open_block = {} /\ d.st.next_block = a.st.next_block /\ GeminiSame(a.st, d.st)
    BY GeminiClose
  <2> HIDE DEF d
  <2>3. PICK k : GeminiAcc(g, d, k, t)  BY <2>2
  <2>4. /\ \E m : GeminiAcc(g, b, m, t)
        /\ b.st.next_block = d.st.next_block + 1 /\ GeminiSame(d.st, b.st)
        /\ b.st.has_tool_call /\ b.st.has_tool_call \in BOOLEAN
    BY <2>1, <2>2, <2>3, GeminiCall
  <2>6. GeminiSame(a.st, b.st)  BY <2>2, <2>4 DEF GeminiSame
  <2>5. b.st.next_block <= a.st.next_block + 1  BY <1>0, <2>2, <2>3, <2>4
  <2> QED  BY <1>0, <1>1, <2>4, <2>5, <2>6 DEF GeminiHandled
<1>2. CASE p \in {"text", "thought"}
  <2>1. PICK x \in {"Text", "Reasoning"} : b = Fragment(a, x)  BY <1>2 DEF HandlePart
  <2>2. /\ \E k : GeminiAcc(g, b, k, t)
        /\ b.st.next_block <= a.st.next_block + 1
        /\ b.st.has_tool_call = a.st.has_tool_call /\ GeminiSame(a.st, b.st)
    BY <2>1, GeminiFragment
  <2> QED  BY <1>0, <1>2, <2>2 DEF GeminiHandled
<1>3. CASE p = "media"
  <2>1. b = a  BY <1>3 DEF HandlePart
  <2>2. a.st.next_block <= a.st.next_block + 1 /\ a.st.next_block \in Nat  BY <1>0
  <2> QED  BY <1>3, <2>1, <2>2 DEF GeminiHandled, GeminiSame
<1> QED  BY <1>1, <1>2, <1>3 DEF GeminiParts

LEMMA GeminiBodiesAre ==
    ASSUME NEW p \in GeminiBodies
    PROVE  /\ \/ Len(p) = 0 /\ DOMAIN p = {}
              \/ Len(p) = 1 /\ DOMAIN p = {1} /\ p[1] \in GeminiParts
              \/ Len(p) = 2 /\ DOMAIN p = {1, 2} /\ p[1] \in GeminiParts /\ p[2] \in GeminiParts
           /\ "call" \in ToSet(p) <=> \E i \in DOMAIN p : p[i] = "call"
<1>1. "call" \in ToSet(p) <=> \E i \in DOMAIN p : p[i] = "call"  BY DEF ToSet
<1>2. CASE p = <<>>  BY <1>1, <1>2
<1>3. ASSUME NEW x \in GeminiParts, p = <<x>>
      PROVE  Len(p) = 1 /\ DOMAIN p = {1} /\ p[1] \in GeminiParts
  BY <1>3
<1>4. ASSUME NEW x \in GeminiParts, NEW y \in GeminiParts, p = <<x, y>>
      PROVE  Len(p) = 2 /\ DOMAIN p = {1, 2} /\ p[1] \in GeminiParts /\ p[2] \in GeminiParts
  BY <1>4
<1> QED  BY <1>1, <1>2, <1>3, <1>4 DEF GeminiBodies, GeminiParts

LEMMA GeminiFold ==
    ASSUME NEW g, NEW a, NEW h, NEW t, GeminiAcc(g, a, h, t), a.st.has_tool_call \in BOOLEAN,
           NEW p \in GeminiBodies, a.st.next_block + Len(p) <= MaxIndex + 1,
           NEW b, b = FoldParts(a, p), NEW c \in BOOLEAN, c <=> "call" \in ToSet(p)
    PROVE  GeminiFolded(g, a, c, b, t)
<1>0. a.st.next_block \in Nat  BY DEF GeminiAcc, GeminiBlocks
<1>1. CASE Len(p) = 0
  <2>1. DOMAIN p = {} /\ ~c  BY <1>1, GeminiBodiesAre
  <2>2. b = a  BY <2>1, FoldPartsAre
  <2> QED  BY <2>1, <2>2 DEF GeminiFolded, GeminiSame
<1> DEFINE x == HandlePart(a, p[1])
           d == p[1] = "call"
<1>2. ASSUME Len(p) # 0 PROVE GeminiHandled(g, a, d, x, t)
  <2>1. p[1] \in GeminiParts /\ a.st.next_block <= MaxIndex /\ d \in BOOLEAN
    BY <1>0, <1>2, GeminiBodiesAre, StreamingAssumption
  <2> QED  BY <2>1, GeminiHandle
<1>3. CASE Len(p) = 1
  <2>1. DOMAIN p = {1} /\ (c <=> d)  BY <1>3, GeminiBodiesAre
  <2>2. b = x  BY <2>1, FoldPartsAre
  <2> QED  BY <1>2, <1>3, <2>1, <2>2 DEF GeminiHandled, GeminiFolded
<1>4. CASE Len(p) = 2
  <2> DEFINE e == p[2] = "call"
  <2>1. DOMAIN p = {1, 2} /\ (c <=> d \/ e) /\ p[2] \in GeminiParts /\ e \in BOOLEAN
    BY <1>4, GeminiBodiesAre
  <2>2. b = HandlePart(x, p[2])
    <3>1. {1, 2} # {} /\ {1, 2} # {1}  OBVIOUS
    <3>2. FoldParts(a, p) = HandlePart(HandlePart(a, p[1]), p[2])  BY <2>1, <3>1, FoldPartsAre
    <3> QED  BY <3>2
  <2>3. e <=> p[2] = "call"  OBVIOUS
  <2> HIDE DEF d, x, e
  <2>4. GeminiHandled(g, a, d, x, t)  BY <1>2, <1>4
  <2>5. PICK k : GeminiAcc(g, x, k, t)  BY <2>4 DEF GeminiHandled
  <2>6. x.st.next_block <= MaxIndex /\ x.st.has_tool_call \in BOOLEAN
    BY <1>0, <1>4, <2>4, StreamingAssumption DEF GeminiHandled
  <2>7. GeminiHandled(g, x, e, b, t)  BY <2>1, <2>2, <2>3, <2>5, <2>6, GeminiHandle
  <2>8. GeminiSame(a.st, b.st)  BY <2>4, <2>7 DEF GeminiHandled, GeminiSame
  <2>9. b.st.has_tool_call <=> a.st.has_tool_call \/ c  BY <2>1, <2>4, <2>7 DEF GeminiHandled
  <2> QED  BY <2>7, <2>8, <2>9 DEF GeminiHandled, GeminiFolded
<1> QED  BY <1>1, <1>3, <1>4, GeminiBodiesAre

LEMMA GeminiStops ==
    ASSUME NEW g, NEW a, NEW h, NEW t, GeminiAcc(g, a, h, t), NEW r \in StopReason, Honest(r, t),
           GeminiUsage(a.st.last_usage, t.tokens), NEW b, b = Stop(a, r)
    PROVE  /\ \E k : Leads(g, b.out, k, t) /\ Ended(k) /\ "ResponseStart" \in k.seen
           /\ GeminiIs(b.st) /\ b.st.started = a.st.started
<1> DEFINE c == CloseOpenBlock(a)
           v == TRUE
           x == c.st.last_usage
           q == <<MessageStop(r), ResponseStop(x)>>
           y == [c.st EXCEPT !.stopped = v]
           z == [y EXCEPT !.last_usage = {}]
<1>1. /\ \E k : GeminiAcc(g, c, k, t)
      /\ c.st.open_block = {} /\ GeminiSame(a.st, c.st)
  BY GeminiClose
<1>2. b.st = z /\ b.out = Cat(c.out, q)  BY DEF Stop, Cat
<1> HIDE DEF c, v
<1>3. PICK k : GeminiAcc(g, c, k, t)  BY <1>1
<1>4. /\ GeminiIs(c.st) /\ Leads(g, c.out, k, t) /\ Begun(k) /\ AllQuiet(k)
  BY <1>1, <1>3, GeminiQuiet DEF GeminiAcc
<1>5. x \in OneOf(Nat) /\ Sums(k, x, t)
  BY <1>1, <1>4 DEF GeminiSame, GeminiUsage, OneOf, Sums, Begun
<1> HIDE DEF x
<1>6. PICK m : Leads(k, q, m, t) /\ Ended(m) /\ "ResponseStart" \in m.seen
  BY <1>4, <1>5, EndsResponse DEF Begun, EndedFrom
<1>7. y = [started |-> c.st.started, stopped |-> v, next_block |-> c.st.next_block,
           open_block |-> c.st.open_block, has_tool_call |-> c.st.has_tool_call,
           last_usage |-> c.st.last_usage]
  BY <1>4 DEF GeminiIs
<1> HIDE DEF y, q
<1>8. z = [started |-> c.st.started, stopped |-> v, next_block |-> c.st.next_block,
           open_block |-> c.st.open_block, has_tool_call |-> c.st.has_tool_call,
           last_usage |-> {}]
  BY <1>7
<1> HIDE DEF z
<1>9. GeminiIs(z) /\ z.started = c.st.started  BY <1>8 DEF GeminiIs
<1>10. Leads(g, b.out, m, t)  BY <1>2, <1>4, <1>6, LeadsJoin
<1> QED  BY <1>1, <1>2, <1>6, <1>9, <1>10 DEF GeminiSame

LEMMA GeminiThrough ==
    ASSUME NEW st, NEW h, NEW u, GeminiBack(st, h, u)
    PROVE  Through("gemini", h, u)
<1>1. h \in Account /\ u.tokens \in Nat  BY DEF GeminiBack
<1>2. CASE "ResponseStop" \in h.seen  BY <1>1, <1>2 DEF GeminiBack, Ended, Through
<1>3. CASE "ResponseStop" \notin h.seen /\ u.phase = "gone"
  <2>1. h.seen = {} /\ GeminiBlocks(h, {}, st.next_block)
    BY <1>3 DEF GeminiBack, GeminiOpenly
  <2>2. AllQuiet(h)  BY <2>1, GeminiQuiet
  <2> QED  BY <1>1, <2>1, <2>2 DEF Through
<1> QED  BY <1>1, <1>2, <1>3 DEF Through

LEMMA GeminiBegins ==
    ASSUME NEW u, u = [phase |-> "idle", open |-> <<>>, next |-> 0, tokens |-> 0,
                       called |-> FALSE, reason |-> "none", reasoned |-> FALSE]
    PROVE  GeminiBack(GeminiInit, NoAccount, u)
<1>1. /\ NoAccount \in Account /\ NoAccount.seen = {} /\ NoAccount.stop = {} /\ NoAccount.spent = 0
      /\ \A i \in BlockIndices : NoAccount.stage[i] = "new"
  BY NothingYet DEF Sound, NoAccount
<1> DEFINE st == GeminiInit
<1>2. /\ GeminiIs(st) /\ ~st.started /\ ~st.stopped /\ st.next_block = 0 /\ st.open_block = {}
      /\ ~st.has_tool_call /\ st.has_tool_call \in BOOLEAN /\ st.last_usage = {}
  BY DEF GeminiInit, GeminiIs
<1> HIDE DEF st
<1>3. /\ u.tokens = 0 /\ ~u.called /\ u.called \in BOOLEAN /\ ~u.reasoned /\ u.reasoned \in BOOLEAN
      /\ u.phase = "idle"
  OBVIOUS
<1>4. GeminiBlocks(NoAccount, {}, 0)
  BY <1>1, StreamingAssumption DEF GeminiBlocks, AllQuiet
<1>5. GeminiOpenly(st, NoAccount, u)
  BY <1>1, <1>2, <1>3, <1>4 DEF GeminiOpenly, GeminiUsage
<1> QED  BY <1>1, <1>2, <1>3, <1>5 DEF GeminiBack, st

(* Where a response leaves the upstream.                                   *)
LEMMA FollowResponse ==
    ASSUME NEW in, in.kind = "response", in.candidate \in BOOLEAN, NEW u, u = Follow(in)
    PROVE  /\ u.tokens = Latest(up.tokens, in.usage)
           /\ u.called \in BOOLEAN /\ u.reasoned \in BOOLEAN
           /\ u.called <=> up.called \/ (in.candidate /\ "call" \in ToSet(in.parts))
           /\ u.reasoned <=> up.reasoned \/ (in.candidate /\ in.finish # {})
           /\ u.phase = "gone" => up.phase = "gone"
           /\ \A f : in.candidate /\ in.finish = {f} => u.reason = Means(f)
<1>1. Told(in) = in.usage  BY DEF Told
<1>2. Finishing(in) <=> in.candidate /\ in.finish # {}  BY DEF Finishing
<1>3. u.phase = "gone" => up.phase = "gone"  BY DEF Follow
<1>4. u.tokens = Latest(up.tokens, in.usage)  BY <1>1 DEF Follow, Latest
<1>5. /\ u.called \in BOOLEAN
      /\ u.called <=> up.called \/ (in.candidate /\ "call" \in ToSet(in.parts))
  BY DEF Follow
<1>6. u.reasoned \in BOOLEAN /\ (u.reasoned <=> up.reasoned \/ (in.candidate /\ in.finish # {}))
  BY <1>2 DEF Follow
<1>7. in.candidate => ReasonIn(in) = in.finish  BY DEF ReasonIn
<1>8. \A f : in.candidate /\ in.finish = {f} => u.reason = Means(f)  BY <1>7, FollowReason
<1> QED  BY <1>3, <1>4, <1>5, <1>6, <1>8

LEMMA GeminiBegan1 ==
    ASSUME NEW s, GeminiIs(s), NEW h \in Account, NEW u, GeminiOpenly(s, h, u), NEW t,
           NEW b, b = GeminiBegan(s)
    PROVE  /\ \E k : GeminiAcc(h, b, k, t)
           /\ b.st.started /\ ~b.st.stopped /\ b.st.last_usage = s.last_usage
           /\ b.st.has_tool_call = s.has_tool_call /\ b.st.next_block = s.next_block
<1>1. CASE s.started
  <2>1. b = Start(s)  BY <1>1 DEF GeminiBegan
  <2>2. b.st = s /\ b.out = <<>> /\ Shaped(b)  BY <2>1 DEF Start, Shaped
  <2>3. Begun(h) /\ GeminiBlocks(h, s.open_block, s.next_block)
    BY <1>1 DEF GeminiOpenly, Begun
  <2>4. GeminiAcc(h, b, h, t)  BY <2>2, <2>3, LeadsNothing DEF GeminiAcc
  <2> QED  BY <1>1, <2>2, <2>4 DEF GeminiOpenly
<1>2. CASE ~s.started
  <2> DEFINE v == TRUE
             z == [s EXCEPT !.started = v]
             q == <<ResponseStart, MessageStart>>
  <2>1. b = [st |-> z, out |-> q] /\ v  BY <1>2 DEF GeminiBegan
  <2> HIDE DEF v
  <2>2. z = [started |-> v, stopped |-> s.stopped, next_block |-> s.next_block,
             open_block |-> s.open_block, has_tool_call |-> s.has_tool_call,
             last_usage |-> s.last_usage]
    BY DEF GeminiIs
  <2>3. /\ h.seen = {} /\ h.stop = {} /\ h.spent = 0 /\ s.open_block = {} /\ ~s.stopped
        /\ GeminiBlocks(h, {}, s.next_block)
    BY <1>2 DEF GeminiOpenly
  <2>4. PICK k \in Account : /\ Leads(h, q, k, t) /\ k.seen = {"ResponseStart", "MessageStart"}
                             /\ k.stage = h.stage /\ k.stop = h.stop /\ k.spent = h.spent
    BY <2>3, OpensResponse
  <2> HIDE DEF z, q
  <2>5. /\ GeminiIs(z) /\ z.open_block = {} /\ z.next_block = s.next_block /\ z.started = v
        /\ z.stopped = s.stopped /\ z.has_tool_call = s.has_tool_call
        /\ z.last_usage = s.last_usage
    BY <2>2, <2>3 DEF GeminiIs
  <2>6. b.st = z /\ b.out = q /\ Shaped(b)  BY <2>1 DEF Shaped
  <2>7. AllQuiet(h)  BY <2>3, GeminiQuiet
  <2>8. GeminiBlocks(k, {}, s.next_block)
    BY <2>3, <2>4, <2>7 DEF GeminiBlocks, AllQuiet
  <2>9. Begun(k)  BY <2>3, <2>4 DEF Begun
  <2>10. GeminiAcc(h, b, k, t)  BY <2>4, <2>5, <2>6, <2>8, <2>9 DEF GeminiAcc
  <2> QED  BY <2>1, <2>3, <2>5, <2>6, <2>10
<1> QED  BY <1>1, <1>2

LEMMA GeminiTold1 ==
    ASSUME NEW s, GeminiIs(s), NEW h \in Account, NEW u, GeminiOpenly(s, h, u), NEW t,
           NEW x \in OneOf(Nat), NEW b, b = GeminiTold(s, x), u.tokens \in Nat
    PROVE  /\ \E k : GeminiAcc(h, b, k, t)
           /\ b.st.started /\ ~b.st.stopped
           /\ GeminiUsage(b.st.last_usage, Latest(u.tokens, x))
           /\ b.st.has_tool_call = s.has_tool_call /\ b.st.next_block = s.next_block
<1> DEFINE c == GeminiBegan(s)
           y == IF x = {} THEN c.st.last_usage ELSE x
           z == [c.st EXCEPT !.last_usage = y]
<1>1. /\ \E k : GeminiAcc(h, c, k, t)
      /\ c.st.started /\ ~c.st.stopped /\ c.st.last_usage = s.last_usage
      /\ c.st.has_tool_call = s.has_tool_call /\ c.st.next_block = s.next_block
  BY GeminiBegan1
<1>2. b = [c EXCEPT !.st.last_usage = IF x = {} THEN @ ELSE x]  BY DEF GeminiTold
<1> HIDE DEF c
<1>3. PICK k : GeminiAcc(h, c, k, t)  BY <1>1
<1>4. Shaped(c) /\ GeminiIs(c.st)  BY <1>3 DEF GeminiAcc
<1>5. b = [st |-> z, out |-> c.out]  BY <1>2, <1>4 DEF Shaped
<1>6. GeminiUsage(y, Latest(u.tokens, x))
  <2>1. GeminiUsage(s.last_usage, u.tokens)  BY DEF GeminiOpenly
  <2>2. CASE x = {}  BY <1>1, <2>1, <2>2 DEF Latest
  <2>3. ASSUME NEW n \in Nat, x = {n} PROVE GeminiUsage(y, Latest(u.tokens, x))
    <3>1. (CHOOSE m \in {n} : TRUE) = n  OBVIOUS
    <3>2. Latest(u.tokens, x) = n /\ y = {n}  BY <2>3, <3>1 DEF Latest
    <3> QED  BY <3>2 DEF GeminiUsage
  <2> QED  BY <2>2, <2>3 DEF OneOf
<1> HIDE DEF y
<1>7. z = [started |-> c.st.started, stopped |-> c.st.stopped, next_block |-> c.st.next_block,
           open_block |-> c.st.open_block, has_tool_call |-> c.st.has_tool_call, last_usage |-> y]
  BY <1>4 DEF GeminiIs
<1> HIDE DEF z
<1>8. /\ GeminiIs(z) /\ z.open_block = c.st.open_block /\ z.next_block = c.st.next_block
      /\ z.started = c.st.started /\ z.stopped = c.st.stopped /\ z.last_usage = y
      /\ z.has_tool_call = c.st.has_tool_call
  BY <1>7 DEF GeminiIs
<1>9. b.st = z /\ b.out = c.out /\ Shaped(b)  BY <1>5 DEF Shaped
<1>10. GeminiAcc(h, b, k, t)  BY <1>3, <1>8, <1>9 DEF GeminiAcc
<1> QED  BY <1>1, <1>6, <1>8, <1>9, <1>10

LEMMA GeminiReason ==
    ASSUME NEW f \in GeminiReasons, NEW c \in BOOLEAN, NEW r, r = MapFinishReason(f, c)
    PROVE  r \in StopReason /\ Sense(r) = IF c THEN "tools" ELSE Means(f)
BY DEF MapFinishReason, StopReason, GeminiReasons, Sense, Means

LEMMA GeminiFeedResponse ==
    ASSUME NEW h, GeminiBack(parser, h, up), "ResponseStop" \notin h.seen, up.phase # "gone",
           NEW in, in.kind = "response", in.candidate \in BOOLEAN, in.parts \in GeminiBodies,
           parser.next_block + Len(in.parts) <= MaxIndex + 1, GeminiCounts(in.usage),
           in.finish \in OneOf(GeminiReasons),
           NEW u, u = Follow(in), NEW r, r = GeminiResponse(parser, in)
    PROVE  GeminiFed(h, r, u)
<1> DEFINE t == Terms("gemini", u)
           a == GeminiTold(parser, in.usage)
           b == FoldParts(a, in.parts)
           c == "call" \in ToSet(in.parts)
           x == CHOOSE y \in in.finish : TRUE
           w == MapFinishReason(x, b.st.has_tool_call)
<1>1. /\ GeminiIs(parser) /\ h \in Account /\ GeminiOpenly(parser, h, up) /\ up.tokens \in Nat
      /\ up.called \in BOOLEAN /\ ~up.reasoned /\ ~parser.stopped
      /\ parser.has_tool_call \in BOOLEAN /\ (parser.has_tool_call <=> up.called)
  BY DEF GeminiBack, GeminiOpenly
<1>2. /\ u.tokens = Latest(up.tokens, in.usage)
      /\ u.called \in BOOLEAN /\ u.reasoned \in BOOLEAN
      /\ u.called <=> up.called \/ (in.candidate /\ c)
      /\ u.reasoned <=> up.reasoned \/ (in.candidate /\ in.finish # {})
      /\ u.phase # "gone" /\ \A f : in.candidate /\ in.finish = {f} => u.reason = Means(f)
  BY FollowResponse
<1>3. in.usage \in OneOf(Nat)  BY StreamingAssumption DEF GeminiCounts, TokenCounts, OneOf
<1>4. /\ ~in.candidate => r = a
      /\ in.candidate /\ in.finish = {} => r = b
      /\ in.candidate /\ in.finish # {} => r = Stop(b, w)
  BY <1>1 DEF GeminiResponse, GeminiTold, GeminiBegan, FoldParts
<1>5. /\ \E k : GeminiAcc(h, a, k, t)
      /\ a.st.started /\ ~a.st.stopped /\ GeminiUsage(a.st.last_usage, Latest(up.tokens, in.usage))
      /\ a.st.has_tool_call = parser.has_tool_call /\ a.st.next_block = parser.next_block
  BY <1>1, <1>3, GeminiTold1
<1>6. t.tokens = u.tokens /\ (t.final <=> u.reasoned) /\ t.due = IF u.called THEN "tools" ELSE u.reason
  BY DEF Terms, Due
<1>7. c \in BOOLEAN /\ (c <=> "call" \in ToSet(in.parts))  OBVIOUS
<1>8. b = FoldParts(a, in.parts)  OBVIOUS
<1>9. w = MapFinishReason(x, b.st.has_tool_call)  OBVIOUS
<1> HIDE DEF a, b, c, w
<1>10. GeminiFolded(h, a, c, b, t)
  <2>1. PICK k : GeminiAcc(h, a, k, t)  BY <1>5
  <2>2. a.st.has_tool_call \in BOOLEAN /\ a.st.next_block + Len(in.parts) <= MaxIndex + 1
    BY <1>1, <1>5
  <2> QED  BY <1>7, <1>8, <2>1, <2>2, GeminiFold
<1>11. /\ GeminiUsage(a.st.last_usage, u.tokens) /\ u.tokens \in Nat
  BY <1>2, <1>5 DEF GeminiUsage
<1>12. ASSUME NEW y, NEW k, GeminiAcc(h, y, k, t), GeminiUsage(y.st.last_usage, u.tokens),
              y.st.started, ~y.st.stopped, y.st.has_tool_call \in BOOLEAN,
              y.st.has_tool_call <=> u.called, ~u.reasoned, r = y
       PROVE  GeminiFed(h, r, u)
  <2>1. /\ GeminiIs(y.st) /\ Leads(h, y.out, k, t) /\ Begun(k)
        /\ GeminiBlocks(k, y.st.open_block, y.st.next_block)
    BY <1>12 DEF GeminiAcc
  <2>2. k \in Account /\ k.seen = {"ResponseStart", "MessageStart"} /\ k.stop = {} /\ k.spent = 0
    BY <2>1 DEF Begun
  <2>3. GeminiOpenly(y.st, k, u)  BY <1>12, <2>1, <2>2 DEF GeminiOpenly
  <2>4. "ResponseStop" \notin k.seen  BY <2>2
  <2>5. GeminiBack(y.st, k, u)  BY <1>2, <1>11, <2>1, <2>2, <2>3, <2>4 DEF GeminiBack
  <2> QED  BY <1>12, <2>1, <2>5 DEF GeminiFed, t
<1>13. CASE ~in.candidate
  <2>1. PICK k : GeminiAcc(h, a, k, t)  BY <1>5
  <2>2. ~u.reasoned /\ (a.st.has_tool_call <=> u.called) /\ a.st.has_tool_call \in BOOLEAN
    BY <1>1, <1>2, <1>5, <1>13
  <2> QED  BY <1>4, <1>5, <1>11, <1>12, <1>13, <2>1, <2>2
<1>14. CASE in.candidate
  <2>1. PICK k : GeminiAcc(h, b, k, t)  BY <1>10 DEF GeminiFolded
  <2>2. /\ b.st.has_tool_call \in BOOLEAN /\ (b.st.has_tool_call <=> u.called)
        /\ GeminiSame(a.st, b.st)
    BY <1>1, <1>2, <1>5, <1>10, <1>14 DEF GeminiFolded
  <2>3. GeminiUsage(b.st.last_usage, u.tokens) /\ b.st.started /\ ~b.st.stopped
    BY <1>5, <1>11, <2>2 DEF GeminiSame
  <2>4. CASE in.finish = {}
    <3>1. ~u.reasoned  BY <1>1, <1>2, <2>4
    <3> QED  BY <1>4, <1>12, <1>14, <2>1, <2>2, <2>3, <2>4, <3>1
  <2>5. CASE in.finish # {}
    <3>1. PICK f \in GeminiReasons : in.finish = {f}  BY <2>5 DEF OneOf
    <3>2. (CHOOSE y \in {f} : TRUE) = f  OBVIOUS
    <3>3. x = f  BY <3>1, <3>2
    <3>4. w \in StopReason /\ Sense(w) = IF b.st.has_tool_call THEN "tools" ELSE Means(f)
      BY <1>9, <2>2, <3>3, GeminiReason
    <3>5. Honest(w, t) /\ GeminiUsage(b.st.last_usage, t.tokens)
      BY <1>2, <1>6, <1>14, <2>2, <2>3, <3>1, <3>4 DEF Honest
    <3>6. r = Stop(b, w)  BY <1>4, <1>14, <2>5
    <3> HIDE DEF t, x
    <3>7. /\ \E m : Leads(h, r.out, m, t) /\ Ended(m) /\ "ResponseStart" \in m.seen
          /\ GeminiIs(r.st)
      BY <2>1, <3>4, <3>5, <3>6, GeminiStops
    <3>8. PICK m : Leads(h, r.out, m, t) /\ Ended(m)  BY <3>7
    <3>9. m \in Account /\ "ResponseStop" \in m.seen  BY <3>8 DEF Ended
    <3>10. GeminiBack(r.st, m, u)  BY <1>2, <1>11, <3>7, <3>8, <3>9 DEF GeminiBack
    <3> QED  BY <3>8, <3>10 DEF GeminiFed, t
  <2> QED  BY <2>4, <2>5
<1> QED  BY <1>13, <1>14

LEMMA GeminiFeedEof ==
    ASSUME NEW h, GeminiBack(parser, h, up), "ResponseStop" \notin h.seen,
           NEW u, u.phase = "gone", u.tokens = up.tokens, u.called = up.called,
           u.reason = up.reason, u.reasoned = up.reasoned, NEW r, r = GeminiFinalize(parser)
    PROVE  GeminiFed(h, r, u)
<1> DEFINE t == Terms("gemini", u)
           a == Start(parser)
           w == IF parser.has_tool_call THEN "ToolUse" ELSE "EndTurn"
<1>1. /\ GeminiIs(parser) /\ h \in Account /\ GeminiOpenly(parser, h, up) /\ up.tokens \in Nat
      /\ up.called \in BOOLEAN /\ up.reasoned \in BOOLEAN
      /\ ~up.reasoned /\ ~parser.stopped /\ GeminiUsage(parser.last_usage, up.tokens)
  BY DEF GeminiBack, GeminiOpenly
<1>2. a.st = parser /\ a.out = <<>> /\ Shaped(a)  BY DEF Start, Shaped
<1>3. ~t.final /\ t.tokens = up.tokens  BY <1>1 DEF Terms
<1>4. CASE ~parser.started
  <2>1. r = Start(parser)  BY <1>4 DEF GeminiFinalize
  <2>2. r.st = parser /\ Leads(h, r.out, h, t)  BY <2>1, MishapLeads DEF Mishap
  <2>3. h.seen = {}  BY <1>1, <1>4 DEF GeminiOpenly
  <2>4. GeminiOpenly(parser, h, u)  BY <1>1 DEF GeminiOpenly
  <2>5. GeminiBack(parser, h, u)  BY <1>1, <2>3, <2>4 DEF GeminiBack
  <2> QED  BY <2>2, <2>5 DEF GeminiFed
<1>5. CASE parser.started
  <2>1. r = Stop(a, w)  BY <1>1, <1>5 DEF GeminiFinalize
  <2>2. Begun(h) /\ GeminiBlocks(h, parser.open_block, parser.next_block)
    BY <1>1, <1>5 DEF GeminiOpenly, Begun
  <2>3. GeminiAcc(h, a, h, t)  BY <1>1, <1>2, <2>2, LeadsNothing DEF GeminiAcc
  <2>4. w \in StopReason /\ Honest(w, t)  BY <1>3 DEF StopReason, Honest
  <2> HIDE DEF t, a, w
  <2>5. /\ \E m : Leads(h, r.out, m, t) /\ Ended(m) /\ "ResponseStart" \in m.seen
        /\ GeminiIs(r.st)
    BY <1>1, <1>2, <1>3, <2>1, <2>3, <2>4, GeminiStops
  <2>6. PICK m : Leads(h, r.out, m, t) /\ Ended(m)  BY <2>5
  <2>7. m \in Account /\ "ResponseStop" \in m.seen  BY <2>6 DEF Ended
  <2>8. GeminiBack(r.st, m, u)  BY <1>1, <2>5, <2>6, <2>7 DEF GeminiBack
  <2> QED  BY <2>6, <2>8 DEF GeminiFed, t
<1> QED  BY <1>4, <1>5

LEMMA GeminiOffered ==
    ASSUME NEW in \in GeminiOffers
    PROVE  /\ in.kind = "response" /\ in.candidate \in BOOLEAN /\ in.parts \in GeminiBodies
           /\ parser.next_block + Len(in.parts) <= MaxIndex + 1
           /\ in.finish \in OneOf(GeminiReasons) /\ GeminiCounts(in.usage)
<1> DEFINE F == OneOf(GeminiReasons)
           U == {{}} \cup {{n} : n \in {m \in TokenCounts : m >= up.tokens}}
           P == {q \in GeminiBodies : parser.next_block + Len(q) <= MaxIndex + 1}
<1>1. GeminiOffers =
        {[kind |-> "response", parts |-> p, finish |-> f, usage |-> u, candidate |-> c] :
           p \in P, f \in F, u \in U, c \in BOOLEAN}
  BY DEF GeminiOffers, GeminiBodies, OneOf
<1>2. \A x \in U : GeminiCounts(x)  BY DEF GeminiCounts
<1>3. \A p \in P : p \in GeminiBodies /\ parser.next_block + Len(p) <= MaxIndex + 1  OBVIOUS
<1> HIDE DEF F, U, P
<1>4. PICK p \in P, f \in F, x \in U, c \in BOOLEAN :
         in = [kind |-> "response", parts |-> p, finish |-> f, usage |-> x, candidate |-> c]
  BY <1>1
<1>5. /\ in.kind = "response" /\ in.candidate = c /\ in.parts = p /\ in.finish = f /\ in.usage = x
  BY <1>4
<1> QED  BY <1>2, <1>3, <1>5 DEF F

(* The Gemini parser, whatever the upstream does next.                     *)
LEMMA GeminiFeed ==
    ASSUME NEW h, GeminiBack(parser, h, up), "ResponseStop" \notin h.seen, up.phase # "gone",
           NEW in, provider = "gemini",
           NEW u, \/ in \in GeminiOffers /\ u = Follow(in)
                  \/ in \in Faults /\ u = up
                  \/ in = [kind |-> "eof"] /\ u.phase = "gone",
           u.phase = "gone" => u.tokens = up.tokens /\ u.called = up.called /\ u.reason = up.reason
                               /\ u.reasoned = up.reasoned,
           NEW r, r = GeminiInput(parser, in)
    PROVE  GeminiFed(h, r, u) /\ h.stop = {}
<1>1. h.stop = {}  BY DEF GeminiBack, GeminiOpenly
<1>2. CASE in \in Faults /\ u = up
  <2>1. in.kind \in {"broken", "garbage"}  BY <1>2 DEF Faults
  <2>2. Mishap(r, parser)  BY <2>1 DEF Mishap, GeminiInput
  <2> QED  BY <1>1, <1>2, <2>2, MishapLeads DEF GeminiFed
<1>3. CASE in = [kind |-> "eof"] /\ u.phase = "gone"
  <2>1. r = GeminiFinalize(parser)  BY <1>3 DEF GeminiInput
  <2> QED  BY <1>1, <1>3, <2>1, GeminiFeedEof
<1>4. CASE in \in GeminiOffers /\ u = Follow(in)
  <2>1. /\ in.kind = "response" /\ in.candidate \in BOOLEAN /\ in.parts \in GeminiBodies
        /\ parser.next_block + Len(in.parts) <= MaxIndex + 1
        /\ in.finish \in OneOf(GeminiReasons) /\ GeminiCounts(in.usage)
    BY <1>4, GeminiOffered
  <2>2. r = GeminiResponse(parser, in)  BY <2>1 DEF GeminiInput
  <2> QED  BY <1>1, <1>4, <2>1, <2>2, GeminiFeedResponse
<1> QED  BY <1>2, <1>3, <1>4
-----------------------------------------------------------------------------
(* The parsers that keep the envelope's flags.                             *)
LEMMA EnsureIs ==
    ASSUME NEW a, Shaped(a), NEW f \in EnvelopeFlags, f \in DOMAIN a.st, NEW e,
           NEW b, b = Ensure(a, f, e), ~a.st[f]
    PROVE  /\ Shaped(b) /\ b.out = Append(a.out, e) /\ SameRest(a.st, b.st) /\ b.st[f]
           /\ \A x \in EnvelopeFlags \ {f} : x \in DOMAIN a.st => b.st[x] = a.st[x]
<1> DEFINE z == [a.st EXCEPT ![f] = TRUE]
<1>1. b = [st |-> z, out |-> Append(a.out, e)]  BY DEF Ensure
<1>2. DOMAIN z = DOMAIN a.st /\ z[f] /\ \A x \in DOMAIN a.st \ {f} : z[x] = a.st[x]  OBVIOUS
<1> HIDE DEF z
<1>3. Shaped(b) /\ b.out = Append(a.out, e) /\ b.st = z  BY <1>1 DEF Shaped
<1> QED  BY <1>2, <1>3 DEF SameRest

LEMMA EnsuresStart ==
    ASSUME NEW g, NEW a, NEW h, NEW t, Ahead(g, a, h, t),
           h.seen = {} \/ "ResponseStart" \in h.seen,
           NEW b, b = Ensure(a, "response_start", ResponseStart)
    PROVE  \E k : /\ AheadTo(g, a, h, b, k, t) /\ k.stop = h.stop
                  /\ k.seen = h.seen \cup {"ResponseStart"}
<1> USE DEF Ahead, AheadTo
<1>1. CASE "ResponseStart" \in h.seen
  <2>1. b = a  BY <1>1 DEF Ensure, Enveloped
  <2>2. h.seen = h.seen \cup {"ResponseStart"}  BY <1>1
  <2> QED  BY <2>1, <2>2 DEF SameRest
<1>2. CASE h.seen = {}
  <2> DEFINE k == WithSeen(h, "ResponseStart")
  <2>1. h \in Account /\ "response_start" \in DOMAIN a.st /\ ~a.st["response_start"]
    BY <1>2 DEF Enveloped, EnvelopeFlags
  <2>2. /\ Shaped(b) /\ b.out = Append(a.out, ResponseStart) /\ SameRest(a.st, b.st)
        /\ b.st["response_start"]
        /\ \A x \in EnvelopeFlags \ {"response_start"} : x \in DOMAIN a.st => b.st[x] = a.st[x]
    BY <2>1, EnsureIs DEF EnvelopeFlags
  <2>3. Leads(g, b.out, k, t)  BY <1>2, <2>1, <2>2, MoveResponseStart, MovesOut
  <2>4. /\ k \in Account /\ k.stage = h.stage /\ k.spent = h.spent /\ k.stop = h.stop
        /\ k.seen = h.seen \cup {"ResponseStart"}
    BY <2>1, MoveTypes DEF WithSeen, Envelopes
  <2> HIDE DEF k
  <2>5. Enveloped(b.st, k)  BY <1>2, <2>2, <2>4 DEF Enveloped, EnvelopeFlags, SameRest
  <2> QED  BY <2>2, <2>3, <2>4, <2>5
<1> QED  BY <1>1, <1>2

LEMMA EnsuresMessage ==
    ASSUME NEW g, NEW a, NEW h, NEW t, Ahead(g, a, h, t),
           h.seen = {"ResponseStart"} \/ "MessageStart" \in h.seen,
           NEW b, b = EnsureMessageStart(a)
    PROVE  \E k : /\ AheadTo(g, a, h, b, k, t) /\ k.stop = h.stop
                  /\ k.seen = h.seen \cup {"MessageStart"}
<1> USE DEF Ahead, AheadTo
<1>1. CASE "MessageStart" \in h.seen
  <2>1. b = a  BY <1>1 DEF Ensure, EnsureMessageStart, Enveloped
  <2>2. h.seen = h.seen \cup {"MessageStart"}  BY <1>1
  <2> QED  BY <2>1, <2>2 DEF SameRest
<1>2. CASE h.seen = {"ResponseStart"}
  <2> DEFINE k == WithSeen(h, "MessageStart")
  <2>1. h \in Account /\ "message_start" \in DOMAIN a.st /\ ~a.st["message_start"]
    BY <1>2 DEF Enveloped, EnvelopeFlags
  <2>2. /\ Shaped(b) /\ b.out = Append(a.out, MessageStart) /\ SameRest(a.st, b.st)
        /\ b.st["message_start"]
        /\ \A x \in EnvelopeFlags \ {"message_start"} : x \in DOMAIN a.st => b.st[x] = a.st[x]
    BY <2>1, EnsureIs DEF EnvelopeFlags, EnsureMessageStart
  <2>3. Leads(g, b.out, k, t)  BY <1>2, <2>1, <2>2, MoveMessageStart, MovesOut
  <2>4. /\ k \in Account /\ k.stage = h.stage /\ k.spent = h.spent /\ k.stop = h.stop
        /\ k.seen = h.seen \cup {"MessageStart"}
    BY <2>1, MoveTypes DEF WithSeen, Envelopes
  <2> HIDE DEF k
  <2>5. Enveloped(b.st, k)  BY <1>2, <2>2, <2>4 DEF Enveloped, EnvelopeFlags, SameRest
  <2> QED  BY <2>2, <2>3, <2>4, <2>5
<1> QED  BY <1>1, <1>2

(* The end of a response in which nothing is open, from wherever it is.    *)
LEMMA EnsuresEnd ==
    ASSUME NEW g, NEW a, NEW h, NEW t, Ahead(g, a, h, t), AllQuiet(h),
           "ResponseStart" \in h.seen, "ResponseStop" \notin h.seen, h.spent = t.tokens,
           "MessageStop" \in h.seen \/ Honest("EndTurn", t),
           NEW m, m = Ensure(a, "message_stop", MessageStop("EndTurn")),
           NEW b, b = Ensure(m, "response_stop", ResponseStop({}))
    PROVE  \E k : /\ AheadTo(g, a, h, b, k, t)
                  /\ k.seen = h.seen \cup {"MessageStop", "ResponseStop"}
                  /\ "MessageStop" \in h.seen => k.stop = h.stop
<1> USE DEF Ahead, AheadTo
<1>1. \E k : /\ AheadTo(g, a, h, m, k, t) /\ k.seen = h.seen \cup {"MessageStop"}
             /\ "MessageStop" \in h.seen => k.stop = h.stop
  <2>1. CASE "MessageStop" \in h.seen
    <3>1. m = a  BY <2>1 DEF Ensure, Enveloped
    <3>2. h.seen = h.seen \cup {"MessageStop"}  BY <2>1
    <3> QED  BY <3>1, <3>2 DEF SameRest
  <2>2. CASE "MessageStop" \notin h.seen
    <3> DEFINE k == WithStop(h, "EndTurn")
               e == MessageStop("EndTurn")
    <3>1. h \in Account /\ "message_stop" \in DOMAIN a.st /\ ~a.st["message_stop"]
      BY <2>2 DEF Enveloped, EnvelopeFlags
    <3>2. /\ Shaped(m) /\ m.out = Append(a.out, e) /\ SameRest(a.st, m.st) /\ m.st["message_stop"]
          /\ \A x \in EnvelopeFlags \ {"message_stop"} : x \in DOMAIN a.st => m.st[x] = a.st[x]
      BY <3>1, EnsureIs DEF EnvelopeFlags
    <3>3. "EndTurn" \in StopReason  BY DEF StopReason
    <3>4. Moves(g, a.out, e, k, t)  BY <2>2, <3>1, <3>3, MoveMessageStop
    <3>5. /\ k \in Account /\ k.stage = h.stage /\ k.spent = h.spent
          /\ k.seen = h.seen \cup {"MessageStop"}
      BY <3>1, <3>3, MoveTypes DEF WithStop
    <3> HIDE DEF k, e
    <3>6. Leads(g, m.out, k, t)  BY <3>2, <3>4, MovesOut
    <3>7. Enveloped(m.st, k)  BY <3>2, <3>5 DEF Enveloped, EnvelopeFlags, SameRest
    <3> QED  BY <2>2, <3>2, <3>5, <3>6, <3>7
  <2> QED  BY <2>1, <2>2
<1>2. PICK j : /\ AheadTo(g, a, h, m, j, t) /\ j.seen = h.seen \cup {"MessageStop"}
               /\ "MessageStop" \in h.seen => j.stop = h.stop
  BY <1>1
<1> DEFINE k == WithSeen(j, "ResponseStop")
           e == ResponseStop({})
<1>3. j \in Account /\ "response_stop" \in DOMAIN m.st /\ ~m.st["response_stop"]
  BY <1>2 DEF Enveloped, EnvelopeFlags
<1>4. /\ Shaped(b) /\ b.out = Append(m.out, e) /\ SameRest(m.st, b.st) /\ b.st["response_stop"]
      /\ \A x \in EnvelopeFlags \ {"response_stop"} : x \in DOMAIN m.st => b.st[x] = m.st[x]
  BY <1>2, <1>3, EnsureIs DEF EnvelopeFlags
<1>5. {} \in OneOf(Nat)  BY DEF OneOf
<1>6. Moves(g, m.out, e, k, t)  BY <1>2, <1>3, <1>5, MoveResponseStop
<1>7. /\ k \in Account /\ k.stage = h.stage /\ k.spent = h.spent /\ k.stop = j.stop
      /\ k.seen = h.seen \cup {"MessageStop", "ResponseStop"}
  BY <1>2, <1>3, MoveTypes DEF WithSeen, Envelopes
<1> HIDE DEF k, e
<1>8. Leads(g, b.out, k, t)  BY <1>4, <1>6, MovesOut
<1>9. Enveloped(b.st, k)  BY <1>2, <1>4, <1>7 DEF Enveloped, EnvelopeFlags, SameRest
<1>10. SameRest(a.st, b.st)  BY <1>2, <1>4 DEF SameRest
<1> QED  BY <1>2, <1>4, <1>7, <1>8, <1>9, <1>10

LEMMA RisingExists ==
    ASSUME NEW N \in Nat
    PROVE  \A S \in SUBSET (0 .. (N - 1)) : IsFiniteSet(S) /\ \E s : Rising(s, S)
<1> DEFINE Good(n) == \A S \in SUBSET (0 .. (n - 1)) : IsFiniteSet(S) /\ \E s : Rising(s, S)
           Bad == {n \in Nat : ~Good(n)}
<1>1. Bad = {}
  <2> SUFFICES ASSUME Bad # {} PROVE FALSE  OBVIOUS
  <2> Bad \subseteq Nat  OBVIOUS
  <2> HIDE DEF Bad
  <2>1. PICK n \in Bad : \A m \in Bad : n <= m  BY LeastNumber
  <2>2. n \in Nat /\ ~Good(n)  BY <2>1 DEF Bad
  <2>3. CASE n = 0
    <3>1. ASSUME NEW S \in SUBSET (0 .. (n - 1)) PROVE IsFiniteSet(S) /\ \E s : Rising(s, S)
      <4>1. S = {}  BY <2>3
      <4>2. IsFiniteSet(S) /\ Cardinality(S) = 0  BY <4>1, FS_EmptySet
      <4>3. [i \in 1 .. 0 |-> 0] \in [1 .. 0 -> S] /\ DOMAIN [i \in 1 .. 0 |-> 0] = {}  OBVIOUS
      <4>4. Rising([i \in 1 .. 0 |-> 0], S)  BY <4>2, <4>3 DEF Rising
      <4> QED  BY <4>2, <4>4
    <3> QED  BY <2>2, <3>1
  <2>4. CASE n # 0
    <3> DEFINE p == n - 1
    <3>1. p \in Nat /\ p < n /\ ~(p \in Bad)  BY <2>1, <2>2, <2>4
    <3>2. Good(p)  BY <3>1 DEF Bad
    <3>3. ASSUME NEW S \in SUBSET (0 .. p) PROVE IsFiniteSet(S) /\ \E s : Rising(s, S)
      <4> DEFINE Z == S \ {p}
      <4>1. Z \in SUBSET (0 .. (p - 1)) /\ \A z \in Z : z \in Int /\ z < p  BY <3>1
      <4>2. IsFiniteSet(Z) /\ \E s : Rising(s, Z)  BY <3>2, <4>1
      <4>3. CASE p \notin S
        <5>1. Z = S  BY <4>3
        <5> QED  BY <4>2, <5>1
      <4>4. CASE p \in S
        <5>1. S = Z \cup {p} /\ p \notin Z  BY <4>4
        <5>2. PICK s : Rising(s, Z)  BY <4>2
        <5> HIDE DEF Z
        <5>3. /\ IsFiniteSet(S) /\ Cardinality(S) = Cardinality(Z) + 1 /\ Cardinality(Z) \in Nat
          BY <4>2, <5>1, FS_AddElement, FS_CardinalityType
        <5> DEFINE c == Cardinality(Z)
                   r == [i \in 1 .. (c + 1) |-> IF i = c + 1 THEN p ELSE s[i]]
        <5>4. c \in Nat /\ s \in [1 .. c -> Z] /\ \A i, j \in 1 .. c : i < j => s[i] < s[j]
          BY <5>2, <5>3 DEF Rising
        <5> HIDE DEF c
        <5>5. \A i \in 1 .. c : s[i] \in Z /\ r[i] = s[i]  BY <5>4
        <5>6. r[c + 1] = p  BY <5>4
        <5>7. r \in [1 .. (c + 1) -> S]  BY <5>1, <5>4
        <5> HIDE DEF r
        <5>8. ASSUME NEW i \in 1 .. (c + 1), NEW j \in 1 .. (c + 1), i < j PROVE r[i] < r[j]
          <6>1. i \in 1 .. c  BY <5>4, <5>8
          <6>2. s[i] \in Int /\ s[i] < p  BY <4>1, <5>5, <6>1
          <6>3. CASE j = c + 1  BY <5>5, <5>6, <6>1, <6>2, <6>3
          <6>4. CASE j # c + 1
            <7>1. j \in 1 .. c  BY <5>4, <5>8, <6>4
            <7> QED  BY <5>4, <5>5, <5>8, <6>1, <7>1
          <6> QED  BY <6>3, <6>4
        <5>9. DOMAIN r = 1 .. (c + 1) /\ Cardinality(S) = c + 1  BY <5>3, <5>7 DEF c
        <5>10. Rising(r, S)  BY <5>7, <5>8, <5>9 DEF Rising
        <5> QED  BY <5>3, <5>10
      <4> QED  BY <4>3, <4>4
    <3>4. n - 1 = p  OBVIOUS
    <3> QED  BY <2>2, <3>3, <3>4
  <2> QED  BY <2>3, <2>4
<1> QED  BY <1>1

LEMMA AscendingIs ==
    ASSUME NEW S \in SUBSET BlockIndices, NEW s, s = Ascending(S)
    PROVE  /\ Len(s) \in Nat /\ s \in [1 .. Len(s) -> S] /\ DOMAIN s = 1 .. Len(s)
           /\ \A i, j \in 1 .. Len(s) : i # j => s[i] # s[j]
           /\ \A x \in S : \E i \in 1 .. Len(s) : s[i] = x
<1> DEFINE N == 2 * MaxIndex + 5
           n == Cardinality(S)
<1>1. N \in Nat /\ N - 1 = 2 * MaxIndex + 4  BY StreamingAssumption
<1>2. S \in SUBSET (0 .. (N - 1))  BY <1>1 DEF BlockIndices
<1> HIDE DEF N
<1>3. IsFiniteSet(S) /\ \E z : Rising(z, S)  BY <1>1, <1>2, RisingExists
<1>4. n \in Nat  BY <1>3, FS_CardinalityType
<1>5. \E z \in [1 .. n -> S] : \A i, j \in DOMAIN z : i < j => z[i] < z[j]  BY <1>3 DEF Rising
<1>6. s \in [1 .. n -> S] /\ \A i, j \in DOMAIN s : i < j => s[i] < s[j]
  BY <1>5, Zenon DEF Ascending
<1>7. DOMAIN s = 1 .. n /\ Len(s) = n
  <2>1. DOMAIN s = 1 .. n  BY <1>6
  <2>2. s \in Seq(S)  BY <1>4, <1>6
  <2> QED  BY <1>4, <2>1, <2>2
<1>8. \A i \in 1 .. n : s[i] \in S /\ s[i] \in Int
  <2>1. \A x \in S : x \in Int  BY StreamingAssumption DEF BlockIndices
  <2> HIDE DEF n
  <2>2. \A i \in 1 .. n : s[i] \in S  BY <1>6
  <2> QED  BY <2>1, <2>2
<1>9. ASSUME NEW i \in 1 .. n, NEW j \in 1 .. n, i # j PROVE s[i] # s[j]
  <2>1. i < j \/ j < i  BY <1>4, <1>9
  <2> QED  BY <1>6, <1>7, <1>8, <2>1
<1>10. ASSUME NEW x \in S, \A i \in 1 .. n : s[i] # x PROVE FALSE
  <2> DEFINE Z == S \ {x}
  <2>1. IsFiniteSet(Z) /\ Cardinality(Z) = n - 1  BY <1>3, FS_RemoveElement
  <2>2. s \in [1 .. n -> Z]  BY <1>6, <1>8, <1>10
  <2>3. IsFiniteSet(1 .. n) /\ Cardinality(1 .. n) = n
    <3>1. 1 \in Int /\ n \in Int  BY <1>4
    <3>2. IsFiniteSet(1 .. n) /\ Cardinality(1 .. n) = IF 1 > n THEN 0 ELSE n - 1 + 1
      BY <3>1, FS_Interval
    <3> QED  BY <1>4, <3>2
  <2> DEFINE D == 1 .. n
  <2> HIDE DEF Z, n
  <2>4. \E i, j \in D : i # j /\ s[i] = s[j]
    <3>1. Cardinality(Z) < Cardinality(D)  BY <1>4, <2>1, <2>3
    <3>2. IsFiniteSet(Z) /\ IsFiniteSet(D) /\ s \in [D -> Z]  BY <2>1, <2>2, <2>3
    <3> HIDE DEF D
    <3> QED  BY <3>1, <3>2, FS_PigeonHole
  <2> QED  BY <1>9, <2>4
<1> QED  BY <1>4, <1>6, <1>7, <1>9, <1>10

LEMMA ClosesAll ==
    ASSUME NEW h, InMessage(h), NEW o, DOMAIN o \subseteq BlockIndices,
           \A j \in DOMAIN o : o[j] \in ContentBlockKind /\ h.stage[j] = StageOf(o[j]), NEW t
    PROVE  \E k : Leads(h, Closers(o), k, t) /\ AllClosed(h, o, k)
<1> DEFINE s == Ascending(DOMAIN o)
           q == [n \in DOMAIN s |-> CloseBlock(s[n], o[s[n]])]
<1>1. /\ Len(s) \in Nat /\ s \in [1 .. Len(s) -> DOMAIN o] /\ DOMAIN s = 1 .. Len(s)
      /\ \A i, j \in 1 .. Len(s) : i # j => s[i] # s[j]
      /\ \A x \in DOMAIN o : \E i \in 1 .. Len(s) : s[i] = x
  BY AscendingIs
<1>2. Closers(o) = FlattenSeq(q)  BY DEF Closers
<1> HIDE DEF s
<1>3. DOMAIN q = 1 .. Len(s) /\ \A n \in 1 .. Len(s) : q[n] = CloseBlock(s[n], o[s[n]])  BY <1>1
<1> DEFINE P(k, n) == /\ InMessage(k) /\ Alike(h, k)
                      /\ \A i \in 1 .. Len(s) : i <= n => k.stage[s[i]] = "closed"
                      /\ \A i \in 1 .. Len(s) : i > n => k.stage[s[i]] = h.stage[s[i]]
                      /\ \A j \in BlockIndices \ DOMAIN o : k.stage[j] = h.stage[j]
           K == [n \in 0 .. Len(s) |-> {k \in Account : P(k, n)}]
<1>4. \A n \in 0 .. Len(s) : K[n] = {k \in Account : P(k, n)}  OBVIOUS
<1>5. ASSUME NEW n \in 1 .. Len(s), NEW x, P(x, n - 1)
      PROVE  \E k : Leads(x, q[n], k, t) /\ P(k, n)
  <2> DEFINE i == s[n]
  <2>1. i \in DOMAIN o /\ i \in BlockIndices /\ x.stage[i] = StageOf(o[i]) /\ o[i] \in ContentBlockKind
    BY <1>1, <1>5
  <2>2. q[n] = IF o[i] = "ToolCall" THEN CloseTool(i) ELSE <<ContentBlockStop(i)>>
    BY <1>3 DEF CloseBlock
  <2>3. PICK k : Leads(x, q[n], k, t) /\ Opened(x, i, "closed", k)
    <3> HIDE DEF i, q
    <3> QED  BY <1>5, <2>1, <2>2, EndBlock
  <2>4. InMessage(k) /\ Alike(h, k)  BY <1>5, <2>3 DEF Opened, Alike
  <2>5. ASSUME NEW j \in 1 .. Len(s), j <= n PROVE k.stage[s[j]] = "closed"
    <3>1. CASE j = n  BY <2>3, <3>1 DEF Opened
    <3>2. CASE j # n
      <4>1. j <= n - 1 /\ s[j] # i /\ s[j] \in BlockIndices  BY <1>1, <2>5, <3>2
      <4> QED  BY <1>5, <2>3, <4>1 DEF Opened
    <3> QED  BY <3>1, <3>2
  <2>6. ASSUME NEW j \in 1 .. Len(s), j > n PROVE k.stage[s[j]] = h.stage[s[j]]
    <3>1. j > n - 1 /\ s[j] # i /\ s[j] \in BlockIndices  BY <1>1, <2>6
    <3> QED  BY <1>5, <2>3, <3>1 DEF Opened
  <2>7. \A j \in BlockIndices \ DOMAIN o : k.stage[j] = h.stage[j]  BY <1>5, <2>1, <2>3 DEF Opened
  <2> QED  BY <2>3, <2>4, <2>5, <2>6, <2>7
<1>6. P(h, 0)  BY DEF Alike
<1>7. q \in Seq(Seq(CanonicalEvent)) /\ Len(q) = Len(s)
  <2>1. ASSUME NEW n \in 1 .. Len(s) PROVE q[n] \in Seq(CanonicalEvent)
    <3> DEFINE i == s[n]
    <3>1. i \in DOMAIN o /\ i \in BlockIndices /\ h.stage[i] = StageOf(o[i]) /\ o[i] \in ContentBlockKind
      BY <1>1
    <3>2. q[n] = IF o[i] = "ToolCall" THEN CloseTool(i) ELSE <<ContentBlockStop(i)>>
      BY <1>3 DEF CloseBlock
    <3> HIDE DEF i, q
    <3>3. PICK k : Leads(h, q[n], k, t)  BY <3>1, <3>2, EndBlock
    <3> QED  BY <3>3 DEF Leads
  <2>3. q = [n \in 1 .. Len(s) |-> q[n]]  BY <1>1
  <2> HIDE DEF q
  <2>4. q \in [1 .. Len(s) -> Seq(CanonicalEvent)]  BY <2>1, <2>3
  <2> QED  BY <1>1, <2>4
<1>8. h \in K[0]  BY <1>1, <1>4, <1>6 DEF InMessage
<1> HIDE DEF K, P, q
<1>9. ASSUME NEW n \in 1 .. Len(q), NEW x \in K[n - 1]
      PROVE  \E k \in K[n] : Leads(x, q[n], k, t)
  <2>1. n \in 1 .. Len(s) /\ n - 1 \in 0 .. Len(s) /\ n \in 0 .. Len(s)  BY <1>1, <1>7
  <2>2. P(x, n - 1)  BY <1>4, <2>1
  <2>3. PICK k : Leads(x, q[n], k, t) /\ P(k, n)  BY <1>5, <2>1, <2>2
  <2>4. k \in Account  BY <2>3 DEF P, InMessage
  <2> QED  BY <1>4, <2>1, <2>3, <2>4
<1>10. PICK k \in K[Len(q)] : Leads(h, FlattenSeq(q), k, t)  BY <1>7, <1>8, <1>9, FlattenPath
<1>11. Len(s) \in 0 .. Len(s)  BY <1>1
<1>12. P(k, Len(s))  BY <1>4, <1>7, <1>10, <1>11
<1>13. ASSUME NEW j \in DOMAIN o PROVE k.stage[j] = "closed"
  <2>1. PICK i \in 1 .. Len(s) : s[i] = j  BY <1>1
  <2> QED  BY <1>1, <1>12, <2>1 DEF P
<1>14. AllClosed(h, o, k)  BY <1>12, <1>13 DEF P, AllClosed
<1> QED  BY <1>2, <1>10, <1>14
-----------------------------------------------------------------------------
(* The Responses parser.                                                   *)
LEMMA ResponsesThrough ==
    ASSUME NEW st, NEW h, NEW u, ResponsesBack(st, h, u)
    PROVE  Through("responses", h, u)
<1>1. h \in Account /\ u.tokens \in Nat /\ OpenAs(h, st.open_blocks, u.next)
  BY DEF ResponsesBack, ResponsesHeld, Enveloped, UpTyped
<1>2. ASSUME u.phase = "gone" PROVE AllQuiet(h)
  <2>1. DOMAIN st.open_blocks = {}  BY <1>2 DEF ResponsesBack, ResponsesHeld, Enveloped
  <2> QED  BY <1>1, <2>1, OpenAsQuiet
<1>3. u.phase = "gone" => ("ResponseStart" \in h.seen => "ResponseStop" \in h.seen)
  BY DEF ResponsesBack
<1> QED  BY <1>1, <1>2, <1>3 DEF Through

LEMMA ResponsesBegins ==
    ASSUME NEW u, u = [phase |-> "idle", open |-> <<>>, next |-> 0, tokens |-> 0,
                       called |-> FALSE, reason |-> "none", reasoned |-> FALSE]
    PROVE  ResponsesBack(ResponsesInit, NoAccount, u)
<1> DEFINE st == ResponsesInit
           f == NoEnvelope
           g == [open_blocks |-> <<>>]
<1>1. DOMAIN f = EnvelopeFlags /\ \A x \in DOMAIN f : ~f[x]  BY DEF NoEnvelope, EnvelopeFlags
<1>2. DOMAIN g = {"open_blocks"} /\ DOMAIN g["open_blocks"] = {}  OBVIOUS
<1>3. st = [x \in DOMAIN f \cup DOMAIN g |-> IF x \in DOMAIN f THEN f[x] ELSE g[x]]
  BY DEF ResponsesInit, Join
<1> HIDE DEF f, g, st
<1>4. /\ EnvelopeFlags \subseteq DOMAIN st /\ "open_blocks" \in DOMAIN st
      /\ \A x \in EnvelopeFlags : ~st[x]
      /\ DOMAIN st.open_blocks = {}
  BY <1>1, <1>2, <1>3 DEF EnvelopeFlags
<1>5. /\ NoAccount \in Account /\ NoAccount.seen = {} /\ NoAccount.stop = {} /\ NoAccount.spent = 0
      /\ \A i \in BlockIndices : NoAccount.stage[i] = "new"
  BY NothingYet DEF Sound, NoAccount
<1>6. DOMAIN u.open = {} /\ u.next = 0 /\ u.tokens = 0 /\ u.phase = "idle"  OBVIOUS
<1>7. UpTyped(u) /\ u.next <= MaxIndex + 1  BY StreamingAssumption DEF UpTyped
<1>8. Enveloped(st, NoAccount)  BY <1>4, <1>5 DEF Enveloped, EnvelopeFlags
<1>9. OpenAs(NoAccount, st.open_blocks, u.next) /\ ItemBlocks(st.open_blocks, u.open, u.next)
  BY <1>4, <1>5, <1>6 DEF OpenAs, ItemBlocks
<1>10. ResponsesHeld(st, NoAccount, u)
  BY <1>4, <1>5, <1>6, <1>7, <1>8, <1>9 DEF ResponsesHeld
<1> QED  BY <1>5, <1>6, <1>10 DEF ResponsesBack, st

(* response.created.                                                       *)
LEMMA ResponsesFeedCreated ==
    ASSUME NEW h, ResponsesBack(parser, h, up), up.phase \in {"idle", "live"},
           NEW in, in = [kind |-> "created"], NEW u, u = Follow(in),
           NEW r, r = ResponsesInput(parser, in)
    PROVE  ResponsesFed(h, r, u)
<1> DEFINE t == Terms("responses", u)
           a == Start(parser)
<1>1. ResponsesHeld(parser, h, up)  BY DEF ResponsesBack
<1>2. /\ u.phase = "live" /\ u.open = up.open /\ u.next = up.next /\ u.tokens = up.tokens
      /\ u.called \in BOOLEAN /\ u.reasoned \in BOOLEAN
  <2>1. in.kind = "created"  OBVIOUS
  <2> QED  BY <1>1, <2>1, FollowIs DEF ResponsesHeld, UpTyped
<1>3. r = Ensure(a, "response_start", ResponseStart)  BY DEF ResponsesInput
<1>4. a.st = parser /\ a.out = <<>> /\ Shaped(a)  BY DEF Start, Shaped
<1> HIDE DEF t, a
<1>5. Ahead(h, a, h, t)  BY <1>1, <1>4, LeadsNothing DEF Ahead, ResponsesHeld
<1>6. h.seen = {} \/ "ResponseStart" \in h.seen  BY DEF ResponsesBack
<1>7. PICK k : /\ AheadTo(h, a, h, r, k, t) /\ k.stop = h.stop
               /\ k.seen = h.seen \cup {"ResponseStart"}
  BY <1>3, <1>5, <1>6, EnsuresStart
<1>8. "open_blocks" \in DOMAIN r.st /\ r.st.open_blocks = parser.open_blocks
  BY <1>1, <1>4, <1>7 DEF AheadTo, SameRest, ResponsesHeld, EnvelopeFlags
<1>9. OpenAs(k, r.st.open_blocks, u.next)
  BY <1>1, <1>2, <1>7, <1>8, OpenAsAlike DEF ResponsesHeld, AheadTo
<1>10. ResponsesHeld(r.st, k, u)
  BY <1>1, <1>2, <1>7, <1>8, <1>9 DEF ResponsesHeld, AheadTo, Ahead, UpTyped
<1>11. "ResponseStop" \notin k.seen  BY <1>7 DEF ResponsesBack
<1>12. ResponsesBack(r.st, k, u)  BY <1>2, <1>7, <1>10, <1>11 DEF ResponsesBack
<1> QED  BY <1>7, <1>12 DEF ResponsesFed, AheadTo, Ahead, t

(* The map of open blocks replaced.                                        *)
LEMMA BlocksSet ==
    ASSUME NEW s, NEW h, Enveloped(s, h), "open_blocks" \in DOMAIN s, NEW o,
           NEW z, z = [s EXCEPT !.open_blocks = o], NEW k \in Account, k.seen = h.seen
    PROVE  Enveloped(z, k) /\ "open_blocks" \in DOMAIN z /\ z.open_blocks = o
<1>1. DOMAIN z = DOMAIN s /\ z.open_blocks = o /\ \A x \in EnvelopeFlags : z[x] = s[x]
  BY DEF Enveloped, EnvelopeFlags
<1> QED  BY <1>1 DEF Enveloped, EnvelopeFlags

(* A step before the end that leaves the envelope alone.                   *)
LEMMA ResponsesLive ==
    ASSUME NEW h, ResponsesBack(parser, h, up), up.phase = "live", NEW in,
           in.kind \in {"item_added", "text_delta", "args_delta", "item_done"},
           NEW u, u = Follow(in)
    PROVE  /\ u.phase = "live" /\ u.tokens = up.tokens /\ u.called \in BOOLEAN
           /\ u.reasoned \in BOOLEAN /\ up.next \in Nat
           /\ h \in Account /\ "ResponseStart" \in h.seen /\ "MessageStop" \notin h.seen
           /\ in.kind = "item_added" => u.next = up.next + 1 /\ u.open = Insert(up.open, in.index, in.item)
           /\ in.kind # "item_added" => u.next = up.next
           /\ in.kind = "item_done" => u.open = Without(up.open, in.index)
           /\ in.kind \in {"text_delta", "args_delta"} => u.open = up.open
<1>1. /\ UpTyped(up) /\ h \in Account
      /\ "ResponseStart" \in h.seen /\ "MessageStop" \notin h.seen
  BY DEF ResponsesBack, ResponsesHeld, Enveloped
<1>2. u.phase = "live"  BY FollowIs
<1>3. u.tokens = up.tokens /\ u.called \in BOOLEAN /\ u.reasoned \in BOOLEAN /\ up.next \in Nat
  BY <1>1, FollowIs DEF UpTyped
<1>4. /\ in.kind = "item_added" => u.next = up.next + 1 /\ u.open = Insert(up.open, in.index, in.item)
      /\ in.kind # "item_added" => u.next = up.next
      /\ in.kind = "item_done" => u.open = Without(up.open, in.index)
      /\ in.kind \in {"text_delta", "args_delta"} => u.open = up.open
  BY FollowIs
<1> QED  BY <1>1, <1>2, <1>3, <1>4

LEMMA ResponsesLiveBack ==
    ASSUME NEW h, ResponsesBack(parser, h, up), up.phase = "live",
           NEW u, u.phase = "live", u.tokens = up.tokens, u.called \in BOOLEAN,
           u.reasoned \in BOOLEAN, u.next \in Nat, u.next <= MaxIndex + 1,
           NEW k, k.seen = h.seen \cup {"MessageStart"} \/ k.seen = h.seen, k.stop = h.stop,
           k.spent = h.spent,
           NEW st, Enveloped(st, k), "open_blocks" \in DOMAIN st, OpenAs(k, st.open_blocks, u.next),
           ItemBlocks(st.open_blocks, u.open, u.next),
           DOMAIN st.open_blocks # {} => "MessageStart" \in k.seen
    PROVE  ResponsesBack(st, k, u)
<1>1. ResponsesHeld(parser, h, up) /\ "ResponseStart" \in h.seen /\ "ResponseStop" \notin h.seen
  BY DEF ResponsesBack
<1>2. "ResponseStart" \in k.seen /\ "ResponseStop" \notin k.seen
      /\ ("MessageStop" \in k.seen <=> "MessageStop" \in h.seen)
  BY <1>1
<1>3. UpTyped(u) /\ h.spent = 0 /\ up.tokens = 0 /\ h.stop = {} /\ "MessageStop" \notin h.seen
  BY <1>1 DEF ResponsesHeld, UpTyped
<1>4. ResponsesHeld(st, k, u)  BY <1>2, <1>3 DEF ResponsesHeld
<1> QED  BY <1>2, <1>4 DEF ResponsesBack

LEMMA ItemOpens ==
    ASSUME NEW g, NEW q, NEW h, NEW t, Leads(g, q, h, t), InMessage(h), NEW i \in BlockIndices,
           h.stage[i] = "new", NEW x \in {"Text", "ToolCall"}, NEW y, y <=> x = "ToolCall",
           NEW z, z = ItemQueue(q, i, x, y)
    PROVE  \E k : Leads(g, z, k, t) /\ Opened(h, i, StageOf(x), k)
<1> DEFINE c == ContentBlockStart(i, x)
           e == BlockEvent("ToolCallStart", i)
           w == IF x = "ToolCall" THEN "raw" ELSE x
           m == WithStage(h, i, w)
           n == WithStage(m, i, "named")
<1>1. h \in Account /\ x \in ContentBlockKind /\ w \in Stages /\ "named" \in Stages
  BY DEF InMessage, ContentBlockKind, Stages
<1>2. Moves(g, q, c, m, t)  BY <1>1, MoveBlockStart DEF InMessage
<1>3. Opened(h, i, w, m)  BY <1>1, StageOpened
<1>4. InMessage(m) /\ m.stage[i] = w /\ Leads(g, Append(q, c), m, t)  BY <1>2, <1>3 DEF Opened, Moves
<1>5. CASE x = "ToolCall"
  <2>1. z = Append(q, c) \o <<e>>  BY <1>5 DEF When, ItemQueue
  <2>2. m.stage[i] = "raw" /\ StageOf(x) = "named"  BY <1>4, <1>5 DEF StageOf
  <2>3. Opened(m, i, "named", n)  BY <1>1, <1>4, StageOpened
  <2> HIDE DEF c, m, n
  <2>4. Moves(g, Append(q, c), e, n, t)  BY <1>4, <2>2, MoveStage DEF InMessage, n
  <2>5. Opened(h, i, "named", n)  BY <1>3, <2>3, OpenedTwice
  <2> QED  BY <2>1, <2>2, <2>4, <2>5 DEF Moves
<1>6. CASE x # "ToolCall"
  <2>1. z = Append(q, c) \o <<>>  BY <1>6 DEF When, ItemQueue
  <2>2. StageOf(x) = w  BY <1>6 DEF StageOf
  <2> DEFINE p == Append(q, c)
  <2>3. p \in Seq(CanonicalEvent)  BY <1>4 DEF Leads
  <2> HIDE DEF p
  <2>4. p \o <<>> = p  BY <2>3
  <2> QED  BY <1>3, <1>4, <2>1, <2>2, <2>4 DEF p
<1> QED  BY <1>5, <1>6

(* response.output_item.added.                                             *)
LEMMA ResponsesFeedAdded ==
    ASSUME NEW h, ResponsesBack(parser, h, up), up.phase = "live", up.next <= MaxIndex,
           NEW x \in {"message", "function_call", "reasoning"},
           NEW in, in = [kind |-> "item_added", index |-> up.next, item |-> x],
           NEW u, u = Follow(in), NEW r, r = ResponsesInput(parser, in)
    PROVE  ResponsesFed(h, r, u)
<1> DEFINE t == Terms("responses", u)
           s == Start(parser)
           a == EnsureMessageStart(s)
           i == up.next
<1>1. in.kind = "item_added" /\ in.index = i /\ in.item = x  OBVIOUS
<1>2. /\ u.phase = "live" /\ u.tokens = up.tokens /\ u.called \in BOOLEAN
      /\ u.reasoned \in BOOLEAN /\ up.next \in Nat
      /\ h \in Account /\ "ResponseStart" \in h.seen /\ "MessageStop" \notin h.seen
      /\ u.next = i + 1 /\ u.open = Insert(up.open, i, x)
  BY <1>1, ResponsesLive
<1>3. /\ ResponsesHeld(parser, h, up) /\ "ResponseStop" \notin h.seen
  BY DEF ResponsesBack
<1>4. s.st = parser /\ s.out = <<>> /\ Shaped(s)  BY DEF Start, Shaped
<1>5. Ahead(h, s, h, t)  BY <1>3, <1>4, LeadsNothing DEF Ahead, ResponsesHeld
<1>6. h.seen = {"ResponseStart"} \/ "MessageStart" \in h.seen
  BY <1>2, <1>3 DEF Account, Envelopes
<1> HIDE DEF s, t
<1>7. PICK k : /\ AheadTo(h, s, h, a, k, t) /\ k.stop = h.stop
               /\ k.seen = h.seen \cup {"MessageStart"}
  BY <1>5, <1>6, EnsuresMessage
<1> HIDE DEF a
<1>8. /\ "open_blocks" \in DOMAIN a.st /\ a.st.open_blocks = parser.open_blocks
      /\ Enveloped(a.st, k) /\ Leads(h, a.out, k, t) /\ k.stage = h.stage /\ k.spent = h.spent
  BY <1>3, <1>4, <1>7 DEF AheadTo, Ahead, SameRest, ResponsesHeld, EnvelopeFlags
<1>9. OpenAs(k, parser.open_blocks, i)  BY <1>3, <1>8, OpenAsAlike DEF ResponsesHeld
<1>10. i \in BlockIndices /\ i >= i /\ InMessage(k)
  BY <1>2, <1>7, <1>8, StreamingAssumption DEF BlockIndices, InMessage, Enveloped
<1>11. k.stage[i] = "new"  BY <1>9, <1>10 DEF OpenAs
<1>12. ItemBlocks(parser.open_blocks, up.open, i)  BY <1>3 DEF ResponsesHeld
<1>13. i \notin DOMAIN up.open  BY <1>2, <1>12 DEF ItemBlocks
<1>14. DOMAIN u.open = DOMAIN up.open \cup {i} /\ u.open[i] = x
       /\ \A j \in DOMAIN up.open : u.open[j] = up.open[j]
  BY <1>2, <1>13 DEF Insert
<1>15. r = OutputItemAdded(parser, in)  BY <1>1 DEF ResponsesInput
<1>16. u.next \in Nat /\ u.next <= MaxIndex + 1 /\ i < u.next
  BY <1>2, StreamingAssumption
<1>17. /\ DOMAIN KindOfItem = {"message", "function_call"} /\ KindOfItem["message"] = "Text"
       /\ KindOfItem["function_call"] = "ToolCall"
  BY DEF KindOfItem
<1>18. \A j \in DOMAIN u.open : j \in Nat /\ j < u.next /\ u.open[j] \in {"message", "function_call", "reasoning"}
  <2>1. \A j \in DOMAIN up.open : j \in Nat /\ j < i /\ up.open[j] \in {"message", "function_call", "reasoning"}
    BY <1>12 DEF ItemBlocks
  <2> QED  BY <1>2, <1>14, <1>16, <2>1
<1>19. CASE x = "reasoning"
  <2>1. r = a  BY <1>1, <1>15, <1>17, <1>19 DEF OutputItemAdded, a, s
  <2>2. ItemBlocks(parser.open_blocks, u.open, u.next)
    BY <1>12, <1>13, <1>14, <1>18, <1>19 DEF ItemBlocks
  <2>3. OpenAs(k, parser.open_blocks, u.next)  BY <1>2, <1>9 DEF OpenAs, BlockIndices
  <2>4. ResponsesBack(a.st, k, u)
    BY <1>2, <1>7, <1>8, <1>16, <2>2, <2>3, ResponsesLiveBack
  <2> QED  BY <1>8, <2>1, <2>4 DEF ResponsesFed, t
<1>20. CASE x # "reasoning"
  <2> DEFINE y == KindOfItem[x]
             z == Insert(a.st.open_blocks, i, y)
             v == x = "function_call"
  <2>1. y = (IF x = "message" THEN "Text" ELSE "ToolCall") /\ x \in DOMAIN KindOfItem
    BY <1>17, <1>20
  <2>2. y \in {"Text", "ToolCall"} /\ (x = "function_call" <=> y = "ToolCall") /\ y \in ContentBlockKind
    BY <1>20, <2>1 DEF ContentBlockKind
  <2>3. r = [st |-> [a.st EXCEPT !.open_blocks = z], out |-> ItemQueue(a.out, i, y, v)]
    BY <1>1, <1>15, <2>1 DEF OutputItemAdded, ItemQueue, a, s
  <2>12. v <=> y = "ToolCall"  BY <2>2
  <2> HIDE DEF y, v
  <2>4. PICK m : Leads(h, r.out, m, t) /\ Opened(k, i, StageOf(y), m)
    BY <1>8, <1>10, <1>11, <2>2, <2>3, <2>12, ItemOpens
  <2>5. OpenAs(m, z, u.next)  BY <1>2, <1>8, <1>9, <1>10, <2>2, <2>4, OpenAsStart
  <2>6. DOMAIN z = DOMAIN parser.open_blocks \cup {i} /\ z[i] = y
        /\ \A j \in DOMAIN parser.open_blocks \ {i} : z[j] = parser.open_blocks[j]
    BY <1>8 DEF Insert
  <2> HIDE DEF z
  <2>7. ItemBlocks(z, u.open, u.next)
    <3>1. DOMAIN z = {j \in DOMAIN u.open : u.open[j] \in {"message", "function_call"}}
      BY <1>12, <1>13, <1>14, <1>20, <2>6 DEF ItemBlocks
    <3>2. \A j \in DOMAIN z : z[j] = IF u.open[j] = "message" THEN "Text" ELSE "ToolCall"
      BY <1>12, <1>13, <1>14, <2>1, <2>6 DEF ItemBlocks
    <3> QED  BY <1>18, <3>1, <3>2 DEF ItemBlocks
  <2>8. /\ m \in Account /\ m.seen = k.seen /\ m.stop = h.stop /\ m.spent = h.spent
        /\ "MessageStart" \in m.seen
    BY <1>7, <1>8, <2>4 DEF Opened, InMessage
  <2>9. r.st = [a.st EXCEPT !.open_blocks = z]  BY <2>3
  <2>10. Enveloped(r.st, m) /\ "open_blocks" \in DOMAIN r.st /\ r.st.open_blocks = z
    BY <1>8, <2>8, <2>9, BlocksSet
  <2>11. ResponsesBack(r.st, m, u)
    BY <1>2, <1>7, <1>16, <2>5, <2>7, <2>8, <2>10, ResponsesLiveBack
  <2> QED  BY <2>4, <2>11 DEF ResponsesFed, t
<1> QED  BY <1>19, <1>20

(* Fragments of an item, and its end.                                      *)
LEMMA ResponsesFeedWithin ==
    ASSUME NEW h, ResponsesBack(parser, h, up), up.phase = "live", NEW i \in DOMAIN up.open,
           NEW in, \/ in = [kind |-> "text_delta", index |-> i] /\ up.open[i] = "message"
                   \/ in = [kind |-> "args_delta", index |-> i] /\ up.open[i] = "function_call"
                   \/ in = [kind |-> "item_done", index |-> i, item |-> up.open[i]],
           NEW u, u = Follow(in), NEW r, r = ResponsesInput(parser, in)
    PROVE  ResponsesFed(h, r, u)
<1> DEFINE t == Terms("responses", u)
           b == parser.open_blocks[i]
<1>1. in.kind \in {"text_delta", "args_delta", "item_done"} /\ in.index = i  OBVIOUS
<1>2. /\ u.phase = "live" /\ u.tokens = up.tokens /\ u.called \in BOOLEAN
      /\ u.reasoned \in BOOLEAN /\ up.next \in Nat
      /\ h \in Account /\ "ResponseStart" \in h.seen /\ "MessageStop" \notin h.seen
      /\ u.next = up.next /\ (in.kind = "item_done" => u.open = Without(up.open, i))
      /\ (in.kind \in {"text_delta", "args_delta"} => u.open = up.open)
  BY <1>1, ResponsesLive
<1>3. /\ ResponsesHeld(parser, h, up) /\ "ResponseStop" \notin h.seen
  BY DEF ResponsesBack
<1>4. /\ Enveloped(parser, h) /\ "open_blocks" \in DOMAIN parser /\ up.next <= MaxIndex + 1
      /\ OpenAs(h, parser.open_blocks, up.next) /\ ItemBlocks(parser.open_blocks, up.open, up.next)
      /\ (DOMAIN parser.open_blocks # {} => "MessageStart" \in h.seen)
  BY <1>3 DEF ResponsesHeld
<1>5. /\ DOMAIN KindOfItem = {"message", "function_call"} /\ KindOfItem["message"] = "Text"
      /\ KindOfItem["function_call"] = "ToolCall"
  BY DEF KindOfItem
<1>6. ASSUME up.open[i] # "reasoning"
      PROVE  /\ i \in DOMAIN parser.open_blocks /\ i \in BlockIndices /\ InMessage(h)
             /\ b = KindOfItem[up.open[i]] /\ up.open[i] \in DOMAIN KindOfItem
             /\ b \in {"Text", "ToolCall"} /\ b \in ContentBlockKind /\ h.stage[i] = StageOf(b)
  <2>1. i \in DOMAIN parser.open_blocks /\ up.open[i] \in {"message", "function_call"}
    BY <1>4, <1>6 DEF ItemBlocks
  <2>2. b = KindOfItem[up.open[i]] /\ b \in {"Text", "ToolCall"}
    BY <1>4, <1>5, <2>1 DEF ItemBlocks
  <2>3. i \in BlockIndices /\ h.stage[i] = StageOf(b) /\ b \in ContentBlockKind
    BY <1>4, <2>1 DEF OpenAs
  <2> QED  BY <1>2, <1>4, <1>5, <2>1, <2>2, <2>3 DEF InMessage
<1>7. CASE in.kind \in {"text_delta", "args_delta"}
  <2> DEFINE d == BlockEvent(DeltaOf[b], i)
  <2>1. up.open[i] # "reasoning" /\ (in.kind = "text_delta" <=> up.open[i] = "message")
    BY <1>7
  <2>2. /\ i \in DOMAIN parser.open_blocks /\ i \in BlockIndices /\ InMessage(h)
        /\ b \in {"Text", "ToolCall"} /\ h.stage[i] = StageOf(b)
        /\ (in.kind = "text_delta" => b = "Text") /\ (in.kind = "args_delta" => b = "ToolCall")
    BY <1>5, <1>6, <1>7, <2>1
  <2>3. r = Say(Start(parser), <<d>>)
    <3>1. DeltaOf["Text"] = "TextDelta" /\ DeltaOf["ToolCall"] = "ToolCallArgumentsDelta"
      BY DEF DeltaOf
    <3> QED  BY <1>1, <1>7, <2>2, <3>1 DEF ResponsesInput
  <2>4. Leads(h, <<d>>, h, t)  BY <2>2, BlockDelta
  <2> HIDE DEF d, t
  <2>5. r.st = parser /\ r.out = <<d>>  BY <2>3, SayFrames
  <2>6. ResponsesBack(parser, h, u)  BY <1>2, <1>4, <1>7, ResponsesLiveBack
  <2> QED  BY <2>4, <2>5, <2>6 DEF ResponsesFed, t
<1>8. CASE in.kind = "item_done"
  <2>1. in.item = up.open[i]  BY <1>8
  <2>2. r = OutputItemDone(parser, in)  BY <1>8 DEF ResponsesInput
  <2>3. DOMAIN u.open = DOMAIN up.open \ {i} /\ \A j \in DOMAIN u.open : u.open[j] = up.open[j]
    BY <1>2, <1>8 DEF Without
  <2>4. CASE up.open[i] = "reasoning"
    <3>1. r = Start(parser)  BY <1>5, <2>1, <2>2, <2>4 DEF OutputItemDone
    <3>2. r.st = parser /\ Leads(h, r.out, h, t)  BY <3>1, MishapLeads DEF Mishap
    <3>3. ItemBlocks(parser.open_blocks, u.open, u.next)  BY <1>2, <1>4, <2>3, <2>4 DEF ItemBlocks
    <3>4. ResponsesBack(parser, h, u)  BY <1>2, <1>4, <3>3, ResponsesLiveBack
    <3> QED  BY <3>2, <3>4 DEF ResponsesFed
  <2>5. CASE up.open[i] # "reasoning"
    <3> DEFINE q == IF b = "ToolCall" THEN CloseTool(i) ELSE <<ContentBlockStop(i)>>
               z == Without(parser.open_blocks, i)
    <3>1. /\ i \in DOMAIN parser.open_blocks /\ i \in BlockIndices /\ InMessage(h)
          /\ b = KindOfItem[up.open[i]] /\ up.open[i] \in DOMAIN KindOfItem
          /\ b \in ContentBlockKind /\ h.stage[i] = StageOf(b)
      BY <1>6, <2>5
    <3>2. r = [st |-> [parser EXCEPT !.open_blocks = z], out |-> q]
      BY <1>1, <2>1, <2>2, <3>1 DEF OutputItemDone, CloseBlock
    <3>3. PICK k : Leads(h, q, k, t) /\ Opened(h, i, "closed", k)  BY <3>1, EndBlock
    <3> HIDE DEF q
    <3>4. OpenAs(k, z, u.next)  BY <1>2, <1>4, <3>1, <3>3, OpenAsStop
    <3>5. DOMAIN z = DOMAIN parser.open_blocks \ {i}
          /\ \A j \in DOMAIN z : z[j] = parser.open_blocks[j]
      BY DEF Without
    <3> HIDE DEF z
    <3>6. ItemBlocks(z, u.open, u.next)  BY <1>2, <1>4, <2>3, <3>5 DEF ItemBlocks
    <3>7. k \in Account /\ k.seen = h.seen /\ k.stop = h.stop /\ k.spent = h.spent
      BY <3>3 DEF Opened, InMessage
    <3>8. r.st = [parser EXCEPT !.open_blocks = z] /\ r.out = q  BY <3>2
    <3>9. Enveloped(r.st, k) /\ "open_blocks" \in DOMAIN r.st /\ r.st.open_blocks = z
      BY <1>4, <3>7, <3>8, BlocksSet
    <3>10. "MessageStart" \in k.seen  BY <3>1, <3>7 DEF InMessage
    <3>11. ResponsesBack(r.st, k, u)
      BY <1>2, <1>4, <3>4, <3>6, <3>7, <3>9, <3>10, ResponsesLiveBack
    <3> QED  BY <3>3, <3>8, <3>11 DEF ResponsesFed
  <2> QED  BY <2>4, <2>5
<1> QED  BY <1>1, <1>7, <1>8

(* response.completed.                                                     *)
LEMMA ResponsesFeedCompleted ==
    ASSUME NEW h, ResponsesBack(parser, h, up), up.phase = "live", DOMAIN up.open = {},
           NEW y \in {"completed", "incomplete"}, NEW x \in UsageNow,
           NEW in, in = [kind |-> "completed", status |-> y, usage |-> x],
           NEW u, u = Follow(in), NEW r, r = ResponsesInput(parser, in)
    PROVE  ResponsesFed(h, r, u)
<1> DEFINE t == Terms("responses", u)
           s == IF y = "incomplete" THEN "ContentFilter" ELSE "EndTurn"
           q == <<MessageStop(s), ResponseStop(x)>>
           a == [parser EXCEPT !.completed = TRUE]
           b == [a EXCEPT !.message_stop = TRUE]
           c == [b EXCEPT !.response_stop = TRUE]
<1>1. /\ ResponsesHeld(parser, h, up) /\ "ResponseStart" \in h.seen /\ "ResponseStop" \notin h.seen
  BY DEF ResponsesBack
<1>2. /\ Enveloped(parser, h) /\ "open_blocks" \in DOMAIN parser /\ up.next <= MaxIndex + 1
      /\ OpenAs(h, parser.open_blocks, up.next) /\ ItemBlocks(parser.open_blocks, up.open, up.next)
      /\ h.spent = 0 /\ up.tokens = 0 /\ h \in Account /\ UpTyped(up) /\ "MessageStop" \notin h.seen
  BY <1>1 DEF ResponsesHeld, Enveloped
<1>3. DOMAIN parser.open_blocks = {}  BY <1>2 DEF ItemBlocks
<1>4. in.kind = "completed" /\ in.status = y /\ in.usage = x  OBVIOUS
<1>5. /\ u.phase = "stopped" /\ u.open = up.open /\ u.next = up.next
      /\ u.called \in BOOLEAN /\ u.reasoned \in BOOLEAN /\ u.tokens = Latest(up.tokens, x)
  BY <1>2, <1>4, FollowIs DEF Latest
<1>6. x \in OneOf(Nat)  BY <1>2, UsageNowIs
<1>7. Sums(h, x, t) /\ u.tokens \in Nat
  <2>1. t.tokens = u.tokens  BY DEF Terms
  <2>2. CASE x = {}  BY <1>2, <1>5, <2>1, <2>2 DEF Sums, Latest
  <2>3. ASSUME NEW n \in Nat, x = {n} PROVE Sums(h, x, t) /\ u.tokens \in Nat
    <3>1. (CHOOSE m \in {n} : TRUE) = n  OBVIOUS
    <3> QED  BY <1>5, <2>1, <2>3, <3>1 DEF Sums, Latest
  <2> QED  BY <1>6, <2>2, <2>3 DEF OneOf
<1>8. s \in StopReason /\ Honest(s, t)  BY DEF StopReason, Honest, Terms
<1>9. r.st = c /\ r.out = q  BY <1>4 DEF ResponsesInput, Completed
<1> HIDE DEF s, t
<1>10. PICK k : Leads(h, q, k, t) /\ EndedFrom(h, s, k)
  <2>1. AllQuiet(h)  BY <1>2, <1>3, OpenAsQuiet
  <2> QED  BY <1>1, <1>2, <1>6, <1>7, <1>8, <2>1, EndsResponse
<1> HIDE DEF q
<1>11. /\ DOMAIN a = DOMAIN parser /\ \A f \in DOMAIN parser \ {"completed"} : a[f] = parser[f]
  OBVIOUS
<1> HIDE DEF a
<1>12. /\ DOMAIN b = DOMAIN parser /\ b["message_stop"]
       /\ \A f \in DOMAIN parser \ {"completed", "message_stop"} : b[f] = parser[f]
  BY <1>2, <1>11 DEF Enveloped, EnvelopeFlags
<1> HIDE DEF b
<1>13. /\ DOMAIN c = DOMAIN parser /\ c["message_stop"] /\ c["response_stop"]
       /\ \A f \in DOMAIN parser \ {"completed", "message_stop", "response_stop"} : c[f] = parser[f]
  BY <1>2, <1>12 DEF Enveloped, EnvelopeFlags
<1> HIDE DEF c
<1>14. /\ k \in Account /\ k.stage = h.stage /\ k.spent = 0
       /\ k.seen = h.seen \cup {"MessageStop", "ResponseStop"}
  BY <1>2, <1>10 DEF EndedFrom, Ended
<1>15. Enveloped(c, k) /\ "open_blocks" \in DOMAIN c /\ c.open_blocks = parser.open_blocks
  <2>1. c.open_blocks = parser.open_blocks  BY <1>2, <1>13
  <2>2. c.response_start = parser.response_start /\ c.message_start = parser.message_start
    BY <1>2, <1>13 DEF Enveloped, EnvelopeFlags
  <2> QED  BY <1>2, <1>13, <1>14, <2>1, <2>2 DEF Enveloped
<1>16. OpenAs(k, c.open_blocks, u.next)  BY <1>2, <1>5, <1>14, <1>15, OpenAsAlike
<1>17. UpTyped(u)  BY <1>2, <1>5, <1>7 DEF UpTyped
<1>18. ResponsesHeld(c, k, u)
  BY <1>2, <1>3, <1>5, <1>14, <1>15, <1>16, <1>17 DEF ResponsesHeld
<1>19. ResponsesBack(c, k, u)  BY <1>5, <1>18 DEF ResponsesBack
<1> QED  BY <1>9, <1>10, <1>19 DEF ResponsesFed, t

(* response.failed, and inputs that produce an error at most.              *)
LEMMA ResponsesFeedRest ==
    ASSUME NEW h, ResponsesBack(parser, h, up), up.phase # "gone", NEW in, NEW u,
           \/ in = [kind |-> "failed"] /\ u = Follow(in) /\ up.phase = "live"
           \/ in = [kind |-> "other"] /\ u = Follow(in) /\ up.phase = "stopped"
           \/ in.kind \in {"broken", "garbage", "error"} /\ u = up,
           NEW r, r = ResponsesInput(parser, in)
    PROVE  /\ ResponsesFed(h, r, u)
           /\ h.stop # {} => u.called = up.called /\ u.reason = up.reason /\ u.reasoned = up.reasoned
<1> DEFINE t == Terms("responses", u)
<1>1. ResponsesHeld(parser, h, up)  BY DEF ResponsesBack
<1>2. CASE in = [kind |-> "failed"] /\ u = Follow(in) /\ up.phase = "live"
  <2> DEFINE a == [parser EXCEPT !.completed = TRUE]
             b == Say(Start(parser), <<ErrorEvent>>)
  <2>1. in.kind = "failed"  BY <1>2
  <2>2. /\ u.phase = "stopped" /\ u.open = up.open /\ u.next = up.next /\ u.tokens = up.tokens
        /\ u.called \in BOOLEAN /\ u.reasoned \in BOOLEAN
    BY <1>1, <1>2, <2>1, FollowIs DEF ResponsesHeld, UpTyped
  <2>3. r.st = a /\ r.out = <<ErrorEvent>>  BY <2>1 DEF ResponsesInput
  <2>4. b.st = parser /\ b.out = <<ErrorEvent>>  BY SayFrames
  <2>5. Leads(h, b.out, h, t)  BY MishapLeads DEF Mishap
  <2> HIDE DEF b
  <2>6. /\ DOMAIN a = DOMAIN parser /\ \A f \in DOMAIN parser \ {"completed"} : a[f] = parser[f]
    OBVIOUS
  <2> HIDE DEF a
  <2>7. Enveloped(a, h) /\ "open_blocks" \in DOMAIN a /\ a.open_blocks = parser.open_blocks
    BY <1>1, <2>6 DEF ResponsesHeld, Enveloped, EnvelopeFlags
  <2>8. ResponsesHeld(a, h, u)  BY <1>1, <1>2, <2>2, <2>7 DEF ResponsesHeld, UpTyped
  <2>9. ResponsesBack(a, h, u)  BY <2>2, <2>8 DEF ResponsesBack
  <2>10. h.stop = {}  BY <1>1, <1>2 DEF ResponsesBack, ResponsesHeld
  <2> QED  BY <2>3, <2>4, <2>5, <2>9, <2>10 DEF ResponsesFed
<1>3. CASE in = [kind |-> "other"] /\ u = Follow(in) /\ up.phase = "stopped"
  <2>1. in.kind = "other"  BY <1>3
  <2>2. /\ u.phase = "stopped" /\ u.open = up.open /\ u.next = up.next /\ u.tokens = up.tokens
        /\ u.called = up.called /\ u.reason = up.reason /\ u.reasoned = up.reasoned
    BY <1>1, <1>3, <2>1, FollowIs DEF ResponsesHeld, UpTyped
  <2>3. r = Start(parser)  BY <2>1 DEF ResponsesInput
  <2>4. r.st = parser /\ Leads(h, r.out, h, t)  BY <2>3, MishapLeads DEF Mishap
  <2>5. ResponsesHeld(parser, h, u)  BY <1>1, <1>3, <2>2 DEF ResponsesHeld, UpTyped
  <2>6. ResponsesBack(parser, h, u)  BY <2>2, <2>5 DEF ResponsesBack
  <2> QED  BY <2>2, <2>4, <2>6 DEF ResponsesFed
<1>4. CASE in.kind \in {"broken", "garbage", "error"} /\ u = up
  <2>1. Mishap(r, parser)  BY <1>4 DEF ResponsesInput, Mishap, When
  <2>2. r.st = parser /\ Leads(h, r.out, h, t)  BY <2>1, MishapLeads
  <2> QED  BY <1>4, <2>2 DEF ResponsesFed
<1> QED  BY <1>2, <1>3, <1>4

(* The drain tail: what is open is closed and the response ended.          *)
LEMMA ResponsesFeedEof ==
    ASSUME NEW h, ResponsesBack(parser, h, up), up.phase # "gone", NEW u, u.phase = "gone",
           u.open = up.open, u.next = up.next, u.tokens = up.tokens, u.called = up.called,
           u.reason = up.reason, u.reasoned = up.reasoned, NEW r, r = ResponsesFinalize(parser)
    PROVE  ResponsesFed(h, r, u)
<1> DEFINE t == Terms("responses", u)
           o == parser.open_blocks
<1>1. /\ Enveloped(parser, h) /\ "open_blocks" \in DOMAIN parser /\ UpTyped(up)
      /\ up.next <= MaxIndex + 1 /\ h.spent = 0 /\ OpenAs(h, o, up.next) /\ h \in Account
      /\ ("ResponseStop" \notin h.seen => up.tokens = 0 /\ h.stop = {} /\ "MessageStop" \notin h.seen)
      /\ ("ResponseStop" \in h.seen => DOMAIN o = {})
      /\ (DOMAIN o # {} => "MessageStart" \in h.seen)
  BY DEF ResponsesBack, ResponsesHeld, Enveloped
<1>2. UpTyped(u)  BY <1>1 DEF UpTyped
<1> HIDE DEF o
<1>3. CASE parser.response_stop \/ ~parser.response_start
  <2>1. r = Start(parser)  BY <1>3 DEF ResponsesFinalize
  <2>2. r.st = parser /\ Leads(h, r.out, h, t)  BY <2>1, MishapLeads DEF Mishap
  <2>3. ResponsesHeld(parser, h, u)  BY <1>1, <1>2 DEF ResponsesHeld, o
  <2>4. ResponsesBack(parser, h, u)  BY <1>1, <1>3, <2>3 DEF ResponsesBack, Enveloped
  <2> QED  BY <2>2, <2>4 DEF ResponsesFed
<1>4. CASE ~(parser.response_stop \/ ~parser.response_start)
  <2> DEFINE s == Start(parser)
             a == EnsureMessageStart(s)
             c == [st |-> [a.st EXCEPT !.open_blocks = <<>>], out |-> Cat(a.out, Closers(o))]
             m == Ensure(c, "message_stop", MessageStop("EndTurn"))
  <2>1. /\ "ResponseStart" \in h.seen /\ "ResponseStop" \notin h.seen /\ up.tokens = 0
        /\ h.stop = {} /\ "MessageStop" \notin h.seen
    BY <1>1, <1>4 DEF Enveloped
  <2>2. r = Ensure(m, "response_stop", ResponseStop({}))
    BY <1>4, Zenon DEF ResponsesFinalize, Closers, Cat, o
  <2>3. s.st = parser /\ s.out = <<>> /\ Shaped(s)  BY DEF Start, Shaped
  <2>4. Ahead(h, s, h, t)  BY <1>1, <2>3, LeadsNothing DEF Ahead
  <2>5. h.seen = {"ResponseStart"} \/ "MessageStart" \in h.seen
    BY <1>1, <2>1 DEF Account, Envelopes
  <2> HIDE DEF s, t
  <2>6. PICK k : /\ AheadTo(h, s, h, a, k, t) /\ k.stop = h.stop
                 /\ k.seen = h.seen \cup {"MessageStart"}
    BY <2>4, <2>5, EnsuresMessage
  <2> HIDE DEF a
  <2>7. /\ "open_blocks" \in DOMAIN a.st /\ Enveloped(a.st, k) /\ Leads(h, a.out, k, t)
        /\ k.stage = h.stage /\ k.spent = 0
    BY <1>1, <2>3, <2>6 DEF AheadTo, Ahead, SameRest
  <2>8. InMessage(k) /\ OpenAs(k, o, up.next)
    BY <1>1, <2>1, <2>6, <2>7, OpenAsAlike DEF InMessage, Enveloped
  <2>9. /\ DOMAIN o \subseteq BlockIndices
        /\ \A j \in DOMAIN o : o[j] \in ContentBlockKind /\ k.stage[j] = StageOf(o[j])
    BY <2>8 DEF OpenAs
  <2>10. PICK n : Leads(k, Closers(o), n, t) /\ AllClosed(k, o, n)  BY <2>8, <2>9, ClosesAll
  <2>11. Leads(h, Cat(a.out, Closers(o)), n, t)  BY <2>7, <2>10, LeadsJoin
  <2>12. /\ n \in Account /\ n.seen = k.seen /\ n.stop = k.stop /\ n.spent = k.spent
         /\ \A j \in DOMAIN o : n.stage[j] = "closed"
         /\ \A j \in BlockIndices \ DOMAIN o : n.stage[j] = k.stage[j]
    BY <2>10 DEF AllClosed, InMessage, Alike
  <2>13. OpenAs(n, <<>>, up.next)
    <3>1. DOMAIN <<>> = {}  OBVIOUS
    <3>2. \A x \in ContentBlockKind : StageOf(x) # "new"  BY DEF ContentBlockKind, StageOf
    <3>3. \A j \in BlockIndices : j >= up.next => j \notin DOMAIN o  BY <2>8, <3>2 DEF OpenAs
    <3> QED  BY <2>8, <2>12, <3>1, <3>3 DEF OpenAs
  <2>14. c.st = [a.st EXCEPT !.open_blocks = <<>>] /\ c.out = Cat(a.out, Closers(o)) /\ Shaped(c)
    BY DEF Shaped
  <2> HIDE DEF c
  <2>15. Enveloped(c.st, n) /\ "open_blocks" \in DOMAIN c.st /\ c.st.open_blocks = <<>>
    BY <2>7, <2>12, <2>14, BlocksSet
  <2>16. Ahead(h, c, n, t) /\ AllQuiet(n)
    BY <2>11, <2>13, <2>14, <2>15, OpenAsQuiet DEF Ahead
  <2>17. n.spent = t.tokens /\ Honest("EndTurn", t)
    BY <2>1, <2>7, <2>12 DEF Terms, Honest, t
  <2>18. PICK f : /\ AheadTo(h, c, n, r, f, t)
                  /\ f.seen = n.seen \cup {"MessageStop", "ResponseStop"}
    BY <2>1, <2>2, <2>6, <2>12, <2>16, <2>17, EnsuresEnd
  <2>19. /\ Leads(h, r.out, f, t) /\ Enveloped(r.st, f) /\ f.stage = n.stage /\ f.spent = 0
         /\ "open_blocks" \in DOMAIN r.st /\ r.st.open_blocks = <<>> /\ f \in Account
    BY <2>7, <2>12, <2>15, <2>18 DEF AheadTo, Ahead, SameRest, EnvelopeFlags, Enveloped
  <2>20. OpenAs(f, <<>>, u.next)  BY <2>13, <2>19, OpenAsAlike
  <2>21. DOMAIN r.st.open_blocks = {}  BY <2>19
  <2>22. ResponsesHeld(r.st, f, u)
    BY <1>1, <1>2, <2>18, <2>19, <2>20, <2>21 DEF ResponsesHeld
  <2>23. ResponsesBack(r.st, f, u)  BY <2>18, <2>22 DEF ResponsesBack
  <2> QED  BY <2>19, <2>23 DEF ResponsesFed, t
<1> QED  BY <1>3, <1>4

(* Whatever comes next.                                                    *)
LEMMA ResponsesFeed ==
    ASSUME provider = "responses", NEW h, ResponsesBack(parser, h, up), up.phase # "gone",
           NEW in, NEW u,
           \/ in \in ResponsesOffers /\ u = Follow(in)
           \/ in \in Faults /\ u = up
           \/ in = [kind |-> "eof"] /\ u.phase = "gone",
           u.phase = "gone" => u.open = up.open /\ u.next = up.next /\ u.tokens = up.tokens
                               /\ u.called = up.called /\ u.reason = up.reason /\ u.reasoned = up.reasoned,
           NEW r, r = ResponsesInput(parser, in)
    PROVE  /\ ResponsesFed(h, r, u)
           /\ h.stop # {} => u.called = up.called /\ u.reason = up.reason /\ u.reasoned = up.reasoned
<1>1. up.phase \in {"idle", "live", "stopped"} /\ (up.phase \in {"idle", "live"} => h.stop = {})
  BY DEF ResponsesBack, ResponsesHeld
<1>2. CASE in \in ResponsesOffers /\ u = Follow(in)
  <2>1. CASE up.phase = "idle"
    <3>1. in = [kind |-> "created"]  BY <1>2, <2>1 DEF ResponsesOffers
    <3> QED  BY <1>1, <1>2, <2>1, <3>1, ResponsesFeedCreated
  <2>2. CASE up.phase = "stopped"
    <3>1. in = [kind |-> "other"]  BY <1>2, <2>2 DEF ResponsesOffers
    <3> QED  BY <1>2, <2>2, <3>1, ResponsesFeedRest
  <2>3. CASE up.phase = "live"
    <3>1. \/ in = [kind |-> "created"]
          \/ in = [kind |-> "failed"]
          \/ in \in {[kind |-> "item_added", index |-> up.next, item |-> t] :
                        t \in {x \in {"message", "function_call", "reasoning"} : up.next <= MaxIndex}}
          \/ in \in {[kind |-> "text_delta", index |-> i] :
                        i \in {j \in DOMAIN up.open : up.open[j] = "message"}}
          \/ in \in {[kind |-> "args_delta", index |-> i] :
                        i \in {j \in DOMAIN up.open : up.open[j] = "function_call"}}
          \/ in \in {[kind |-> "item_done", index |-> i, item |-> up.open[i]] : i \in DOMAIN up.open}
          \/ in \in {[kind |-> "completed", status |-> t, usage |-> v] :
                        t \in {x \in {"completed", "incomplete"} : DOMAIN up.open = {}}, v \in UsageNow}
      BY <1>2, <2>3 DEF ResponsesOffers
    <3>2. CASE in = [kind |-> "created"]  BY <1>1, <1>2, <2>3, <3>2, ResponsesFeedCreated
    <3>3. CASE in = [kind |-> "failed"]  BY <1>2, <2>3, <3>3, ResponsesFeedRest
    <3>4. CASE in \in {[kind |-> "item_added", index |-> up.next, item |-> t] :
                          t \in {x \in {"message", "function_call", "reasoning"} : up.next <= MaxIndex}}
      <4>1. PICK t \in {x \in {"message", "function_call", "reasoning"} : up.next <= MaxIndex} :
               in = [kind |-> "item_added", index |-> up.next, item |-> t]
        BY <3>4
      <4>2. up.next <= MaxIndex /\ t \in {"message", "function_call", "reasoning"}  OBVIOUS
      <4> QED  BY <1>1, <1>2, <2>3, <4>1, <4>2, ResponsesFeedAdded
    <3>5. CASE in \in {[kind |-> "text_delta", index |-> i] :
                          i \in {j \in DOMAIN up.open : up.open[j] = "message"}}
      <4>1. PICK i \in DOMAIN up.open :
               up.open[i] = "message" /\ in = [kind |-> "text_delta", index |-> i]
        BY <3>5
      <4> QED  BY <1>1, <1>2, <2>3, <4>1, ResponsesFeedWithin
    <3>6. CASE in \in {[kind |-> "args_delta", index |-> i] :
                          i \in {j \in DOMAIN up.open : up.open[j] = "function_call"}}
      <4>1. PICK i \in DOMAIN up.open :
               up.open[i] = "function_call" /\ in = [kind |-> "args_delta", index |-> i]
        BY <3>6
      <4> QED  BY <1>1, <1>2, <2>3, <4>1, ResponsesFeedWithin
    <3>7. CASE in \in {[kind |-> "item_done", index |-> i, item |-> up.open[i]] : i \in DOMAIN up.open}
      <4>1. PICK i \in DOMAIN up.open : in = [kind |-> "item_done", index |-> i, item |-> up.open[i]]
        BY <3>7
      <4> QED  BY <1>1, <1>2, <2>3, <4>1, ResponsesFeedWithin
    <3>8. CASE in \in {[kind |-> "completed", status |-> t, usage |-> v] :
                          t \in {x \in {"completed", "incomplete"} : DOMAIN up.open = {}}, v \in UsageNow}
      <4>1. PICK t \in {x \in {"completed", "incomplete"} : DOMAIN up.open = {}}, v \in UsageNow :
               in = [kind |-> "completed", status |-> t, usage |-> v]
        BY <3>8
      <4>2. DOMAIN up.open = {} /\ t \in {"completed", "incomplete"}  OBVIOUS
      <4> QED  BY <1>1, <1>2, <2>3, <4>1, <4>2, ResponsesFeedCompleted
    <3> QED  BY <3>1, <3>2, <3>3, <3>4, <3>5, <3>6, <3>7, <3>8
  <2> QED  BY <1>1, <2>1, <2>2, <2>3
<1>3. CASE in \in Faults /\ u = up
  <2>1. in.kind \in {"broken", "garbage", "error"}  BY <1>3 DEF Faults
  <2> QED  BY <1>3, <2>1, ResponsesFeedRest
<1>4. CASE in = [kind |-> "eof"] /\ u.phase = "gone"
  <2>1. r = ResponsesFinalize(parser)  BY <1>4 DEF ResponsesInput
  <2> QED  BY <1>4, <2>1, ResponsesFeedEof
<1> QED  BY <1>2, <1>3, <1>4
-----------------------------------------------------------------------------
(* The invariant of one response.                                          *)
LEMMA InputShape ==
    ASSUME UpShape(up), up.phase # "gone", NEW in, NEW u, Input(in, u)
    PROVE  /\ UpShape(u)
           /\ u.phase = "gone" =>
                 /\ in = [kind |-> "eof"] /\ u.open = up.open /\ u.next = up.next
                 /\ u.tokens = up.tokens /\ u.called = up.called /\ u.reason = up.reason /\ u.reasoned = up.reasoned
<1>1. CASE in \in Offers /\ u = Follow(in)
  <2>1. UpShape(u)  BY <1>1 DEF Follow, UpShape
  <2>2. u.phase # "gone"
    <3>1. u.phase = CASE Finishing(in) -> "stopped"
                      [] in.kind = "message_delta" -> "closing"
                      [] OTHER -> IF up.phase = "idle" THEN "live" ELSE up.phase
      BY <1>1 DEF Follow
    <3>2. CASE Finishing(in) /\ in.kind = "message_delta"
      BY <3>2 DEF Finishing
    <3>3. CASE ~(Finishing(in) /\ in.kind = "message_delta")  BY <3>1, <3>3
    <3> QED  BY <3>2, <3>3
  <2> QED  BY <2>1, <2>2
<1>2. CASE in \in Faults /\ u = up  BY <1>2
<1>3. CASE in = [kind |-> "eof"] /\ u = [up EXCEPT !.phase = "gone"]
  <2>1. u = [phase |-> "gone", open |-> up.open, next |-> up.next, tokens |-> up.tokens,
             called |-> up.called, reason |-> up.reason, reasoned |-> up.reasoned]
    BY <1>3 DEF UpShape
  <2> QED  BY <1>3, <2>1 DEF UpShape
<1> QED  BY <1>1, <1>2, <1>3 DEF Input

LEMMA ChatThrough ==
    ASSUME NEW st, NEW h, NEW u, ChatBack(st, h, u)
    PROVE  Through("chat", h, u)
<1>1. /\ h \in Account /\ u.tokens \in Nat
      /\ st.response_start <=> "ResponseStart" \in h.seen
      /\ st.response_stop <=> "ResponseStop" \in h.seen
  BY DEF ChatBack, ChatHeld, Flags
<1>2. ASSUME u.phase = "gone" PROVE AllQuiet(h)
  <2>1. st.response_stop \/ ~st.response_start  BY <1>2 DEF ChatBack
  <2>2. st.message_stop \/ ~st.message_start  BY <2>1 DEF ChatBack, ChatHeld, Flags
  <2>3. ~st.text_open /\ st.open_tools = {}  BY <2>2 DEF ChatBack, ChatHeld
  <2>4. ChatHeld(st, h)  BY DEF ChatBack
  <2>5. /\ h.stage[0] \in {"new", "closed"} /\ h.stage[1] \in {"new", "closed"}
        /\ h.stage[2] \in {"new", "closed"} /\ \A i \in BlockIndices \ {0, 1, 2} : h.stage[i] = "new"
    BY <2>3, <2>4 DEF ChatHeld
  <2> QED  BY <2>5 DEF AllQuiet
<1>3. u.phase = "gone" => ("ResponseStart" \in h.seen => "ResponseStop" \in h.seen)
  BY <1>1 DEF ChatBack
<1> QED  BY <1>1, <1>2, <1>3 DEF Through

LEMMA ParserThrough ==
    ASSUME NEW p \in Proved, NEW st, NEW h, NEW u, ParserBack(p, st, h, u)
    PROVE  Through(p, h, u)
BY ChatThrough, ResponsesThrough, AnthropicThrough, GeminiThrough DEF ParserBack, Proved

(* Every parser, whatever comes next.                                      *)
LEMMA ParserFeed ==
    ASSUME TextAfterTools = FALSE, provider \in Proved, UpShape(up), Piecemeal,
           NEW h, ParserBack(provider, parser, h, up), streamed => "ResponseStop" \notin h.seen,
           up.phase # "gone", NEW in, NEW u, Input(in, u), NEW r \in Parse(in)
    PROVE  /\ \E k : Leads(h, r.out, k, Terms(provider, u)) /\ ParserBack(provider, r.st, k, u)
           /\ h.stop # {} => u.called = up.called /\ u.reason = up.reason /\ u.reasoned = up.reasoned
<1>1. CASE provider = "chat"
  <2>1. ChatBack(parser, h, up) /\ "ResponseStop" \notin h.seen
    BY <1>1 DEF ParserBack, Piecemeal
  <2>2. PICK order \in Orders : r = ChatInput(parser, in, order)  BY <1>1 DEF Parse
  <2>3. \/ in \in ChatOffers /\ u = Follow(in)
        \/ in \in Faults /\ u = up
        \/ in = [kind |-> "eof"] /\ u = [up EXCEPT !.phase = "gone"]
    BY <1>1 DEF Input, Offers
  <2>5. u.phase = "gone" => u.open = up.open /\ u.tokens = up.tokens
                            /\ u.called = up.called /\ u.reason = up.reason /\ u.reasoned = up.reasoned
    BY InputShape
  <2>4. /\ ChatFed(h, r, u)
        /\ h.stop # {} => u.called = up.called /\ u.reason = up.reason /\ u.reasoned = up.reasoned
    BY <1>1, <2>1, <2>2, <2>3, <2>5, ChatFeed
  <2> QED  BY <1>1, <2>4 DEF ChatFed, ParserBack
<1>2. CASE provider = "anthropic"
  <2>1. AnthropicAt(h)  BY <1>2 DEF ParserBack, Piecemeal, AnthropicAt
  <2>2. r = AnthropicInput(parser, in)  BY <1>2 DEF Parse
  <2>3. /\ \/ in \in AnthropicOffers /\ u = Follow(in)
           \/ in \in Faults /\ u = up
           \/ in = [kind |-> "eof"] /\ u.phase = "gone"
        /\ u.phase = "gone" => u.open = up.open /\ u.next = up.next /\ u.tokens = up.tokens
                               /\ u.called = up.called /\ u.reason = up.reason /\ u.reasoned = up.reasoned
    <3>1. \/ in \in AnthropicOffers /\ u = Follow(in)
          \/ in \in Faults /\ u = up
          \/ in = [kind |-> "eof"] /\ u = [up EXCEPT !.phase = "gone"]
      BY <1>2 DEF Input, Offers
    <3> QED  BY <3>1, InputShape DEF UpShape
  <2>4. AnthropicFed(h, r, u) /\ h.stop = {}  BY <2>1, <2>2, <2>3, AnthropicFeed
  <2> QED  BY <1>2, <2>4 DEF AnthropicFed, ParserBack
<1>3. CASE provider = "gemini"
  <2>1. GeminiBack(parser, h, up) /\ "ResponseStop" \notin h.seen
    BY <1>3 DEF ParserBack, Piecemeal
  <2>2. r = GeminiInput(parser, in)  BY <1>3 DEF Parse
  <2>3. /\ \/ in \in GeminiOffers /\ u = Follow(in)
           \/ in \in Faults /\ u = up
           \/ in = [kind |-> "eof"] /\ u.phase = "gone"
        /\ u.phase = "gone" => u.tokens = up.tokens /\ u.called = up.called /\ u.reason = up.reason
                               /\ u.reasoned = up.reasoned
    <3>1. \/ in \in GeminiOffers /\ u = Follow(in)
          \/ in \in Faults /\ u = up
          \/ in = [kind |-> "eof"] /\ u = [up EXCEPT !.phase = "gone"]
      BY <1>3 DEF Input, Offers
    <3> QED  BY <3>1, InputShape DEF UpShape
  <2>4. GeminiFed(h, r, u) /\ h.stop = {}  BY <1>3, <2>1, <2>2, <2>3, GeminiFeed
  <2> QED  BY <1>3, <2>4 DEF GeminiFed, ParserBack
<1>4. CASE provider = "responses"
  <2>1. ResponsesBack(parser, h, up)  BY <1>4 DEF ParserBack
  <2>2. r = ResponsesInput(parser, in)  BY <1>4 DEF Parse
  <2>3. /\ \/ in \in ResponsesOffers /\ u = Follow(in)
           \/ in \in Faults /\ u = up
           \/ in = [kind |-> "eof"] /\ u.phase = "gone"
        /\ u.phase = "gone" => u.open = up.open /\ u.next = up.next /\ u.tokens = up.tokens
                               /\ u.called = up.called /\ u.reason = up.reason /\ u.reasoned = up.reasoned
    <3>1. \/ in \in ResponsesOffers /\ u = Follow(in)
          \/ in \in Faults /\ u = up
          \/ in = [kind |-> "eof"] /\ u = [up EXCEPT !.phase = "gone"]
      BY <1>4 DEF Input, Offers
    <3> QED  BY <3>1, InputShape DEF UpShape
  <2>4. /\ ResponsesFed(h, r, u)
        /\ h.stop # {} => u.called = up.called /\ u.reason = up.reason /\ u.reasoned = up.reasoned
    BY <1>4, <2>1, <2>2, <2>3, ResponsesFeed
  <2> QED  BY <1>4, <2>4 DEF ResponsesFed, ParserBack
<1> QED  BY <1>1, <1>2, <1>3, <1>4 DEF Proved

LEMMA Restated ==
    ASSUME provider \in Proved, UNCHANGED request, UpShape(up'), NEW g, NEW h, NEW w,
           Holds(provider, frontend, streamed, up', events', encoder', frames', life', view', ended',
                 g, h, w),
           Back(provider, streamed, parser', h, up')
    PROVE  StreamInv'
<1>1. provider' = provider /\ frontend' = frontend /\ streamed' = streamed  BY DEF request
<1> QED  BY <1>1 DEF StreamInv

(* More from the upstream.                                                 *)
LEMMA FeedKeeps ==
    ASSUME TextAfterTools = FALSE, StreamInv, Polling, Piecemeal, up.phase # "gone",
           NEW in, Feed(in), Input(in, up')
    PROVE  StepKept
<1>1. PICK g, h, w :
         /\ Holds(provider, frontend, streamed, up, events, encoder, frames, life, view, ended,
                  g, h, w)
         /\ Back(provider, streamed, parser, h, up)
  BY DEF StreamInv
<1>2. PICK r \in Parse(in) : parser' = r.st /\ events' = r.out  BY DEF Feed
<1>3. /\ UNCHANGED request /\ encoder' = encoder /\ frames' = frames /\ life' = life
      /\ view' = view /\ ended' = ended
  BY DEF Feed
<1>4. /\ ~ended /\ frames = <<>> /\ events = <<>> /\ ~encoder.done
  BY DEF Polling
<1>5. provider \in Proved /\ UpShape(up)  BY DEF StreamInv
<1>6. ParserBack(provider, parser, h, up)  BY <1>1 DEF Back, Piecemeal
<1>7. streamed => "ResponseStop" \notin h.seen
  <2>1. ASSUME streamed PROVE "ResponseStop" \notin h.seen
    <3>1. /\ frontend \in {"anthropic", "chat", "responses"}
          /\ FrontHolds(frontend, streamed, g, encoder, w)
          /\ Leads(g, events, h, Terms(provider, up))
      BY <1>1 DEF Holds
    <3>2. FrontHolds(frontend, TRUE, g, encoder, w)  BY <2>1, <3>1 DEF FrontHolds
    <3>3. "ResponseStop" \notin g.seen  BY <1>4, <3>1, <3>2, FrontOpen
    <3>4. h = g  BY <1>4, <3>1, LeadsDone
    <3> QED  BY <3>3, <3>4
  <2> QED  BY <2>1
<1>8. /\ \E k : Leads(h, r.out, k, Terms(provider, up')) /\ ParserBack(provider, r.st, k, up')
      /\ h.stop # {} => up'.called = up.called /\ up'.reason = up.reason /\ up'.reasoned = up.reasoned
  BY <1>2, <1>5, <1>6, <1>7, ParserFeed
<1>9. PICK k : Leads(h, r.out, k, Terms(provider, up')) /\ ParserBack(provider, r.st, k, up')
  BY <1>8
<1>10. Through(provider, k, up')  BY <1>5, <1>9, ParserThrough
<1>11. Holds(provider, frontend, streamed, up', r.out, encoder, frames, life, view, ended, g, k, w)
  BY <1>1, <1>4, <1>8, <1>9, <1>10, FeedHolds
<1>12. Holds(provider, frontend, streamed, up', events', encoder', frames', life', view', ended',
             g, k, w)
  BY <1>2, <1>3, <1>11
<1>13. UpShape(up')  BY <1>5, InputShape
<1>14. Back(provider, streamed, parser', k, up')  BY <1>2, <1>9 DEF Back, Piecemeal
<1>15. StreamInv'  BY <1>3, <1>5, <1>12, <1>13, <1>14, Restated
<1>16. frontend' = frontend /\ view' = view /\ life' = life  BY <1>3 DEF request
<1> QED  BY <1>15, <1>16 DEF StepKept

(* A unary answer.                                                         *)
LEMMA AnswerKeeps ==
    ASSUME StreamInv, Answer
    PROVE  StepKept
<1>1. PICK g, h, w :
         /\ Holds(provider, frontend, streamed, up, events, encoder, frames, life, view, ended,
                  g, h, w)
         /\ Back(provider, streamed, parser, h, up)
  BY DEF StreamInv
<1>2. PICK body \in Bodies :
         /\ events' = UnaryEvents(provider, body)
         /\ up' = [up EXCEPT !.phase = "gone",
                             !.tokens = IF body.kind = "body" /\ body.usage # {}
                                        THEN CHOOSE n \in body.usage : TRUE ELSE 0]
  BY DEF Answer
<1>3. /\ UNCHANGED request /\ encoder' = encoder /\ frames' = frames /\ life' = life
      /\ view' = view /\ ended' = ended /\ parser' = parser
      /\ ~Piecemeal /\ up.phase = "idle"
  BY DEF Answer
<1>4. /\ ~ended /\ frames = <<>> /\ events = <<>> /\ ~encoder.done
  BY DEF Answer, Polling
<1>5. provider \in Proved /\ UpShape(up)  BY DEF StreamInv
<1>6. /\ ~streamed /\ provider # "responses" /\ provider \in {"chat", "deepseek", "anthropic", "gemini"}
  BY <1>3, <1>5 DEF Piecemeal, Proved
<1>7. h = NoAccount /\ up.tokens = 0 /\ ~up.reasoned  BY <1>1, <1>3, <1>6 DEF Back, Unasked
<1> DEFINE m == IF body.kind = "body" /\ body.usage # {} THEN CHOOSE n \in body.usage : TRUE ELSE 0
           y == [up EXCEPT !.phase = "gone"]
<1>8. y = [phase |-> "gone", open |-> up.open, next |-> up.next, tokens |-> up.tokens,
           called |-> up.called, reason |-> up.reason, reasoned |-> up.reasoned]
  BY <1>5 DEF UpShape
<1>9. up' = [y EXCEPT !.tokens = m]  BY <1>2
<1> HIDE DEF y, m
<1>10. up' = [phase |-> "gone", open |-> up.open, next |-> up.next, tokens |-> m,
              called |-> up.called, reason |-> up.reason, reasoned |-> up.reasoned]
  BY <1>8, <1>9
<1>11. UpShape(up') /\ up'.phase = "gone" /\ up'.tokens = m /\ up'.called = up.called /\ up'.reason = up.reason
       /\ up'.reasoned = up.reasoned
  BY <1>10 DEF UpShape
<1>12. m \in Nat /\ (body.kind = "body" => m = Counted(body.usage))
  <2>1. body.kind = "body" => m = Counted(body.usage)  BY DEF m, Counted
  <2>2. CASE body.kind = "body"
    <3>1. PICK u \in {{}} \cup {{n} : n \in TokenCounts} : body.usage = u
      BY <1>2, <2>2 DEF Bodies
    <3>2. CASE u = {}  BY <2>1, <2>2, <3>1, <3>2 DEF Counted
    <3>3. ASSUME NEW n \in TokenCounts, u = {n} PROVE m \in Nat
      <4>1. (CHOOSE x \in {n} : TRUE) = n  OBVIOUS
      <4>2. m = n  BY <2>1, <2>2, <3>1, <3>3, <4>1 DEF Counted
      <4> QED  BY <4>2, StreamingAssumption DEF TokenCounts
    <3> QED  BY <2>1, <3>1, <3>2, <3>3
  <2>3. CASE body.kind # "body"  BY <2>3 DEF m
  <2> QED  BY <2>1, <2>2, <2>3
<1> DEFINE t == Terms(provider, up')
<1>13. ~t.final /\ (body.kind = "body" => t.tokens = Counted(body.usage))
  BY <1>7, <1>11, <1>12 DEF Terms
<1> HIDE DEF t
<1>14. PICK k : Leads(NoAccount, UnaryEvents(provider, body), k, t) /\ Settles(k)
  BY <1>2, <1>6, <1>13, AnswerLeads
<1>15. Through(provider, k, up')  BY <1>11, <1>12, <1>14 DEF Through, Settles
<1>16. Leads(h, events', k, Terms(provider, up'))  BY <1>2, <1>7, <1>14 DEF t
<1>17. Holds(provider, frontend, streamed, up', events', encoder, frames, life, view, ended, g, k, w)
  BY <1>1, <1>4, <1>11, <1>15, <1>16, FeedHolds
<1>18. Holds(provider, frontend, streamed, up', events', encoder', frames', life', view', ended',
             g, k, w)
  BY <1>3, <1>17
<1>19. Back(provider, streamed, parser', k, up')  BY <1>6, <1>11 DEF Back, Unasked
<1>20. StreamInv'  BY <1>3, <1>5, <1>11, <1>18, <1>19, Restated
<1>21. frontend' = frontend /\ view' = view /\ life' = life  BY <1>3 DEF request
<1> QED  BY <1>20, <1>21 DEF StepKept

(* The encoder pulls an event.                                             *)
LEMMA PullKeeps ==
    ASSUME StreamInv, Pull
    PROVE  StepKept
<1>1. PICK g, h, w :
         /\ Holds(provider, frontend, streamed, up, events, encoder, frames, life, view, ended,
                  g, h, w)
         /\ Back(provider, streamed, parser, h, up)
  BY DEF StreamInv
<1> DEFINE e == Head(events)
           r == HandleOf(frontend, streamed, encoder, e)
<1>2. Handle(e) = r  BY Zenon DEF Handle, HandleOf
<1>3. /\ life' = Lifecycle!Record(life, e) /\ encoder' = Handle(e).st /\ frames' = Handle(e).out
      /\ events' = Tail(events)
      /\ UNCHANGED request /\ up' = up /\ parser' = parser /\ view' = view /\ ended' = ended
      /\ ~ended /\ frames = <<>> /\ events # <<>> /\ ~encoder.done
  BY DEF Pull
<1>4. encoder' = r.st /\ frames' = r.out  BY <1>2, <1>3
<1>5. provider \in Proved /\ UpShape(up)  BY DEF StreamInv
<1>9. r = HandleOf(frontend, streamed, encoder, e) /\ e = Head(events)  OBVIOUS
<1> HIDE DEF r, e
<1>6. /\ \E k, y : Holds(provider, frontend, streamed, up, Tail(events), r.st, r.out, life', view,
                         ended, k, h, y)
      /\ \E z \in Lifecycle!Event : Lifecycle!Legal(life, z) /\ life' = Lifecycle!Record(life, z)
  BY <1>1, <1>3, <1>9, PullHolds
<1>7. PICK k, y : Holds(provider, frontend, streamed, up, Tail(events), r.st, r.out, life', view,
                        ended, k, h, y)
  BY <1>6
<1>8. Holds(provider, frontend, streamed, up', events', encoder', frames', life', view', ended',
            k, h, y)
  BY <1>3, <1>4, <1>7
<1>10. StreamInv'  BY <1>1, <1>3, <1>5, <1>8, Restated
<1>11. Lifecycle!Next  BY <1>6 DEF Lifecycle!Next, Lifecycle!Emit
<1>12. frontend' = frontend /\ view' = view  BY <1>3 DEF request
<1> QED  BY <1>10, <1>11, <1>12 DEF StepKept

(* The body writes a frame.                                                *)
LEMMA WriteKeeps ==
    ASSUME StreamInv, Write
    PROVE  StepKept
<1>1. PICK g, h, w :
         /\ Holds(provider, frontend, streamed, up, events, encoder, frames, life, view, ended,
                  g, h, w)
         /\ Back(provider, streamed, parser, h, up)
  BY DEF StreamInv
<1>2. /\ frames # <<>> /\ view' = Client!See(view, Head(frames)) /\ frames' = Tail(frames)
      /\ UNCHANGED request /\ up' = up /\ parser' = parser /\ events' = events
      /\ encoder' = encoder /\ life' = life /\ ended' = ended
  BY DEF Write
<1>3. provider \in Proved /\ UpShape(up)  BY DEF StreamInv
<1>4. /\ Holds(provider, frontend, streamed, up, events, encoder, Tail(frames), life, view', ended,
               g, h, w)
      /\ ViewShape(view) /\ Fits(frontend, view, Head(frames), Terms(provider, up))
  BY <1>1, <1>2, WriteHolds
<1>5. Holds(provider, frontend, streamed, up', events', encoder', frames', life', view', ended',
            g, h, w)
  BY <1>2, <1>4
<1>6. StreamInv'  BY <1>1, <1>2, <1>3, <1>5, Restated
<1>7. frontend' = frontend /\ frontend \in {"anthropic", "chat", "responses"}
  BY <1>1, <1>2 DEF request, Holds
<1>8. Client!Next  BY <1>2, <1>4, <1>7, ClientStep
<1> QED  BY <1>2, <1>6, <1>8 DEF StepKept

(* The body ends.                                                          *)
LEMMA EndKeeps ==
    ASSUME StreamInv, End
    PROVE  StepKept
<1>1. PICK g, h, w :
         /\ Holds(provider, frontend, streamed, up, events, encoder, frames, life, view, ended,
                  g, h, w)
         /\ Back(provider, streamed, parser, h, up)
  BY DEF StreamInv
<1>2. /\ ~ended /\ frames = <<>> /\ (encoder.done \/ (events = <<>> /\ up.phase = "gone"))
      /\ ended' = TRUE /\ life' = IF encoder.done THEN life ELSE Lifecycle!End(life)
      /\ UNCHANGED request /\ up' = up /\ parser' = parser /\ events' = events
      /\ encoder' = encoder /\ frames' = frames /\ view' = view
  BY DEF End
<1>3. provider \in Proved /\ UpShape(up)  BY DEF StreamInv
<1>4. Of(life', g) /\ (life'.ended => events = <<>> /\ up.phase = "gone")
  BY <1>1, <1>2, EndHolds
<1>9. ended' \in BOOLEAN /\ ended'  BY <1>2
<1>5. Holds(provider, frontend, streamed, up', events', encoder', frames', life', view', ended',
            g, h, w)
  BY <1>1, <1>2, <1>4, <1>9 DEF Holds
<1>6. StreamInv'  BY <1>1, <1>2, <1>3, <1>5, Restated
<1>7. frontend' = frontend /\ view' = view  BY <1>2 DEF request
<1>8. life' = life \/ Lifecycle!Next  BY <1>2 DEF Lifecycle!Next, Lifecycle!Finish
<1> QED  BY <1>6, <1>7, <1>8 DEF StepKept

LEMMA ChatBegins ==
    ASSUME NEW u, u = [phase |-> "idle", open |-> {}, next |-> 0, tokens |-> 0,
                       called |-> FALSE, reason |-> "none", reasoned |-> FALSE]
    PROVE  ChatBack(ChatInit, NoAccount, u)
<1> DEFINE st == ChatInit
<1>1. st = [response_start |-> FALSE, message_start |-> FALSE, message_stop |-> FALSE,
            response_stop |-> FALSE, completed |-> FALSE, text_open |-> FALSE, open_tools |-> {}]
  <2> DEFINE f == NoEnvelope
             g == [text_open |-> FALSE, open_tools |-> {}]
  <2>1. /\ DOMAIN f = {"response_start", "message_start", "message_stop", "response_stop", "completed"}
        /\ \A x \in DOMAIN f : f[x] = FALSE
    BY DEF NoEnvelope
  <2>2. DOMAIN g = {"text_open", "open_tools"} /\ g["text_open"] = FALSE /\ g["open_tools"] = {}
    OBVIOUS
  <2>3. st = [x \in DOMAIN f \cup DOMAIN g |-> IF x \in DOMAIN f THEN f[x] ELSE g[x]]
    BY DEF ChatInit, Join
  <2> HIDE DEF f, g, st
  <2> QED  BY <2>1, <2>2, <2>3
<1>2. NoAccount \in Account /\ NoAccount.seen = {} /\ NoAccount.stop = {} /\ NoAccount.spent = 0
      /\ \A i \in BlockIndices : NoAccount.stage[i] = "new"
  BY NothingYet DEF Sound, NoAccount
<1> HIDE DEF st
<1>3. st \in ChatState  BY <1>1 DEF ChatState
<1>4. Flags(st, NoAccount)  BY <1>1, <1>2 DEF Flags
<1>5. ChatHeld(st, NoAccount)  BY <1>1, <1>2, <1>3, <1>4, SmallIndices DEF ChatHeld
<1>6. ChatBack(st, NoAccount, u)
  BY <1>1, <1>2, <1>5, SmallIndices DEF ChatBack, ToolsReady, TextReady
<1> QED  BY <1>6 DEF st

LEMMA InitKeeps ==
    ASSUME Providers \subseteq Proved, Init
    PROVE  StreamInv /\ Lifecycle!Init /\ Client!Init
<1>1. provider \in Proved  BY DEF Init
<1>2. up = [phase |-> "idle", open |-> IF provider \in {"chat", "deepseek"} THEN {} ELSE <<>>,
            next |-> 0, tokens |-> 0, called |-> FALSE, reason |-> "none", reasoned |-> FALSE]
  BY DEF Init
<1>3. UpShape(up) /\ up.phase = "idle" /\ up.tokens = 0 /\ ~up.reasoned  BY <1>2 DEF UpShape
<1>4. Holds(provider, frontend, streamed, up, events, encoder, frames, life, view, ended,
            NoAccount, NoAccount, Client!Blank)
  BY InitHolds
<1>5. ParserBack(provider, parser, NoAccount, up)
  <2>1. ASSUME provider = "chat" PROVE ChatBack(parser, NoAccount, up)
    <3>1. parser = ChatInit  BY <2>1 DEF Init, ParserInit
    <3> QED  BY <1>2, <2>1, <3>1, ChatBegins
  <2>2. ASSUME provider = "anthropic" PROVE AnthropicBack(parser, NoAccount, up)
    <3>1. parser = AnthropicInit  BY <2>2 DEF Init, ParserInit
    <3> QED  BY <1>2, <2>2, <3>1, AnthropicBegins
  <2>3. ASSUME provider = "gemini" PROVE GeminiBack(parser, NoAccount, up)
    <3>1. parser = GeminiInit  BY <2>3 DEF Init, ParserInit
    <3> QED  BY <1>2, <2>3, <3>1, GeminiBegins
  <2>4. ASSUME provider = "responses" PROVE ResponsesBack(parser, NoAccount, up)
    <3>1. parser = ResponsesInit  BY <2>4 DEF Init, ParserInit
    <3> QED  BY <1>2, <2>4, <3>1, ResponsesBegins
  <2> QED  BY <2>1, <2>2, <2>3, <2>4 DEF ParserBack
<1>6. Unasked(NoAccount, up)  BY <1>3 DEF Unasked
<1>7. Back(provider, streamed, parser, NoAccount, up)  BY <1>5, <1>6 DEF Back
<1>8. StreamInv  BY <1>1, <1>3, <1>4, <1>7 DEF StreamInv
<1>9. Lifecycle!Init /\ Client!Init  BY DEF Init, Lifecycle!Init, Client!Init
<1> QED  BY <1>8, <1>9

LEMMA NextKeeps ==
    ASSUME TextAfterTools = FALSE, StreamInv, [Next]_vars
    PROVE  StepKept
<1>1. CASE Arrive
  <2>1. PICK in \in Offers : Feed(in) /\ up' = Follow(in)  BY <1>1 DEF Arrive
  <2>2. Input(in, up')  BY <2>1 DEF Input
  <2> QED  BY <1>1, <2>1, <2>2, FeedKeeps DEF Arrive
<1>2. CASE Fail
  <2>1. PICK in \in Faults : Feed(in) /\ up' = up  BY <1>2 DEF Fail
  <2>2. Input(in, up')  BY <2>1 DEF Input
  <2> QED  BY <1>2, <2>1, <2>2, FeedKeeps DEF Fail
<1>3. CASE Eof
  <2>1. Input([kind |-> "eof"], up')  BY <1>3 DEF Eof, Input
  <2> QED  BY <1>3, <2>1, FeedKeeps DEF Eof
<1>4. CASE Answer  BY <1>4, AnswerKeeps
<1>5. CASE Pull  BY <1>5, PullKeeps
<1>6. CASE Write  BY <1>6, WriteKeeps
<1>7. CASE End  BY <1>7, EndKeeps
<1>8. CASE UNCHANGED vars
  <2>1. StreamInv'  BY <1>8 DEF vars, StreamInv
  <2>2. life' = life /\ frontend' = frontend /\ view' = view  BY <1>8 DEF vars
  <2> QED  BY <2>1, <2>2 DEF StepKept
<1>9. CASE Quiescent  BY <1>8, <1>9 DEF Quiescent
<1> QED  BY <1>1, <1>2, <1>3, <1>4, <1>5, <1>6, <1>7, <1>8, <1>9 DEF Next

(* The inductive invariant: some accounts g and h stand for what has been  *)
(* pulled and what has been parsed, the queue leads from one to the other, *)
(* and parser, encoder, validator and client view agree with them.         *)
THEOREM StreamInvariant ==
    ASSUME TextAfterTools = FALSE, Providers \subseteq Proved
    PROVE  Spec => []StreamInv
<1>1. Init => StreamInv  BY InitKeeps
<1>2. StreamInv /\ [Next]_vars => StreamInv'  BY NextKeeps DEF StepKept
<1> QED  BY <1>1, <1>2, PTL DEF Spec

(* Wherever the upstream fails or vanishes, the events pulled from its     *)
(* parser (`parse` of the providers' stream modules) satisfy every rule of *)
(* the validator, StreamLifecycle.                                         *)
THEOREM LifecycleImplemented ==
    ASSUME TextAfterTools = FALSE, Providers \subseteq Proved
    PROVE  Spec => LifecycleKept
<1>1. Init => Lifecycle!Init  BY InitKeeps
<1>2. StreamInv /\ [Next]_vars => [Lifecycle!Next]_life  BY NextKeeps DEF StepKept
<1> QED  BY <1>1, <1>2, StreamInvariant, PTL DEF Spec, LifecycleKept, Lifecycle!Spec

(* The frames the encoders (`*EncoderStream`) write are a stream of the    *)
(* client's dialect, ClientStream.                                         *)
THEOREM ClientImplemented ==
    ASSUME TextAfterTools = FALSE, Providers \subseteq Proved
    PROVE  Spec => ClientKept
<1>1. Init => Client!Init  BY InitKeeps
<1>2. StreamInv /\ [Next]_vars => [Client!Next]_<<frontend, view>>  BY NextKeeps DEF StepKept
<1> QED  BY <1>1, <1>2, StreamInvariant, PTL DEF Spec, ClientKept, Client!Spec

(* The drain tails (`finalize`): a source that ends early leaves no block  *)
(* open, and a client that was sent a beginning is sent an end or an error.*)
THEOREM TailDrained ==
    ASSUME TextAfterTools = FALSE, Providers \subseteq Proved
    PROVE  Spec => []DrainTail
<1>1. StreamInv => DrainTail  BY HoldsShows DEF StreamInv
<1> QED  BY <1>1, StreamInvariant, PTL

(* The token counts a client is told are the upstream's last ones          *)
(* (merge_usage, the encoders' ResponseStop).                              *)
THEOREM UsageTold ==
    ASSUME TextAfterTools = FALSE, Providers \subseteq Proved
    PROVE  Spec => []UsageExact
<1>1. StreamInv => UsageExact  BY HoldsShows DEF StreamInv
<1> QED  BY <1>1, StreamInvariant, PTL

(* Whatever reason the upstream ends with, after a tool call or not, a     *)
(* finished response tells the client what it means (the parsers' finish   *)
(* reasons, the encoders' stop reasons).                                   *)
THEOREM ReasonTold ==
    ASSUME TextAfterTools = FALSE, Providers \subseteq Proved
    PROVE  Spec => []ReasonKept
<1>1. StreamInv => ReasonKept  BY HoldsShows DEF StreamInv
<1> QED  BY <1>1, StreamInvariant, PTL
=============================================================================
