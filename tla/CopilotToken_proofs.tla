------------------------ MODULE CopilotToken_proofs ------------------------
(***************************************************************************)
(* Proofs about CopilotToken, for any number of callers and calls, every   *)
(* channel capacity, margin and lifetime.                                  *)
(***************************************************************************)
EXTENDS CopilotToken, TLAPS

Msg == [kind : {"get", "invalidate"}, from : Callers, call : Nat]
GetMsg == [kind : {"get"}, from : Callers, call : Nat]
CallerRec == [pc : {"idle", "get", "waiting", "calling", "invalidate"}, token : Token,
              starts : Nat, rejected : SUBSET Nat,
              outcome : {"none", "answered", "unauthorized", "cancelled", "error"}]

Shapes ==
    /\ clock \in Nat /\ issued \in Nat /\ revoked \subseteq 1..issued /\ entitled \in BOOLEAN
    /\ cached \in Token
    /\ channel \in Seq(Msg) /\ Len(channel) <= ChannelCap
    /\ actor \in Seq(GetMsg) /\ Len(actor) <= 1
    /\ caller \in [Callers -> CallerRec]

(* A token that is cached, in use or reported was issued.                  *)
KnownCached(t, n) == t = NoToken \/ t.id \in 1..n
KnownCalls(cl, n) ==
    \A c \in Callers :
        /\ cl[c].rejected \subseteq 1..n
        /\ cl[c].pc \in {"calling", "invalidate"} => cl[c].token.id \in 1..n

(* A Get in the channel was sent by the call its caller is making, or by   *)
(* an earlier one.                                                         *)
Numbered(ch, cl) ==
    \A j \in 1..Len(ch) :
        ch[j].kind = "get" =>
            /\ ch[j].call <= cl[ch[j].from].starts
            /\ cl[ch[j].from].pc = "get" => ch[j].call < cl[ch[j].from].starts

(* While a token that a caller has reported is still cached, an            *)
(* invalidation is in the channel, ahead of the Get the caller waits for.  *)
Ahead(ch, cl, c, i) ==
    \A j \in 1..Len(ch) :
        ch[j].kind = "get" /\ ch[j].from = c /\ cl[c].pc = "waiting" /\ cl[c].starts = ch[j].call
            => i < j
Covered(ch, cl, id) ==
    \A c \in Callers :
        id \in cl[c].rejected =>
            \E i \in 1..Len(ch) : ch[i].kind = "invalidate" /\ Ahead(ch, cl, c, i)

NotReused(cl) ==
    \A c \in Callers : cl[c].pc = "calling" => cl[c].token.id \notin cl[c].rejected

IInv ==
    /\ Shapes
    /\ KnownCached(cached, issued) /\ KnownCalls(caller, issued)
    /\ Numbered(channel, caller)
    /\ Covered(channel, caller, cached.id)
    /\ NotReused(caller)
-----------------------------------------------------------------------------
(* Channels.                                                               *)
LEMMA AppendFacts ==
    ASSUME NEW ch \in Seq(Msg), NEW m \in Msg
    PROVE  /\ Append(ch, m) \in Seq(Msg) /\ Len(Append(ch, m)) = Len(ch) + 1 /\ Len(ch) \in Nat
           /\ \A j \in 1..Len(ch) : Append(ch, m)[j] = ch[j]
           /\ Append(ch, m)[Len(ch) + 1] = m
  OBVIOUS

LEMMA TailFacts ==
    ASSUME NEW ch \in Seq(Msg), ch # << >>
    PROVE  /\ Tail(ch) \in Seq(Msg) /\ Len(Tail(ch)) = Len(ch) - 1 /\ Len(ch) \in Nat \ {0}
           /\ Head(ch) = ch[1] /\ Head(ch) \in Msg
           /\ \A j \in 1..Len(Tail(ch)) : Tail(ch)[j] = ch[j + 1]
  OBVIOUS

(* The callers' records change, but nobody begins to wait, starts a call   *)
(* out of "get" or reports a token.                                        *)
Quieter(old, new) ==
    \A c \in Callers :
        /\ new[c].rejected = old[c].rejected
        /\ new[c].pc = "waiting" => old[c].pc = "waiting" /\ new[c].starts = old[c].starts
        /\ new[c].starts \in Nat /\ old[c].starts \in Nat /\ new[c].starts >= old[c].starts
        /\ new[c].pc = "get" => old[c].pc = "get" \/ new[c].starts > old[c].starts

LEMMA QuieterKeeps ==
    ASSUME NEW ch \in Seq(Msg), NEW old, NEW new, NEW id, Quieter(old, new),
           Numbered(ch, old), Covered(ch, old, id)
    PROVE  Numbered(ch, new) /\ Covered(ch, new, id)
<1>1. Numbered(ch, new)
  <2> SUFFICES ASSUME NEW j \in 1..Len(ch), ch[j].kind = "get"
               PROVE  /\ ch[j].call <= new[ch[j].from].starts
                      /\ new[ch[j].from].pc = "get" => ch[j].call < new[ch[j].from].starts
    BY DEF Numbered
  <2>1. ch[j] \in Msg
    OBVIOUS
  <2>2. ch[j].from \in Callers /\ ch[j].call \in Nat
    BY <2>1 DEF Msg
  <2> QED
    BY <2>2 DEF Numbered, Quieter
<1>2. ASSUME NEW c \in Callers, NEW i \in 1..Len(ch), Ahead(ch, old, c, i)
      PROVE  Ahead(ch, new, c, i)
  BY <1>2 DEF Ahead, Quieter
<1>3. Covered(ch, new, id)
  BY <1>2 DEF Covered, Quieter
<1> QED
  BY <1>1, <1>3

(* The actor takes a Get from the channel.                                 *)
LEMMA TakeKeeps ==
    ASSUME NEW ch \in Seq(Msg), NEW cl, NEW id, ch # << >>, Head(ch).kind = "get",
           Numbered(ch, cl), Covered(ch, cl, id)
    PROVE  Numbered(Tail(ch), cl) /\ Covered(Tail(ch), cl, id)
<1>1. /\ Len(Tail(ch)) = Len(ch) - 1 /\ Len(ch) \in Nat \ {0} /\ ch[1].kind = "get"
      /\ \A j \in 1..Len(Tail(ch)) : Tail(ch)[j] = ch[j + 1] /\ j + 1 \in 1..Len(ch)
  BY TailFacts
<1>2. Numbered(Tail(ch), cl)
  BY <1>1 DEF Numbered
<1>3. ASSUME NEW c \in Callers, id \in cl[c].rejected
      PROVE  \E i \in 1..Len(Tail(ch)) : Tail(ch)[i].kind = "invalidate" /\ Ahead(Tail(ch), cl, c, i)
  <2>1. PICK i \in 1..Len(ch) : ch[i].kind = "invalidate" /\ Ahead(ch, cl, c, i)
    BY <1>3 DEF Covered
  <2>2. i # 1 /\ i - 1 \in 1..Len(Tail(ch)) /\ Tail(ch)[i - 1].kind = "invalidate"
    BY <1>1, <2>1
  <2>3. Ahead(Tail(ch), cl, c, i - 1)
    BY <1>1, <2>1 DEF Ahead
  <2> QED
    BY <2>2, <2>3
<1> QED
  BY <1>2, <1>3 DEF Covered

(* The only steps that change what is cached while a caller's token is     *)
(* reported leave one that nobody has reported.                            *)
LEMMA UnreportedCovered ==
    ASSUME NEW ch, NEW cl, NEW n \in Nat, NEW id, KnownCalls(cl, n), id \notin 1..n
    PROVE  Covered(ch, cl, id)
  BY DEF Covered, KnownCalls
-----------------------------------------------------------------------------
LEMMA InitIInv == Init => IInv
<1> SUFFICES ASSUME Init PROVE IInv
  OBVIOUS
<1> USE DEF Init
<1>1. NoToken \in Token /\ NoToken.id = 0
  BY DEF NoToken, Token
<1>2. NewCaller \in CallerRec /\ NewCaller.rejected = {} /\ NewCaller.pc = "idle"
  BY <1>1 DEF NewCaller, CallerRec
<1>3. Shapes
  BY <1>1, <1>2, TokenAssumption DEF Shapes
<1>4. KnownCached(cached, issued) /\ KnownCalls(caller, issued) /\ NotReused(caller)
  BY <1>2 DEF KnownCached, KnownCalls, NotReused
<1>5. Numbered(channel, caller)
  BY DEF Numbered
<1>6. Covered(channel, caller, cached.id)
  BY <1>2 DEF Covered
<1> QED
  BY <1>3, <1>4, <1>5, <1>6 DEF IInv
-----------------------------------------------------------------------------
(* A step of the callers that leaves the channel, the actor and the world  *)
(* alone.                                                                  *)
LEMMA QuietStep ==
    ASSUME IInv, caller' \in [Callers -> CallerRec], UNCHANGED <<world, cached, actor, channel>>,
           Quieter(caller, caller'), KnownCalls(caller', issued), NotReused(caller')
    PROVE  IInv'
<1>1. Shapes'
  BY DEF IInv, Shapes, world
<1>2. Numbered(channel, caller') /\ Covered(channel, caller', cached.id)
  BY QuieterKeeps DEF IInv, Shapes
<1> QED
  BY <1>1, <1>2 DEF IInv, world

LEMMA StartStep ==
    ASSUME IInv, NEW c \in Callers, Start(c)
    PROVE  IInv'
<1>1. caller \in [Callers -> CallerRec] /\ caller[c] \in CallerRec /\ NoToken \in Token
  BY DEF IInv, Shapes, NoToken, Token
<1>2. /\ caller' \in [Callers -> CallerRec]
      /\ \A d \in Callers : d # c => caller'[d] = caller[d]
      /\ caller'[c].pc = "get" /\ caller'[c].rejected = caller[c].rejected
      /\ caller'[c].starts = caller[c].starts + 1 /\ caller[c].starts \in Nat
  BY <1>1 DEF Start, CallerRec
<1>3. Quieter(caller, caller')
  BY <1>1, <1>2 DEF Quieter, CallerRec
<1>4. KnownCalls(caller', issued) /\ NotReused(caller')
  BY <1>2 DEF IInv, KnownCalls, NotReused
<1> QED
  BY <1>2, <1>3, <1>4, QuietStep DEF Start

(* A call that ends, or is refused, without a word to the actor.           *)
LEMMA EndStep ==
    ASSUME IInv, NEW c \in Callers, ApiAnswer(c) \/ Cancel(c)
    PROVE  IInv'
<1>1. caller \in [Callers -> CallerRec] /\ caller[c] \in CallerRec
  BY DEF IInv, Shapes
<1>2. \/ \E o \in {"answered", "cancelled"} :
            caller' = [caller EXCEPT ![c].pc = "idle", ![c].outcome = o]
      \/ caller[c].pc = "calling" /\ caller' = [caller EXCEPT ![c].pc = "invalidate"]
  BY DEF ApiAnswer, Cancel, End
<1>3. /\ caller' \in [Callers -> CallerRec]
      /\ \A d \in Callers : d # c => caller'[d] = caller[d]
      /\ caller'[c].pc = "idle" \/ (caller[c].pc = "calling" /\ caller'[c].pc = "invalidate")
      /\ caller'[c].rejected = caller[c].rejected /\ caller'[c].token = caller[c].token
      /\ caller'[c].starts = caller[c].starts
  BY <1>1, <1>2 DEF CallerRec
<1>4. Quieter(caller, caller')
  BY <1>1, <1>3 DEF Quieter, CallerRec
<1>5. KnownCalls(caller', issued) /\ NotReused(caller')
  BY <1>3 DEF IInv, KnownCalls, NotReused
<1> QED
  BY <1>3, <1>4, <1>5, QuietStep DEF ApiAnswer, Cancel

(* The Get is behind every invalidation that is already in the channel.    *)
LEMMA SendGetStep ==
    ASSUME IInv, NEW c \in Callers, SendGet(c)
    PROVE  IInv'
<1> DEFINE m == Message(c, "get")
<1>1. /\ caller \in [Callers -> CallerRec] /\ caller[c] \in CallerRec /\ channel \in Seq(Msg)
      /\ caller[c].pc = "get" /\ Len(channel) < ChannelCap
  BY DEF IInv, Shapes, SendGet, CanSend
<1>2. m \in Msg /\ m.kind = "get" /\ m.from = c /\ m.call = caller[c].starts
  BY <1>1 DEF Message, Msg, CallerRec
<1>3. channel' = Append(channel, m) /\ UNCHANGED <<world, cached, actor>>
  BY DEF SendGet
<1> HIDE DEF m
<1>4. /\ caller' \in [Callers -> CallerRec]
      /\ \A d \in Callers : d # c => caller'[d] = caller[d]
      /\ caller'[c].pc = "waiting" /\ caller'[c].rejected = caller[c].rejected
      /\ caller'[c].starts = caller[c].starts
  BY <1>1 DEF SendGet, CallerRec
<1>5. /\ channel' \in Seq(Msg) /\ Len(channel') = Len(channel) + 1 /\ Len(channel) \in Nat
      /\ \A j \in 1..Len(channel) : channel'[j] = channel[j]
      /\ channel'[Len(channel) + 1] = m
  BY <1>1, <1>2, <1>3, AppendFacts
<1>6. \A j \in 1..Len(channel') : j \in 1..Len(channel) \/ j = Len(channel) + 1
  BY <1>5
<1>7. Shapes'
  BY <1>1, <1>3, <1>4, <1>5, TokenAssumption DEF IInv, Shapes, world
<1>8. KnownCached(cached', issued') /\ KnownCalls(caller', issued') /\ NotReused(caller')
  BY <1>3, <1>4 DEF IInv, KnownCached, KnownCalls, NotReused, world
<1>9. Numbered(channel', caller')
  <2> SUFFICES ASSUME NEW j \in 1..Len(channel'), channel'[j].kind = "get"
               PROVE  /\ channel'[j].call <= caller'[channel'[j].from].starts
                      /\ caller'[channel'[j].from].pc = "get"
                           => channel'[j].call < caller'[channel'[j].from].starts
    BY DEF Numbered
  <2>1. CASE j \in 1..Len(channel)
    <3>1. channel[j] \in Msg /\ channel'[j] = channel[j]
      BY <1>1, <1>5, <2>1
    <3>2. channel[j].from \in Callers
      BY <3>1 DEF Msg
    <3> QED
      BY <1>4, <2>1, <3>1, <3>2 DEF IInv, Numbered
  <2>2. CASE j = Len(channel) + 1
    BY <1>1, <1>2, <1>4, <1>5, <2>2 DEF CallerRec
  <2> QED
    BY <1>6, <2>1, <2>2
<1>10. ASSUME NEW d \in Callers, cached.id \in caller'[d].rejected
       PROVE  \E i \in 1..Len(channel') :
                 channel'[i].kind = "invalidate" /\ Ahead(channel', caller', d, i)
  <2>1. cached.id \in caller[d].rejected
    BY <1>4, <1>10
  <2>2. PICK i \in 1..Len(channel) : channel[i].kind = "invalidate" /\ Ahead(channel, caller, d, i)
    BY <2>1 DEF IInv, Covered
  <2>3. i \in 1..Len(channel') /\ channel'[i].kind = "invalidate" /\ i < Len(channel) + 1
    BY <1>5, <2>2
  <2>4. ASSUME NEW j \in 1..Len(channel'), channel'[j].kind = "get", channel'[j].from = d,
               caller'[d].pc = "waiting", caller'[d].starts = channel'[j].call
        PROVE  i < j
    <3>1. CASE j = Len(channel) + 1
      BY <2>3, <3>1
    <3>2. CASE j \in 1..Len(channel) /\ d = c
      <4>1. channel'[j] = channel[j]
        BY <1>5, <3>2
      <4>2. channel[j].call < caller[c].starts
        BY <1>1, <2>4, <3>2, <4>1 DEF IInv, Numbered
      <4> QED
        BY <1>1, <1>4, <2>4, <3>2, <4>1, <4>2 DEF CallerRec
    <3>3. CASE j \in 1..Len(channel) /\ d # c
      <4>1. channel'[j] = channel[j] /\ caller'[d] = caller[d]
        BY <1>4, <1>5, <3>3
      <4> QED
        BY <2>2, <2>4, <3>3, <4>1 DEF Ahead
    <3> QED
      BY <1>6, <3>1, <3>2, <3>3
  <2> QED
    BY <2>3, <2>4 DEF Ahead
<1>11. Covered(channel', caller', cached'.id)
  BY <1>3, <1>10 DEF Covered
<1> QED
  BY <1>7, <1>8, <1>9, <1>11 DEF IInv

(* The token just reported is covered by the message that reports it.      *)
LEMMA SendInvalidateStep ==
    ASSUME IInv, NEW c \in Callers, SendInvalidate(c)
    PROVE  IInv'
<1> DEFINE m == Message(c, "invalidate")
<1>1. /\ caller \in [Callers -> CallerRec] /\ caller[c] \in CallerRec /\ channel \in Seq(Msg)
      /\ caller[c].pc = "invalidate" /\ Len(channel) < ChannelCap /\ caller[c].token.id \in Nat
  BY DEF IInv, Shapes, SendInvalidate, CanSend, CallerRec, Token
<1>2. m \in Msg /\ m.kind = "invalidate"
  BY <1>1 DEF Message, Msg, CallerRec
<1>3. channel' = Append(channel, m) /\ UNCHANGED <<world, cached, actor>>
  BY DEF SendInvalidate
<1> HIDE DEF m
<1>4. /\ caller' \in [Callers -> CallerRec]
      /\ \A d \in Callers : d # c => caller'[d] = caller[d]
      /\ caller'[c].pc = "idle" /\ caller'[c].starts = caller[c].starts
      /\ caller'[c].rejected = caller[c].rejected \cup {caller[c].token.id}
  BY <1>1 DEF SendInvalidate, Invalidated, CallerRec
<1>5. /\ channel' \in Seq(Msg) /\ Len(channel') = Len(channel) + 1 /\ Len(channel) \in Nat
      /\ \A j \in 1..Len(channel) : channel'[j] = channel[j]
      /\ channel'[Len(channel) + 1] = m
  BY <1>1, <1>2, <1>3, AppendFacts
<1>6. \A j \in 1..Len(channel') : j \in 1..Len(channel) \/ j = Len(channel) + 1
  BY <1>5
<1>7. Shapes'
  BY <1>1, <1>3, <1>4, <1>5, TokenAssumption DEF IInv, Shapes, world
<1>8. KnownCached(cached', issued') /\ KnownCalls(caller', issued') /\ NotReused(caller')
  BY <1>1, <1>3, <1>4 DEF IInv, KnownCached, KnownCalls, NotReused, world
<1>9. Numbered(channel', caller')
  <2> SUFFICES ASSUME NEW j \in 1..Len(channel'), channel'[j].kind = "get"
               PROVE  /\ channel'[j].call <= caller'[channel'[j].from].starts
                      /\ caller'[channel'[j].from].pc = "get"
                           => channel'[j].call < caller'[channel'[j].from].starts
    BY DEF Numbered
  <2>1. j \in 1..Len(channel)
    BY <1>2, <1>5, <1>6
  <2>2. channel[j] \in Msg /\ channel'[j] = channel[j]
    BY <1>1, <1>5, <2>1
  <2>3. channel[j].from \in Callers
    BY <2>2 DEF Msg
  <2> QED
    BY <1>4, <2>1, <2>2, <2>3 DEF IInv, Numbered
<1>10. ASSUME NEW d \in Callers, cached.id \in caller'[d].rejected
       PROVE  \E i \in 1..Len(channel') :
                 channel'[i].kind = "invalidate" /\ Ahead(channel', caller', d, i)
  <2>1. CASE d = c
    <3>1. Ahead(channel', caller', d, Len(channel) + 1)
      BY <1>4, <2>1 DEF Ahead
    <3>2. Len(channel) + 1 \in 1..Len(channel')
      BY <1>5
    <3> QED
      BY <1>2, <1>5, <3>1, <3>2
  <2>2. CASE d # c
    <3>1. caller'[d] = caller[d]
      BY <1>4, <2>2
    <3>2. PICK i \in 1..Len(channel) :
             channel[i].kind = "invalidate" /\ Ahead(channel, caller, d, i)
      BY <1>10, <3>1 DEF IInv, Covered
    <3>3. i \in 1..Len(channel') /\ channel'[i].kind = "invalidate" /\ i < Len(channel) + 1
      BY <1>5, <3>2
    <3>4. Ahead(channel', caller', d, i)
      BY <1>5, <1>6, <3>1, <3>2, <3>3 DEF Ahead
    <3> QED
      BY <3>3, <3>4
  <2> QED
    BY <2>1, <2>2
<1>11. Covered(channel', caller', cached'.id)
  BY <1>3, <1>10 DEF Covered
<1> QED
  BY <1>7, <1>8, <1>9, <1>11 DEF IInv
-----------------------------------------------------------------------------
(* A reply changes one caller at the most: to "calling" with the token, or *)
(* to "idle".                                                              *)
LEMMA ReplyTokenFacts ==
    ASSUME caller \in [Callers -> CallerRec], NEW m \in Msg, NEW t \in Token, ReplyToken(m, t)
    PROVE  /\ caller' \in [Callers -> CallerRec] /\ Quieter(caller, caller')
           /\ \A d \in Callers : \/ caller'[d] = caller[d]
                                 \/ /\ d = m.from /\ Awaits(m)
                                    /\ caller'[d].pc = "calling" /\ caller'[d].token = t
                                    /\ caller'[d].rejected = caller[d].rejected
<1>1. m.from \in Callers /\ caller[m.from] \in CallerRec
  BY DEF Msg
<1>2. /\ caller' \in [Callers -> CallerRec]
      /\ \A d \in Callers : \/ caller'[d] = caller[d]
                            \/ /\ d = m.from /\ Awaits(m)
                               /\ caller'[d].pc = "calling" /\ caller'[d].token = t
                               /\ caller'[d].rejected = caller[d].rejected
                               /\ caller'[d].starts = caller[d].starts
  <2>1. CASE Awaits(m)
    <3>1. caller' = [caller EXCEPT ![m.from] = [@ EXCEPT !.pc = "calling", !.token = t]]
      BY <2>1 DEF ReplyToken
    <3> QED
      BY <1>1, <2>1, <3>1 DEF CallerRec
  <2>2. CASE ~Awaits(m)
    BY <1>1, <2>2 DEF ReplyToken
  <2> QED
    BY <2>1, <2>2
<1>3. Quieter(caller, caller')
  BY <1>2 DEF Quieter, CallerRec
<1> QED
  BY <1>2, <1>3

LEMMA ReplyErrorFacts ==
    ASSUME caller \in [Callers -> CallerRec], NEW m \in Msg, ReplyError(m)
    PROVE  /\ caller' \in [Callers -> CallerRec] /\ Quieter(caller, caller')
           /\ \A d \in Callers : \/ caller'[d] = caller[d]
                                 \/ /\ caller'[d].pc = "idle"
                                    /\ caller'[d].rejected = caller[d].rejected
<1>1. m.from \in Callers /\ caller[m.from] \in CallerRec
  BY DEF Msg
<1>2. /\ caller' \in [Callers -> CallerRec]
      /\ \A d \in Callers : \/ caller'[d] = caller[d]
                            \/ /\ caller'[d].pc = "idle"
                               /\ caller'[d].rejected = caller[d].rejected
                               /\ caller'[d].starts = caller[d].starts
  <2>1. CASE Awaits(m)
    <3>1. caller' = [caller EXCEPT ![m.from] = [@ EXCEPT !.pc = "idle", !.outcome = "error"]]
      BY <2>1 DEF ReplyError
    <3> QED
      BY <1>1, <2>1, <3>1 DEF CallerRec
  <2>2. CASE ~Awaits(m)
    BY <1>1, <2>2 DEF ReplyError
  <2> QED
    BY <2>1, <2>2
<1>3. Quieter(caller, caller')
  BY <1>2 DEF Quieter, CallerRec
<1> QED
  BY <1>2, <1>3

LEMMA TailNumbered ==
    ASSUME NEW ch \in Seq(Msg), NEW cl, ch # << >>, Numbered(ch, cl)
    PROVE  Numbered(Tail(ch), cl)
<1>1. /\ Len(Tail(ch)) = Len(ch) - 1 /\ Len(ch) \in Nat \ {0}
      /\ \A j \in 1..Len(Tail(ch)) : Tail(ch)[j] = ch[j + 1] /\ j + 1 \in 1..Len(ch)
  BY TailFacts
<1> QED
  BY <1>1 DEF Numbered

LEMMA RecvInvalidateStep ==
    ASSUME IInv, RecvInvalidate
    PROVE  IInv'
<1>1. /\ channel \in Seq(Msg) /\ channel # << >> /\ channel' = Tail(channel)
      /\ cached' = NoToken /\ UNCHANGED <<world, actor, caller>>
  BY DEF IInv, Shapes, RecvInvalidate
<1>2. NoToken \in Token /\ NoToken.id \notin 1..issued
  BY DEF IInv, Shapes, NoToken, Token
<1>3. Shapes'
  BY <1>1, <1>2, TailFacts, TokenAssumption DEF IInv, Shapes, world
<1>4. Numbered(channel', caller')
  BY <1>1, TailNumbered DEF IInv
<1>5. Covered(channel', caller', cached'.id)
  BY <1>1, <1>2, UnreportedCovered DEF IInv, Shapes
<1>6. KnownCached(cached', issued') /\ KnownCalls(caller', issued') /\ NotReused(caller')
  BY <1>1 DEF IInv, KnownCached, world
<1> QED
  BY <1>3, <1>4, <1>5, <1>6 DEF IInv

(* A caller that has reported the cached token has its invalidation ahead  *)
(* of its Get, so its Get is not at the head of the channel.               *)
LEMMA RecvCachedStep ==
    ASSUME IInv, RecvCached
    PROVE  IInv'
<1> DEFINE m == Head(channel)
<1>1. /\ channel \in Seq(Msg) /\ channel # << >> /\ channel' = Tail(channel)
      /\ m.kind = "get" /\ cached \in Token /\ cached # NoToken
      /\ ReplyToken(m, cached) /\ UNCHANGED <<world, cached, actor>>
  BY DEF IInv, Shapes, RecvCached, Fresh
<1>2. m \in Msg /\ m = channel[1] /\ 1 \in 1..Len(channel) /\ Len(channel) \in Nat
  BY <1>1, TailFacts
<1>3. /\ caller' \in [Callers -> CallerRec] /\ Quieter(caller, caller')
      /\ \A d \in Callers : \/ caller'[d] = caller[d]
                            \/ /\ d = m.from /\ Awaits(m)
                               /\ caller'[d].pc = "calling" /\ caller'[d].token = cached
                               /\ caller'[d].rejected = caller[d].rejected
  BY <1>1, <1>2, ReplyTokenFacts DEF IInv, Shapes
<1>4. Shapes'
  BY <1>1, <1>3, TailFacts, TokenAssumption DEF IInv, Shapes, world
<1>5. Numbered(channel', caller) /\ Covered(channel', caller, cached.id)
  BY <1>1, TakeKeeps DEF IInv
<1>6. Numbered(channel', caller') /\ Covered(channel', caller', cached.id)
  BY <1>3, <1>4, <1>5, QuieterKeeps DEF Shapes
<1>7. cached.id \in 1..issued
  BY <1>1 DEF IInv, KnownCached
<1>8. KnownCached(cached', issued') /\ KnownCalls(caller', issued')
  BY <1>1, <1>3, <1>7 DEF IInv, KnownCached, KnownCalls, world
<1>9. Awaits(m) => cached.id \notin caller[m.from].rejected
  <2> SUFFICES ASSUME Awaits(m), cached.id \in caller[m.from].rejected PROVE FALSE
    OBVIOUS
  <2>1. m.from \in Callers
    BY <1>2 DEF Msg
  <2>2. PICK i \in 1..Len(channel) : Ahead(channel, caller, m.from, i)
    BY <2>1 DEF IInv, Covered
  <2>3. i < 1
    BY <1>1, <1>2, <2>2 DEF Ahead, Awaits
  <2> QED
    BY <1>2, <2>3
<1>10. NotReused(caller')
  BY <1>3, <1>9 DEF IInv, NotReused
<1> QED
  BY <1>1, <1>4, <1>6, <1>8, <1>10 DEF IInv

LEMMA RecvStaleStep ==
    ASSUME IInv, RecvStale
    PROVE  IInv'
<1> DEFINE m == Head(channel)
<1>1. /\ channel \in Seq(Msg) /\ channel # << >> /\ channel' = Tail(channel)
      /\ m.kind = "get" /\ UNCHANGED <<world, cached>>
      /\ caller \in [Callers -> CallerRec]
  BY DEF IInv, Shapes, RecvStale
<1>2. m \in Msg
  BY <1>1, TailFacts
<1>3. m \in GetMsg
  BY <1>1, <1>2 DEF Msg, GetMsg
<1>4. /\ actor' \in Seq(GetMsg) /\ Len(actor') <= 1
  <2>1. actor' = <<m>> \/ actor' = actor
    BY DEF RecvStale
  <2>2. ASSUME NEW x \in GetMsg PROVE <<x>> \in Seq(GetMsg) /\ Len(<<x>>) <= 1
    OBVIOUS
  <2>3. actor \in Seq(GetMsg) /\ Len(actor) <= 1
    BY DEF IInv, Shapes
  <2> HIDE DEF m
  <2> QED
    BY <1>3, <2>1, <2>2, <2>3
<1>5. /\ caller' \in [Callers -> CallerRec] /\ Quieter(caller, caller')
      /\ \A d \in Callers : \/ caller'[d] = caller[d]
                            \/ /\ caller'[d].pc = "idle"
                               /\ caller'[d].rejected = caller[d].rejected
  <2>1. CASE UNCHANGED caller
    BY <1>1, <2>1 DEF Quieter, CallerRec
  <2>2. CASE ReplyError(m)
    BY <1>1, <1>2, <2>2, ReplyErrorFacts
  <2> QED
    BY <2>1, <2>2 DEF RecvStale
<1>6. Shapes'
  BY <1>1, <1>4, <1>5, TailFacts, TokenAssumption DEF IInv, Shapes, world
<1>7. Numbered(channel', caller) /\ Covered(channel', caller, cached.id)
  BY <1>1, TakeKeeps DEF IInv
<1>8. Numbered(channel', caller') /\ Covered(channel', caller', cached.id)
  BY <1>5, <1>6, <1>7, QuieterKeeps DEF Shapes
<1>9. KnownCached(cached', issued') /\ KnownCalls(caller', issued') /\ NotReused(caller')
  BY <1>1, <1>5 DEF IInv, KnownCached, KnownCalls, NotReused, world
<1> QED
  BY <1>1, <1>6, <1>8, <1>9 DEF IInv

(* A new token has a name that nobody has reported.                        *)
LEMMA ExchangeOkStep ==
    ASSUME IInv, ExchangeOk
    PROVE  IInv'
<1> DEFINE m == actor[1]
<1>1. /\ actor # << >> /\ issued' = issued + 1 /\ issued \in Nat /\ clock \in Nat
      /\ actor' = << >> /\ UNCHANGED <<clock, revoked, entitled, channel>>
      /\ caller \in [Callers -> CallerRec] /\ channel \in Seq(Msg)
  BY DEF IInv, Shapes, ExchangeOk
<1>2. m \in Msg
  <2>1. m \in GetMsg
    BY <1>1 DEF IInv, Shapes
  <2> QED
    BY <2>1 DEF GetMsg, Msg
<1>3. PICK l \in Lifetimes : /\ cached' = [id |-> issued + 1, expires |-> clock + l]
                             /\ ReplyToken(m, [id |-> issued + 1, expires |-> clock + l])
  BY DEF ExchangeOk
<1> DEFINE t == [id |-> issued + 1, expires |-> clock + l]
<1>4. t \in Token /\ t.id = issued + 1
  BY <1>1, TokenAssumption DEF Token
<1>5. cached' = t /\ ReplyToken(m, t)
  BY <1>3
<1> HIDE DEF m, t
<1>6. /\ caller' \in [Callers -> CallerRec] /\ Quieter(caller, caller')
      /\ \A d \in Callers : \/ caller'[d] = caller[d]
                            \/ /\ caller'[d].pc = "calling" /\ caller'[d].token = t
                               /\ caller'[d].rejected = caller[d].rejected
  BY <1>1, <1>2, <1>4, <1>5, ReplyTokenFacts
<1>7. Shapes'
  <2>1. revoked' \subseteq 1..issued'
    BY <1>1 DEF IInv, Shapes
  <2> QED
    BY <1>1, <1>4, <1>5, <1>6, <2>1 DEF IInv, Shapes
<1>8. KnownCalls(caller, issued) /\ t.id \notin 1..issued
  BY <1>1, <1>4 DEF IInv
<1>9. Numbered(channel, caller) /\ Covered(channel, caller, t.id)
  BY <1>1, <1>8, UnreportedCovered DEF IInv
<1>10. Numbered(channel', caller') /\ Covered(channel', caller', cached'.id)
  BY <1>1, <1>5, <1>6, <1>9, QuieterKeeps
<1>11. KnownCached(cached', issued')
  BY <1>1, <1>4, <1>5 DEF KnownCached
<1>12. KnownCalls(caller', issued')
  <2>1. 1..issued \subseteq 1..issued' /\ t.id \in 1..issued'
    BY <1>1, <1>4
  <2> QED
    BY <1>6, <1>8, <2>1 DEF KnownCalls
<1>13. NotReused(caller')
  BY <1>6, <1>8 DEF IInv, KnownCalls, NotReused
<1> QED
  BY <1>7, <1>10, <1>11, <1>12, <1>13 DEF IInv

LEMMA ExchangeFailsStep ==
    ASSUME IInv, ExchangeFails
    PROVE  IInv'
<1> DEFINE m == actor[1]
<1>1. /\ actor # << >> /\ actor' = << >> /\ cached' = NoToken /\ ReplyError(m)
      /\ UNCHANGED <<world, channel>> /\ issued \in Nat
      /\ caller \in [Callers -> CallerRec] /\ channel \in Seq(Msg)
  BY DEF IInv, Shapes, ExchangeFails
<1>2. m \in Msg
  <2>1. m \in GetMsg
    BY <1>1 DEF IInv, Shapes
  <2> QED
    BY <2>1 DEF GetMsg, Msg
<1>3. NoToken \in Token /\ NoToken.id \notin 1..issued
  BY <1>1 DEF NoToken, Token
<1>4. /\ caller' \in [Callers -> CallerRec] /\ Quieter(caller, caller')
      /\ \A d \in Callers : \/ caller'[d] = caller[d]
                            \/ /\ caller'[d].pc = "idle"
                               /\ caller'[d].rejected = caller[d].rejected
  BY <1>1, <1>2, ReplyErrorFacts
<1>5. Shapes'
  BY <1>1, <1>3, <1>4 DEF IInv, Shapes, world
<1>6. Numbered(channel, caller) /\ Covered(channel, caller, NoToken.id)
  BY <1>1, <1>3, UnreportedCovered DEF IInv
<1>7. Numbered(channel', caller') /\ Covered(channel', caller', cached'.id)
  BY <1>1, <1>4, <1>6, QuieterKeeps
<1>8. KnownCached(cached', issued') /\ KnownCalls(caller', issued') /\ NotReused(caller')
  BY <1>1, <1>4 DEF IInv, KnownCached, KnownCalls, NotReused, world
<1> QED
  BY <1>5, <1>7, <1>8 DEF IInv
-----------------------------------------------------------------------------
LEMMA WorldStep ==
    ASSUME IInv, Tick \/ Revoke \/ LoseEntitlement \/ Quiescent \/ UNCHANGED vars
    PROVE  IInv'
<1>1. UNCHANGED <<cached, actor, channel, caller, issued>>
  BY DEF Tick, Revoke, LoseEntitlement, Quiescent, vars
<1>2. clock \in Nat /\ revoked \subseteq 1..issued /\ entitled \in BOOLEAN
  BY DEF IInv, Shapes
<1>3. clock' \in Nat
  BY <1>2 DEF Tick, Revoke, LoseEntitlement, Quiescent, vars
<1>4. revoked' \subseteq 1..issued
  BY <1>2 DEF Tick, Revoke, LoseEntitlement, Quiescent, vars
<1>5. entitled' \in BOOLEAN
  <2>1. entitled' = entitled \/ entitled' = FALSE
    BY DEF Tick, Revoke, LoseEntitlement, Quiescent, vars
  <2> QED
    BY <1>2, <2>1
<1>6. Shapes'
  BY <1>1, <1>3, <1>4, <1>5 DEF IInv, Shapes
<1> QED
  BY <1>1, <1>6 DEF IInv

LEMMA NextIInv == IInv /\ [Next]_vars => IInv'
<1> SUFFICES ASSUME IInv, [Next]_vars PROVE IInv'
  OBVIOUS
<1>1. CASE ActorStep
  BY <1>1, RecvInvalidateStep, RecvCachedStep, RecvStaleStep, ExchangeOkStep, ExchangeFailsStep
     DEF ActorStep
<1>2. CASE \E c \in Callers : CallerStep(c)
  BY <1>2, StartStep, EndStep, SendGetStep, SendInvalidateStep DEF CallerStep
<1>3. CASE Tick \/ Revoke \/ LoseEntitlement \/ Quiescent \/ UNCHANGED vars
  BY <1>3, WorldStep
<1> QED
  BY <1>1, <1>2, <1>3 DEF Next

(* The inductive invariant holds in every reachable state.                 *)
THEOREM Invariance == Spec => []IInv
  BY InitIInv, NextIInv, PTL DEF Spec

(* Types and the channel's bound are kept (TokenManager).                  *)
THEOREM TypeCorrect == Spec => []TypeOK
<1>1. IInv => TypeOK
  BY DEF IInv, Shapes, TypeOK, KnownCalls, CallerRec, Msg, GetMsg
<1> QED
  BY <1>1, Invariance, PTL

(* A caller is never given a token that it has reported (complete,         *)
(* proxy_raw and run_actor), whatever the others do.                       *)
THEOREM NeverReused == Spec => []RefreshedAfter401
<1>1. IInv => RefreshedAfter401
  BY DEF IInv, NotReused, RefreshedAfter401
<1> QED
  BY <1>1, Invariance, PTL
=============================================================================
