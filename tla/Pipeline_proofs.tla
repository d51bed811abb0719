-------------------------- MODULE Pipeline_proofs --------------------------
(***************************************************************************)
(* The promises of the request pipeline, for every set of configuration    *)
(* files, requests and catalogues: what is checked on the neighbours of    *)
(* one configuration holds of all of them.                                 *)
(***************************************************************************)
EXTENDS Pipeline, TLAPS, SequenceTheorems, WellFoundedInduction

(* Induction along the positions of a list, with the property as a set.    *)
LEMMA LeastPosition ==
    ASSUME NEW T, T \subseteq Nat, T # {}
    PROVE  \E i \in T : \A j \in T : i <= j
<1>1. PICK i \in T : \A j \in T : ~(<<j, i>> \in OpToRel(<, Nat))
  BY NatLessThanWellFounded, WFMin, Zenon
<1>2. \A j \in T : ~(j < i)  BY <1>1 DEF OpToRel
<1> QED  BY <1>2

LEMMA UpTo ==
    ASSUME NEW n \in Nat, NEW T, 0 \in T, \A k \in 0..n : k \in T /\ k < n => k + 1 \in T
    PROVE  \A k \in 0..n : k \in T
<1> DEFINE U == {k \in 0..n : k \notin T}
<1> SUFFICES ASSUME U # {} PROVE FALSE  OBVIOUS
<1>0. U \subseteq Nat  OBVIOUS
<1>1. PICK i \in U : \A j \in U : i <= j
  <2> HIDE DEF U
  <2> QED  BY <1>0, LeastPosition
<1>2. i \in 0..n /\ i \notin T /\ i # 0  BY <1>1
<1>3. i - 1 \in 0..n /\ i - 1 < n /\ (i - 1) + 1 = i  BY <1>2
<1>4. i - 1 \notin U  BY <1>1, <1>3
<1> QED  BY <1>2, <1>3, <1>4

(* The recursion of Kept is well founded.                                  *)
KeptStep(s, positions, f, i) ==
    IF i = 0 THEN << >>
    ELSE IF i \in positions THEN Append(f[i - 1], s[i]) ELSE f[i - 1]

LEMMA KeptExists ==
    ASSUME NEW n \in Nat, NEW s, NEW positions
    PROVE  \E f : f = [i \in 0..n |-> KeptStep(s, positions, f, i)]
<1> DEFINE T == {k \in 0..n : \E f : f = [i \in 0..k |-> KeptStep(s, positions, f, i)]}
<1>1. 0 \in T
  <2> DEFINE f == [i \in 0..0 |-> << >>]
  <2>1. f = [i \in 0..0 |-> KeptStep(s, positions, f, i)]  BY DEF KeptStep
  <2> QED  BY <2>1
<1>2. ASSUME NEW k \in 0..n, k \in T, k < n PROVE k + 1 \in T
  <2>1. PICK f : f = [i \in 0..k |-> KeptStep(s, positions, f, i)]  BY <1>2
  <2> DEFINE g == [i \in 0..(k + 1) |-> IF i <= k THEN f[i] ELSE KeptStep(s, positions, f, i)]
  <2>2. \A i \in 0..(k + 1) : g[i] = KeptStep(s, positions, g, i)
    <3> SUFFICES ASSUME NEW i \in 0..(k + 1) PROVE g[i] = KeptStep(s, positions, g, i)  OBVIOUS
    <3>1. i # 0 => g[i - 1] = f[i - 1]  BY <1>2
    <3>2. KeptStep(s, positions, g, i) = KeptStep(s, positions, f, i)  BY <3>1 DEF KeptStep
    <3>3. i <= k => f[i] = KeptStep(s, positions, f, i)  BY <1>2, <2>1
    <3> QED  BY <3>2, <3>3
  <2>3. g = [i \in 0..(k + 1) |-> KeptStep(s, positions, g, i)]  BY <2>2
  <2>4. k + 1 \in 0..n  BY <1>2
  <2> HIDE DEF g
  <2> QED  BY <2>3, <2>4
<1>3. n \in T
  <2> HIDE DEF T
  <2>1. \A k \in 0..n : k \in T  BY <1>1, <1>2, UpTo
  <2> QED  BY <2>1
<1> QED  BY <1>3

(* What Kept returns: a list of members of s at the positions given.       *)
LEMMA KeptType ==
    ASSUME NEW S, NEW s \in Seq(S), NEW positions
    PROVE  Kept(s, positions) \in Seq({s[i] : i \in positions \cap (1..Len(s))})
<1> DEFINE n == Len(s)
           M == {s[i] : i \in positions \cap (1..n)}
           f == CHOOSE f : f = [i \in 0..n |-> KeptStep(s, positions, f, i)]
           T == {k \in 0..n : f[k] \in Seq(M)}
<1>1. n \in Nat  OBVIOUS
<1>2. Kept(s, positions) = f[n]  BY DEF Kept, KeptStep
<1>3. \E g : g = [i \in 0..n |-> KeptStep(s, positions, g, i)]  BY <1>1, KeptExists
<1>4. f = [i \in 0..n |-> KeptStep(s, positions, f, i)]  BY <1>3
<1> HIDE DEF f
<1>5. 0 \in T  BY <1>1, <1>4 DEF KeptStep
<1>6. ASSUME NEW k \in 0..n, k \in T, k < n PROVE k + 1 \in T
  <2>1. k + 1 \in 0..n /\ (k + 1) - 1 = k /\ k + 1 # 0 /\ f[k] \in Seq(M)  BY <1>1, <1>6
  <2>2. f[k + 1] = IF k + 1 \in positions THEN Append(f[k], s[k + 1]) ELSE f[k]
    BY <1>4, <2>1 DEF KeptStep
  <2>3. k + 1 \in positions => s[k + 1] \in M  BY <2>1
  <2>4. f[k + 1] \in Seq(M)
    <3> HIDE DEF M
    <3> QED  BY <2>1, <2>2, <2>3
  <2> QED  BY <2>1, <2>4
<1>7. n \in T
  <2> HIDE DEF T
  <2>1. \A k \in 0..n : k \in T  BY <1>1, <1>5, <1>6, UpTo
  <2> QED  BY <1>1, <2>1
<1> QED  BY <1>2, <1>7

(* The recursion of FlattenSeq is well founded, and its result is made of  *)
(* the members of the lists it joins.                                      *)
FlattenStep(ss, f, i) == IF i = 1 THEN ss[i] ELSE f[i - 1] \o ss[i]

LEMMA FlattenExists ==
    ASSUME NEW n \in Nat, NEW ss
    PROVE  \E f : f = [i \in 1..n |-> FlattenStep(ss, f, i)]
<1> DEFINE T == {k \in 0..n : \E f : f = [i \in 1..k |-> FlattenStep(ss, f, i)]}
<1>1. 0 \in T
  <2> DEFINE f == [i \in 1..0 |-> << >>]
  <2>1. f = [i \in 1..0 |-> FlattenStep(ss, f, i)]  OBVIOUS
  <2> HIDE DEF f
  <2>2. 0 \in 0..n  OBVIOUS
  <2> QED  BY <2>1, <2>2
<1>2. ASSUME NEW k \in 0..n, k \in T, k < n PROVE k + 1 \in T
  <2>1. PICK f : f = [i \in 1..k |-> FlattenStep(ss, f, i)]  BY <1>2
  <2> DEFINE g == [i \in 1..(k + 1) |-> IF i <= k THEN f[i] ELSE FlattenStep(ss, f, i)]
  <2>2. \A i \in 1..(k + 1) : g[i] = FlattenStep(ss, g, i)
    <3> SUFFICES ASSUME NEW i \in 1..(k + 1) PROVE g[i] = FlattenStep(ss, g, i)  OBVIOUS
    <3>1. i # 1 => g[i - 1] = f[i - 1]  BY <1>2
    <3>2. FlattenStep(ss, g, i) = FlattenStep(ss, f, i)  BY <3>1 DEF FlattenStep
    <3>3. i <= k => f[i] = FlattenStep(ss, f, i)  BY <1>2, <2>1
    <3> QED  BY <3>2, <3>3
  <2>3. g = [i \in 1..(k + 1) |-> FlattenStep(ss, g, i)]  BY <2>2
  <2>4. k + 1 \in 0..n  BY <1>2
  <2> HIDE DEF g
  <2> QED  BY <2>3, <2>4
<1>3. n \in T
  <2> HIDE DEF T
  <2>1. \A k \in 0..n : k \in T  BY <1>1, <1>2, UpTo
  <2> QED  BY <2>1
<1> QED  BY <1>3

LEMMA FlattenType ==
    ASSUME NEW M, NEW ss \in Seq(Seq(M))
    PROVE  FlattenSeq(ss) \in Seq(M)
<1> DEFINE n == Len(ss)
           f == CHOOSE f : f = [i \in 1..n |-> FlattenStep(ss, f, i)]
           T == {k \in 0..n : k # 0 => f[k] \in Seq(M)}
<1>1. n \in Nat /\ \A i \in 1..n : ss[i] \in Seq(M)  OBVIOUS
<1>2. CASE n = 0
  <2>1. FlattenSeq(ss) = ss /\ ss = << >>  BY <1>2 DEF FlattenSeq
  <2> QED  BY <2>1
<1>3. CASE n # 0
  <2>2. FlattenSeq(ss) = f[n]  BY <1>3 DEF FlattenSeq, FlattenStep
  <2>3. \E g : g = [i \in 1..n |-> FlattenStep(ss, g, i)]  BY <1>1, FlattenExists
  <2>4. f = [i \in 1..n |-> FlattenStep(ss, f, i)]  BY <2>3
  <2> HIDE DEF f
  <2>5. 0 \in T  BY <1>1
  <2>6. ASSUME NEW k \in 0..n, k \in T, k < n PROVE k + 1 \in T
    <3>1. k + 1 \in 1..n /\ (k + 1) - 1 = k /\ (k # 0 => f[k] \in Seq(M))  BY <1>1, <2>6
    <3>2. f[k + 1] = FlattenStep(ss, f, k + 1)  BY <2>4, <3>1
    <3>3. f[k + 1] = IF k + 1 = 1 THEN ss[k + 1] ELSE f[k] \o ss[k + 1]
      BY <3>1, <3>2 DEF FlattenStep
    <3>4. k + 1 = 1 <=> k = 0  BY <3>1
    <3>5. f[k + 1] \in Seq(M)
      <4>1. ss[k + 1] \in Seq(M)  BY <1>1, <3>1
      <4> QED  BY <3>1, <3>3, <3>4, <4>1
    <3>6. k + 1 \in 0..n  BY <3>1
    <3> QED  BY <3>5, <3>6
  <2>7. n \in T
    <3> HIDE DEF T
    <3>1. \A k \in 0..n : k \in T  BY <1>1, <2>5, <2>6, UpTo
    <3> QED  BY <1>1, <3>1
  <2> QED  BY <1>3, <2>2, <2>7
<1> QED  BY <1>2, <1>3
-----------------------------------------------------------------------------
(* Of positions in a list there is a first and a last.                     *)
LEMMA FirstOfExists ==
    ASSUME NEW n \in Nat, NEW S \in SUBSET (1..n), S # {}
    PROVE  FirstOf(S) # {}
<1>1. S \subseteq Nat  OBVIOUS
<1>2. PICK i \in S : \A j \in S : i <= j  BY <1>1, LeastPosition
<1> QED  BY <1>2 DEF FirstOf

LEMMA LatestExists ==
    ASSUME NEW n \in Nat, NEW S \in SUBSET (1..n), S # {}
    PROVE  Latest(S) # {}
<1> DEFINE T == {n - i : i \in S}
<1>1. T \subseteq Nat /\ T # {}
  <2>1. \A i \in S : n - i \in Nat  OBVIOUS
  <2> QED  BY <2>1
<1>2. PICK k \in T : \A j \in T : k <= j
  <2> HIDE DEF T
  <2> QED  BY <1>1, LeastPosition
<1>3. PICK i \in S : k = n - i  BY <1>2
<1>4. ASSUME NEW j \in S PROVE j <= i
  <2>1. n - j \in T  OBVIOUS
  <2> QED  BY <1>2, <1>3, <2>1
<1> QED  BY <1>3, <1>4 DEF Latest

LEMMA SomeOf == ASSUME NEW S PROVE Latest(S) \subseteq S /\ FirstOf(S) \subseteq S
BY DEF Latest, FirstOf

(* A list of its own members.                                              *)
IsList(s) == s \in Seq({s[k] : k \in DOMAIN s})

LEMMA ListShape ==
    ASSUME NEW s, IsList(s)
    PROVE  Len(s) \in Nat /\ DOMAIN s = 1..Len(s)
BY DEF IsList

LEMMA ListOf ==
    ASSUME NEW S, NEW s \in Seq(S)
    PROVE  IsList(s) /\ \A k \in DOMAIN s : s[k] \in S
<1>1. Len(s) \in Nat /\ DOMAIN s = 1..Len(s) /\ s = [k \in 1..Len(s) |-> s[k]]  OBVIOUS
<1>2. \A k \in 1..Len(s) : s[k] \in {s[j] : j \in DOMAIN s}  BY <1>1
<1>3. s \in Seq({s[j] : j \in DOMAIN s})  BY <1>1, <1>2, SeqDef
<1> QED  BY <1>1, <1>3 DEF IsList

LEMMA MapIsList ==
    ASSUME NEW n \in Nat, NEW f, f = [k \in 1..n |-> f[k]]
    PROVE  IsList(f) /\ Len(f) = n /\ DOMAIN f = 1..n
<1>1. DOMAIN f = 1..n  OBVIOUS
<1>2. f \in [1..n -> {f[k] : k \in DOMAIN f}]  OBVIOUS
<1>3. f \in Seq({f[k] : k \in DOMAIN f})  BY <1>1, <1>2, SeqDef
<1> QED  BY <1>1, <1>3 DEF IsList

(* Matching patterns are positions of the route table.                     *)
LEMMA Positions ==
    ASSUME NEW c, Schema(c), NEW frontend, NEW pattern
    PROVE  /\ Len(c.routes) \in Nat /\ DOMAIN c.routes = 1..Len(c.routes)
           /\ Matching(c, frontend, pattern) \subseteq 1..Len(c.routes)
BY DEF Schema, Matching

(* A configuration without problems names its upstreams in one form.       *)
LEMMA Formed ==
    ASSUME NEW c, Problems(c) = {}, NEW i \in DOMAIN c.routes
    PROVE  LET r == c.routes[i]
           IN  /\ r.upstreams = << >> => r.upstream # {} /\ r.upstream_model # {}
               /\ \A u \in Referenced(r) : upstream_is_configured(c, u)
<1> DEFINE r == c.routes[i]
<1>1. r \in RoutesOf(c)  BY DEF RoutesOf
<1>2. validate_routes(c) = {} /\ RouteTableProblems(c) = {}  BY DEF Problems
<1>3. ShapeProblems(r) = {}  BY <1>1, <1>2 DEF validate_routes
<1>4. r.upstreams = << >> => r.upstream # {} /\ r.upstream_model # {}
  BY <1>3 DEF ShapeProblems, Broken
<1>5. Broken("UnknownUpstream", \E x \in RoutesOf(c) : \E u \in Referenced(x) :
                                    ~upstream_is_configured(c, u)) = {}
  BY <1>2 DEF RouteTableProblems
<1>6. ~\E x \in RoutesOf(c) : \E u \in Referenced(x) : ~upstream_is_configured(c, u)
  BY <1>5 DEF Broken
<1> QED  BY <1>1, <1>4, <1>6

(* Every list of targets a router makes from an entry (static_router.rs)   *)
(* names only upstreams of that entry.                                     *)
OfRoute(chain, r) ==
    /\ IsList(chain)
    /\ \A k \in DOMAIN chain : /\ chain[k].provider \in Referenced(r)
                               /\ chain[k] = [provider |-> chain[k].provider, model |-> chain[k].model]

LEMMA TargetsOfRoute ==
    ASSUME NEW c, Schema(c), Problems(c) = {}, NEW i \in DOMAIN c.routes
    PROVE  OfRoute(Targets(c.routes[i]), c.routes[i]) /\ 1 \in DOMAIN Targets(c.routes[i])
<1> DEFINE r == c.routes[i]
           ts == Targets(r)
<1>1. r.upstreams \in Seq([name : STRING, model : Seq(STRING)])  BY DEF Schema
<1>2. r.upstreams = << >> => r.upstream # {}  BY Formed
<1>3. CASE r.upstreams # << >>
  <2> DEFINE n == Len(r.upstreams)
  <2>1. n \in Nat /\ n > 0 /\ DOMAIN r.upstreams = 1..n  BY <1>1, <1>3
  <2>2. ts = [k \in 1..n |-> [provider |-> r.upstreams[k].name, model |-> r.upstreams[k].model]]
    BY <1>3, <2>1 DEF Targets
  <2>3. ts = [k \in 1..n |-> ts[k]]  BY <2>2
  <2>4. IsList(ts) /\ DOMAIN ts = 1..n
    <3> HIDE DEF ts
    <3> QED  BY <2>1, <2>3, MapIsList
  <2>5. Referenced(r) = {r.upstreams[k].name : k \in 1..n}  BY <1>3, <2>1 DEF Referenced
  <2>6. ASSUME NEW k \in 1..n
        PROVE  ts[k].provider \in Referenced(r)
               /\ ts[k] = [provider |-> ts[k].provider, model |-> ts[k].model]
    <3>1. ts[k] = [provider |-> r.upstreams[k].name, model |-> r.upstreams[k].model]  BY <2>2
    <3>2. r.upstreams[k].name \in Referenced(r)  BY <2>5
    <3> HIDE DEF ts, r
    <3> QED  BY <3>1, <3>2
  <2> HIDE DEF ts
  <2>7. OfRoute(ts, r) /\ 1 \in DOMAIN ts  BY <2>1, <2>4, <2>6 DEF OfRoute
  <2> QED  BY <2>7 DEF ts
<1>4. CASE r.upstreams = << >>
  <2> DEFINE t == [provider |-> CHOOSE u \in r.upstream : TRUE,
                   model |-> CHOOSE m \in r.upstream_model : TRUE]
  <2>1. ts = <<t>>  BY <1>4 DEF Targets
  <2>2. t.provider \in Referenced(r) /\ t = [provider |-> t.provider, model |-> t.model]
    BY <1>2, <1>4 DEF Referenced
  <2> HIDE DEF t
  <2>3. <<t>> \in Seq({t}) /\ DOMAIN <<t>> = {1} /\ <<t>>[1] = t  OBVIOUS
  <2>4. IsList(<<t>>)  BY <2>3, ListOf
  <2> QED  BY <2>1, <2>2, <2>3, <2>4 DEF OfRoute
<1> QED  BY <1>3, <1>4

LEMMA SingleOfRoute ==
    ASSUME NEW r, NEW t, t.provider \in Referenced(r), t = [provider |-> t.provider, model |-> t.model]
    PROVE  OfRoute(<<t>>, r)
<1>1. <<t>> \in Seq({t}) /\ DOMAIN <<t>> = {1} /\ <<t>>[1] = t  OBVIOUS
<1>2. IsList(<<t>>)  BY <1>1, ListOf
<1> QED  BY <1>1, <1>2 DEF OfRoute

LEMMA PassedOnOfRoute ==
    ASSUME NEW c, Schema(c), Problems(c) = {}, NEW i \in DOMAIN c.routes, NEW m
    PROVE  OfRoute(<<PassedOn(Targets(c.routes[i])[1], m)>>, c.routes[i])
<1> DEFINE r == c.routes[i]
           t == Targets(r)[1]
           u == PassedOn(t, m)
<1>1. t.provider \in Referenced(r) /\ t = [provider |-> t.provider, model |-> t.model]
  BY TargetsOfRoute DEF OfRoute
<1> HIDE DEF t, r
<1>2. u.provider = t.provider /\ u = [provider |-> u.provider, model |-> u.model]
  BY <1>1 DEF PassedOn
<1>3. u.provider \in Referenced(r)  BY <1>1, <1>2
<1> HIDE DEF u
<1>4. OfRoute(<<u>>, r)  BY <1>2, <1>3, SingleOfRoute
<1> QED  BY <1>4 DEF u, t, r

LEMMA ResolveRouteSound ==
    ASSUME NEW c, Schema(c), Problems(c) = {}, NEW f, NEW m, NEW x \in resolve_route(c, f, m)
    PROVE  /\ x.at \in DOMAIN c.routes /\ OfRoute(x.chain, c.routes[x.at])
           /\ x = [at |-> x.at, chain |-> x.chain]
<1> DEFINE exact == ExactRoute(c, f, m)
           prefix == PrefixRoute(c, f, m)
           wildcard == WildcardRoute(c, f)
<1>1. exact \subseteq DOMAIN c.routes  BY SomeOf DEF ExactRoute, Matching
<1>2. prefix \subseteq DOMAIN c.routes  BY SomeOf DEF PrefixRoute, Matching
<1>3. wildcard \subseteq DOMAIN c.routes  BY SomeOf DEF WildcardRoute, Matching
<1>4. \/ \E i \in exact : x = [at |-> i, chain |-> Targets(c.routes[i])]
      \/ \E i \in prefix : x = [at |-> i, chain |-> PrefixChain(c.routes[i], m)]
      \/ \E i \in wildcard : x = [at |-> i, chain |-> WildcardChain(c.routes[i], m)]
  BY DEF resolve_route
<1> HIDE DEF exact, prefix, wildcard
<1>5. PICK i \in DOMAIN c.routes :
          x.at = i /\ x = [at |-> x.at, chain |-> x.chain]
          /\ x.chain \in {Targets(c.routes[i]), <<PassedOn(Targets(c.routes[i])[1], m)>>}
  BY <1>1, <1>2, <1>3, <1>4 DEF PrefixChain, WildcardChain
<1> QED  BY <1>5, TargetsOfRoute, PassedOnOfRoute

LEMMA UpgradesOfRoute ==
    ASSUME NEW r, NEW d, NEW chain, OfRoute(chain, r)
    PROVE  OfRoute(apply_fuzzy_upgrades(d, chain), r)
<1> DEFINE up == apply_fuzzy_upgrades(d, chain)
           n == Len(chain)
<1>1. n \in Nat /\ DOMAIN chain = 1..n  BY ListShape DEF OfRoute
<1>2. up = [k \in 1..n |-> [chain[k] EXCEPT !.model =
                               ModelIndex_resolve(d, chain[k].provider, chain[k].model)]]
  BY <1>1 DEF apply_fuzzy_upgrades
<1>3. up = [k \in 1..n |-> up[k]]  BY <1>2
<1>4. ASSUME NEW k \in 1..n
      PROVE  /\ up[k].provider \in Referenced(r)
             /\ up[k] = [provider |-> up[k].provider, model |-> up[k].model]
  <2>1. chain[k] = [provider |-> chain[k].provider, model |-> chain[k].model]
        /\ chain[k].provider \in Referenced(r)
    BY <1>1 DEF OfRoute
  <2> QED  BY <1>2, <2>1
<1> HIDE DEF up
<1>5. IsList(up) /\ DOMAIN up = 1..n  BY <1>1, <1>3, MapIsList
<1>6. OfRoute(up, r)  BY <1>4, <1>5 DEF OfRoute
<1> QED  BY <1>6 DEF up

(* What ModelResolver::resolve_route answers is an entry of the table and  *)
(* upstreams of that entry.                                                *)
LEMMA ResolveSound ==
    ASSUME NEW c, Schema(c), Problems(c) = {}, NEW d, NEW f, NEW m, NEW x \in Resolve(c, d, f, m)
    PROVE  /\ x.at \in DOMAIN c.routes /\ OfRoute(x.chain, c.routes[x.at])
           /\ \E y \in resolve_route(c, f, m) : x.at = y.at
<1>1. PICK y \in resolve_route(c, f, m) :
          x = [y EXCEPT !.chain = apply_fuzzy_upgrades(d, y.chain)]
  BY DEF Resolve
<1>2. /\ y.at \in DOMAIN c.routes /\ OfRoute(y.chain, c.routes[y.at])
      /\ y = [at |-> y.at, chain |-> y.chain]
  BY ResolveRouteSound
<1>3. x.at = y.at /\ x.chain = apply_fuzzy_upgrades(d, y.chain)  BY <1>1, <1>2
<1> QED  BY <1>2, <1>3, UpgradesOfRoute

(* What the catalogue lists for a frontend, the router resolves there and  *)
(* the second lookup finds.                                                *)
LEMMA CatalogueServed ==
    ASSUME NEW c, Schema(c), NEW d, NEW listed \in list_catalog(c, d), NEW f \in listed.frontends
    PROVE  Resolve(c, d, f, listed.id) # {} /\ find_route_entry(c, f, listed.id) # {}
<1> DEFINE id == listed.id
           specific == Matching(c, f, Exact(id))
<1>1. <<f, id>> \in list_routes(c)  BY DEF list_catalog
<1>2. PICK i \in DOMAIN c.routes : /\ c.routes[i].model.kind = "exact"
                                   /\ f = SpelledFrontend[c.routes[i].frontend]
                                   /\ id = c.routes[i].model.name
  BY <1>1 DEF list_routes, RoutesOf
<1>3. c.routes[i].model = Exact(id)  BY <1>2 DEF Schema, Exact
<1>4. i \in specific  BY <1>2, <1>3 DEF Matching
<1>5. specific \in SUBSET (1..Len(c.routes)) /\ Len(c.routes) \in Nat  BY Positions
<1> HIDE DEF specific
<1>6. Latest(specific) # {} /\ FirstOf(specific) # {}
  BY <1>4, <1>5, LatestExists, FirstOfExists
<1>7. resolve_route(c, f, id) # {}
  <2>1. PICK k : k \in ExactRoute(c, f, id)  BY <1>6 DEF ExactRoute, specific
  <2>2. [at |-> k, chain |-> Targets(c.routes[k])] \in resolve_route(c, f, id)
    BY <2>1 DEF resolve_route
  <2> QED  BY <2>2
<1>8. Resolve(c, d, f, id) # {}  BY <1>7 DEF Resolve
<1>9. find_route_entry(c, f, id) # {}  BY <1>4, <1>6 DEF find_route_entry, specific
<1> QED  BY <1>8, <1>9

(* The filters keep order and members: what admission's cost filter leaves *)
(* are survivors of the chain, and a hook plan is a list.                  *)
LEMMA FilteredOfRoute ==
    ASSUME NEW c, NEW e, NEW r, NEW chain, NEW size, NEW f, OfRoute(chain, r),
           NEW left, left = filter_chain(c, e, chain, size, f)
    PROVE  /\ OfRoute(left, r)
           /\ \A k \in DOMAIN left : /\ Survives(c, e, left[k], size, f)
                                     /\ \E j \in DOMAIN chain : left[k] = chain[j]
<1> DEFINE P == {i \in DOMAIN chain : Survives(c, e, chain[i], size, f)}
           M == {chain[i] : i \in P \cap (1..Len(chain))}
<1>1. chain \in Seq({chain[k] : k \in DOMAIN chain}) /\ DOMAIN chain = 1..Len(chain)
  BY ListShape DEF OfRoute, IsList
<1>2. left = Kept(chain, P)  BY DEF filter_chain
<1>3. left \in Seq(M)
  <2> HIDE DEF P
  <2> QED  BY <1>1, <1>2, KeptType
<1>4. ASSUME NEW t \in M
      PROVE  Survives(c, e, t, size, f) /\ \E j \in DOMAIN chain : t = chain[j]
  OBVIOUS
<1> HIDE DEF M
<1>5. IsList(left) /\ \A k \in DOMAIN left : left[k] \in M  BY <1>3, ListOf
<1>6. \A k \in DOMAIN left : /\ Survives(c, e, left[k], size, f)
                             /\ \E j \in DOMAIN chain : left[k] = chain[j]
  BY <1>4, <1>5
<1>7. OfRoute(left, r)
  <2> SUFFICES ASSUME NEW k \in DOMAIN left
               PROVE  /\ left[k].provider \in Referenced(r)
                      /\ left[k] = [provider |-> left[k].provider, model |-> left[k].model]
    BY <1>5 DEF OfRoute
  <2>1. PICK j \in DOMAIN chain : left[k] = chain[j]  BY <1>6
  <2> QED  BY <2>1 DEF OfRoute
<1> QED  BY <1>6, <1>7

LEMMA PlanIsList ==
    ASSUME NEW c, Schema(c), NEW f, NEW m, NEW h \in Hooks
    PROVE  IsList(Plan(c, f, m)[h])
<1> DEFINE found == lookup(c, f, m)
           i == CHOOSE i \in found : TRUE
           listed == c.routes[i].plugins[h]
           P == {k \in DOMAIN listed : c.plugins[listed[k]].enabled}
<1>1. CASE found = {}
  <2>1. Plan(c, f, m)[h] = << >>  BY <1>1 DEF Plan, NoHooks
  <2>2. << >> \in Seq({})  OBVIOUS
  <2> QED  BY <2>1, <2>2, ListOf
<1>2. CASE found # {}
  <2>1. found \subseteq DOMAIN c.routes  BY SomeOf DEF lookup, HasBlock, Matching
  <2>2. i \in DOMAIN c.routes  BY <1>2, <2>1
  <2>3. Plan(c, f, m)[h] = Kept(listed, P)  BY <1>2 DEF Plan, PlanOf
  <2> HIDE DEF i
  <2>4. listed \in Seq(STRING)  BY <2>2 DEF Schema
  <2> HIDE DEF listed, P
  <2>5. Kept(listed, P) \in Seq({listed[k] : k \in P \cap (1..Len(listed))})
    BY <2>4, KeptType
  <2> QED  BY <2>3, <2>5, ListOf
<1> QED  BY <1>1, <1>2
-----------------------------------------------------------------------------
Fields == {"pc", "in", "canon", "finished", "mutated", "at", "route", "entry", "chain", "admitted",
           "sent", "events", "buf", "delivered", "h7", "outcome"}
IsRequest(r) == r = [f \in Fields |-> r[f]]

(* The program counters in their order. Nothing has been sent up to        *)
(* "ticket".                                                               *)
AfterAdmit == {"ticket", "complete", "calling", "events", "on_stream_event"}
AfterEntry == AfterAdmit \cup {"admit"}
AfterRoute == AfterEntry \cup {"decode", "on_decoded_request", "on_resolved", "entry"}
AfterAuth == AfterRoute \cup {"route"}
Unsent == {"idle", "open", "auth"} \cup (AfterAuth \ AfterAdmit) \cup {"ticket"}
Pcs == {"idle", "open", "auth", "done"} \cup AfterAuth

(* The answers that are a 4xx, and the others.                             *)
Refusals == {"InvalidBody", "CapabilityMismatch", "PluginAborted", "Unsupported", "Unauthorized",
             "NoRoute", "RateLimited"}
OtherOutcomes == {"none", "NoUpstreamSucceeded", "AllBreakersOpen", "NoEligibleUpstream",
                  "UnknownProvider", "PluginFailed", "FrontendEncode", "StreamDecode", "ErrorEvent",
                  "Proxied", "Streamed", "Unary", "Cancelled", "TerminalUpstream"}

Booted ==
    /\ cfg \in Configs
    /\ gateway \in {"boot", "refused", "serving"}
    /\ gateway = "serving" => Problems(cfg) = {}
    /\ providers \subseteq DOMAIN cfg.upstreams
    /\ gateway # "serving" \/ req.pc = "idle" => req = NoRequest

Shaped ==
    /\ IsRequest(req)
    /\ req.pc \in Pcs
    /\ req.at \in Nat \ {0}
    /\ req.mutated \in BOOLEAN
    /\ req.canon = [own |-> "client", edits |-> req.canon.edits]
    /\ req.outcome \in Refusals \cup OtherOutcomes
    /\ req.pc # "done" => req.outcome = "none" /\ req.h7 = 0
    /\ req.pc # "idle" => \E r \in Inbound : req.in = {r}

Uncalled ==
    /\ req.pc \in Unsent => req.sent = {}
    /\ req.outcome \in Refusals => req.sent = {}

Edited ==
    /\ req.canon.edits \subseteq req.finished
    /\ req.canon.edits = {} \/ req.mutated \/ ~TryProxyRaw
    /\ "raw" \in req.sent => req.canon.edits = {}

(* What is known from each gate on, and of whatever has been sent.         *)
Passed(gates) == req.pc \in gates \/ req.sent # {}

KeyShown == cfg.auth.enabled /\ cfg.auth.required => \E k \in cfg.auth.keys : k.of = The.key

RouteTaken == \E i \in req.route : i \in DOMAIN cfg.routes /\ OfRoute(req.chain, cfg.routes[i])

Cleared ==
    /\ req.admitted
    /\ req.chain # << >>
    /\ \A k \in DOMAIN req.chain : check_capability(req.chain[k]) = "ok"
    /\ \E at \in req.entry, size \in Sizes : \A k \in DOMAIN req.chain :
          Survives(cfg, cfg.routes[at], req.chain[k], size, The.frontend)

Missing ==
    \E t \in Range(req.chain) :
        t.provider = "copilot" \/ t.provider \in DOMAIN cfg.upstreams \ providers

Gated ==
    /\ Passed(AfterAuth) => KeyShown
    /\ Passed(AfterRoute) => RouteTaken
    /\ Passed(AfterEntry) => req.entry # {}
    /\ Passed(AfterAdmit) => Cleared
    /\ req.outcome = "UnknownProvider" => Missing

(* Which lookups the route and the entry come from.                        *)
Unrouted == {"idle", "open", "auth", "route"}
EntryFor == find_route_entry(cfg, The.frontend, The.model)

Looked ==
    /\ \A i \in req.route : \E r \in resolve_route(cfg, The.frontend, The.model) : r.at = i
    /\ req.entry # {} => req.entry = EntryFor /\ req.route # {}
    /\ req.pc \in Unrouted => req.route = {}
    /\ req.outcome = "NoRoute" => req.route = {} \/ EntryFor = {}

(* The copies of the event in the H5 chain have been seen by the failing   *)
(* plugins before the next one.                                            *)
Seen(e, k) ==
    LET p == HookPlan["on_stream_event"][k] IN cfg.plugins[p].on_error = "fail" => p \in e

Streamed ==
    /\ IsList(req.buf)
    /\ req.pc = "on_stream_event" =>
          \A j \in DOMAIN req.buf : \A k \in DOMAIN HookPlan["on_stream_event"] :
              k < req.at => Seen(req.buf[j], k)
    /\ FailPluginsSeeAll

Inv == Booted /\ Shaped /\ Uncalled /\ Edited /\ Gated /\ Looked /\ Streamed
-----------------------------------------------------------------------------
(* What only the configuration and the client's request decide.            *)
LEMMA Fixed ==
    ASSUME cfg' = cfg, req'.in = req.in
    PROVE  /\ The' = The /\ (TryProxyRaw' <=> TryProxyRaw) /\ HookPlan' = HookPlan
           /\ (KeyShown' <=> KeyShown) /\ EntryFor' = EntryFor
           /\ \A e, k : Seen(e, k)' <=> Seen(e, k)
<1>1. The' = The  BY DEF The
<1>2. HookPlan' = HookPlan  BY <1>1 DEF HookPlan
<1>3. KeyShown' <=> KeyShown  BY <1>1 DEF KeyShown
<1>4. ASSUME NEW e, NEW k PROVE Seen(e, k)' <=> Seen(e, k)  BY <1>2 DEF Seen
<1>5. TryProxyRaw' <=> TryProxyRaw  BY <1>1 DEF TryProxyRaw
<1>6. EntryFor' = EntryFor  BY <1>1 DEF EntryFor
<1> QED  BY <1>1, <1>2, <1>3, <1>4, <1>5, <1>6

LEMMA LookedSame ==
    ASSUME Inv, cfg' = cfg, req'.in = req.in, req'.route = req.route, req'.entry = req.entry,
           req'.pc \in Unrouted => req.pc \in Unrouted,
           req'.outcome = "NoRoute" => req.route = {} \/ EntryFor = {}
    PROVE  Looked'
<1>1. The' = The /\ EntryFor' = EntryFor  BY Fixed
<1> QED  BY <1>1 DEF Inv, Looked

LEMMA FixedGates ==
    ASSUME cfg' = cfg, providers' = providers, req'.in = req.in, req'.canon = req.canon,
           req'.route = req.route, req'.entry = req.entry, req'.chain = req.chain,
           req'.admitted = req.admitted
    PROVE  (RouteTaken' <=> RouteTaken) /\ (Cleared' <=> Cleared) /\ (Missing' <=> Missing)
<1>1. The' = The  BY Fixed
<1>2. Sizes' = Sizes  BY <1>1 DEF Sizes
<1>3. \A t : check_capability(t)' = check_capability(t)  BY <1>1 DEF check_capability, Sighted
<1>4. RouteTaken' <=> RouteTaken  BY DEF RouteTaken
<1>5. Missing' <=> Missing  BY DEF Missing
<1>6. Cleared' <=> Cleared  BY <1>1, <1>2, <1>3 DEF Cleared
<1> QED  BY <1>4, <1>5, <1>6

Same(changed) == \A f \in Fields \ changed : req'[f] = req[f]

(* A step that only moves on or answers keeps the invariant, if what the   *)
(* new place promises is known.                                            *)
LEMMA MoveInv ==
    ASSUME Inv, gateway = "serving", UNCHANGED core,
           IsRequest(req'), Same({"pc", "at", "outcome", "h7"}),
           req.pc \notin {"idle", "done"}, req'.pc \in Pcs \ {"idle", "on_stream_event"},
           req'.at \in Nat \ {0}, req'.outcome \in Refusals \cup OtherOutcomes,
           req'.pc # "done" => req'.outcome = "none" /\ req'.h7 = 0,
           req'.pc \in Unsent \/ req'.outcome \in Refusals => req.pc \in Unsent,
           req'.pc \in AfterAuth => KeyShown,
           req'.pc \in AfterRoute => RouteTaken,
           req'.pc \in AfterEntry => req.entry # {},
           req'.pc \in AfterAdmit => Cleared,
           req'.outcome = "UnknownProvider" => Missing,
           req'.pc \in Unrouted => req.pc \in Unrouted,
           req'.outcome = "NoRoute" => req.route = {} \/ EntryFor = {}
    PROVE  Inv'
<1>1. /\ cfg' = cfg /\ gateway' = gateway /\ providers' = providers /\ index' = index
  BY DEF core
<1>2. /\ req'.in = req.in /\ req'.canon = req.canon /\ req'.finished = req.finished
      /\ req'.mutated = req.mutated /\ req'.route = req.route /\ req'.entry = req.entry
      /\ req'.chain = req.chain /\ req'.admitted = req.admitted /\ req'.sent = req.sent
      /\ req'.buf = req.buf /\ req'.delivered = req.delivered
  BY DEF Same, Fields
<1>3. /\ The' = The /\ (TryProxyRaw' <=> TryProxyRaw) /\ HookPlan' = HookPlan
      /\ (KeyShown' <=> KeyShown) /\ (RouteTaken' <=> RouteTaken) /\ (Cleared' <=> Cleared)
      /\ (Missing' <=> Missing)
  BY <1>1, <1>2, Fixed, FixedGates
<1>4. Booted'  BY <1>1 DEF Inv, Booted
<1>5. Shaped'  BY <1>1, <1>2 DEF Inv, Shaped
<1>6. Uncalled'  BY <1>2 DEF Inv, Uncalled
<1>7. Edited'  BY <1>2, <1>3 DEF Inv, Edited
<1>8. Gated'  BY <1>2, <1>3 DEF Inv, Gated, Passed
<1>9. Streamed'  BY <1>1, <1>2, <1>3 DEF Inv, Streamed, FailPluginsSeeAll
<1>10. Looked'  BY <1>1, <1>2, LookedSame
<1> QED  BY <1>4, <1>5, <1>6, <1>7, <1>8, <1>9, <1>10 DEF Inv

LEMMA AnswerInv ==
    ASSUME Inv, gateway = "serving", UNCHANGED core, req.pc \notin {"idle", "done"},
           NEW o \in Refusals \cup OtherOutcomes, Answer(o),
           o \in Refusals => req.pc \in Unsent, o = "UnknownProvider" => Missing,
           o = "NoRoute" => req.route = {} \/ EntryFor = {}
    PROVE  Inv'
<1>1. IsRequest(req)  BY DEF Inv, Shaped
<1>2. /\ req'.pc = "done" /\ req'.outcome = o /\ req'.at = req.at
      /\ IsRequest(req') /\ Same({"pc", "at", "outcome", "h7"})
  BY <1>1 DEF Answer, IsRequest, Fields, Same
<1>3. req.at \in Nat \ {0}  BY DEF Inv, Shaped
<1> QED  BY <1>2, <1>3, MoveInv
         DEF Pcs, Unsent, Unrouted, AfterAuth, AfterRoute, AfterEntry, AfterAdmit

LEMMA GotoInv ==
    ASSUME Inv, gateway = "serving", UNCHANGED core, req.pc \notin {"idle", "done"},
           NEW to \in Pcs \ {"idle", "done", "on_stream_event"}, Goto(to),
           to \in Unsent => req.pc \in Unsent, to \in Unrouted => req.pc \in Unrouted,
           to \in AfterAuth => KeyShown,
           to \in AfterRoute => RouteTaken,
           to \in AfterEntry => req.entry # {},
           to \in AfterAdmit => Cleared
    PROVE  Inv'
<1>1. IsRequest(req) /\ req.outcome = "none" /\ req.h7 = 0  BY DEF Inv, Shaped
<1>2. /\ req'.pc = to /\ req'.outcome = "none" /\ req'.at = 1 /\ req'.h7 = 0
      /\ IsRequest(req') /\ Same({"pc", "at", "outcome", "h7"})
  BY <1>1 DEF Goto, IsRequest, Fields, Same
<1> QED  BY <1>2, MoveInv DEF OtherOutcomes, Refusals
-----------------------------------------------------------------------------
LEMMA InitInv == Init => Inv
<1> SUFFICES ASSUME Init PROVE Inv  OBVIOUS
<1>1. req = NoRequest /\ cfg \in Configs /\ gateway = "boot"  BY DEF Init
<1>2. req.sent = {} /\ req.pc = "idle" /\ req.outcome = "none" /\ req.delivered = {}
      /\ req.buf = << >> /\ req.canon.edits = {}
  BY <1>1 DEF NoRequest
<1>3. Booted  BY <1>1 DEF Init, Booted
<1>4. Shaped
  <2>1. IsRequest(req)  BY <1>1 DEF NoRequest, IsRequest, Fields
  <2> QED  BY <1>1, <2>1 DEF Shaped, NoRequest, Pcs, OtherOutcomes
<1>5. Uncalled /\ Edited  BY <1>2 DEF Uncalled, Edited
<1>6. Gated
  BY <1>2 DEF Gated, Passed, AfterAuth, AfterRoute, AfterEntry, AfterAdmit
<1>7. Streamed
  <2>1. << >> \in Seq({})  OBVIOUS
  <2>2. IsList(<< >>)  BY <2>1, ListOf
  <2> QED  BY <1>2, <2>2 DEF Streamed, FailPluginsSeeAll
<1>8. Looked  BY <1>1, <1>2 DEF Looked, NoRequest
<1> QED  BY <1>3, <1>4, <1>5, <1>6, <1>7, <1>8 DEF Inv

(* While the gateway boots there is no request.                            *)
LEMMA BootingInv ==
    ASSUME Inv, gateway = "boot", cfg' = cfg, req' = req, Booted'
    PROVE  Inv'
<1>1. req = NoRequest  BY DEF Inv, Booted
<1>2. req.sent = {} /\ req.pc = "idle" /\ req.outcome = "none" /\ req.delivered = {}
      /\ req.buf = << >> /\ req.canon.edits = {}
  BY <1>1 DEF NoRequest
<1>3. Shaped' /\ Uncalled'  BY DEF Inv, Shaped, Uncalled
<1>4. Edited'  BY <1>2 DEF Inv, Edited
<1>5. Gated'
  BY <1>2 DEF Gated, Passed, AfterAuth, AfterRoute, AfterEntry, AfterAdmit
<1>6. Streamed'
  <2>1. IsList(req.buf)  BY DEF Inv, Streamed
  <2> QED  BY <1>2, <2>1 DEF Streamed, FailPluginsSeeAll
<1>7. Looked'  BY <1>2, LookedSame
<1> QED  BY <1>3, <1>4, <1>5, <1>6, <1>7 DEF Inv

LEMMA RefuseInv == ASSUME Inv, Refuse PROVE Inv'
<1>1. Booted'  BY DEF Inv, Booted, Refuse
<1> QED  BY <1>1, BootingInv DEF Refuse

(* A configuration that passed validation does not make the router panic.  *)
LEMMA BootInv == ASSUME Inv, Boot PROVE Inv'
<1>1. ~RouterPanics
  <2> SUFFICES ASSUME RouterPanics PROVE FALSE  OBVIOUS
  <2>1. PICK i \in DOMAIN cfg.routes : /\ cfg.routes[i].upstreams = << >>
                                       /\ \/ cfg.routes[i].upstream = {}
                                          \/ cfg.routes[i].upstream_model = {}
    BY DEF RouterPanics, RoutesOf
  <2> QED  BY <2>1, Formed DEF Boot
<1>2. gateway' \in {"refused", "serving"} /\ req' = req /\ cfg' = cfg /\ Problems(cfg) = {}
  BY <1>1 DEF Boot
<1>3. providers' \subseteq DOMAIN cfg.upstreams  BY DEF Boot, Buildable
<1>4. cfg \in Configs /\ req = NoRequest  BY DEF Inv, Booted, Boot
<1>5. Booted'  BY <1>2, <1>3, <1>4 DEF Booted
<1> QED  BY <1>2, <1>5, BootingInv DEF Boot

LEMMA ArriveInv == ASSUME Inv, Arrive PROVE Inv'
<1>1. gateway = "serving" /\ req.pc = "idle" /\ UNCHANGED core  BY DEF Arrive, At
<1>2. PICK r \in Inbound : req' = [req EXCEPT !.in = {r}, !.pc = "open"]  BY DEF Arrive
<1>3. req = NoRequest /\ IsRequest(req)  BY <1>1 DEF Inv, Booted, Shaped
<1>4. IsRequest(req') /\ req'.pc = "open" /\ req'.in = {r} /\ Same({"in", "pc"})
  BY <1>2, <1>3 DEF IsRequest, Fields, Same
<1>5. /\ req'.sent = {} /\ req'.outcome = "none" /\ req'.delivered = {} /\ req'.buf = req.buf
      /\ req'.canon = req.canon /\ req'.canon.edits = {} /\ req'.at = 1 /\ req'.h7 = 0
      /\ req'.mutated = req.mutated
  <2>1. /\ req'.sent = req.sent /\ req'.outcome = req.outcome /\ req'.delivered = req.delivered
        /\ req'.buf = req.buf /\ req'.canon = req.canon /\ req'.at = req.at
        /\ req'.mutated = req.mutated /\ req'.h7 = req.h7
    BY <1>4 DEF Same, Fields
  <2>2. /\ req.sent = {} /\ req.outcome = "none" /\ req.delivered = {} /\ req.canon.edits = {}
        /\ req.at = 1 /\ req.h7 = 0
    BY <1>3 DEF NoRequest
  <2> QED  BY <2>1, <2>2
<1>6. Booted'  BY <1>1, <1>4 DEF Inv, Booted, core
<1>7. Shaped'  BY <1>4, <1>5 DEF Inv, Shaped, Pcs, OtherOutcomes
<1>8. Uncalled' /\ Edited'  BY <1>5 DEF Uncalled, Edited
<1>9. Gated'
  BY <1>4, <1>5 DEF Gated, Passed, AfterAuth, AfterRoute, AfterEntry, AfterAdmit
<1>10. Streamed'  BY <1>4, <1>5 DEF Inv, Streamed, FailPluginsSeeAll
<1>11. Looked'
  <2>1. req'.route = req.route /\ req'.entry = req.entry  BY <1>4 DEF Same, Fields
  <2>2. req.route = {} /\ req.entry = {}  BY <1>3 DEF NoRequest
  <2> QED  BY <1>5, <2>1, <2>2 DEF Looked
<1> QED  BY <1>6, <1>7, <1>8, <1>9, <1>10, <1>11 DEF Inv

LEMMA OpenInv == ASSUME Inv, Open PROVE Inv'
<1>1. gateway = "serving" /\ req.pc = "open" /\ UNCHANGED core  BY DEF Open, At
<1>2. Goto("auth") \/ \E o \in {"InvalidBody", "Unsupported"} : Answer(o)
  BY DEF Open, DecodeFailures
<1>3. CASE Goto("auth")
  BY <1>1, <1>3, GotoInv DEF Pcs, Unsent, Unrouted, AfterAuth, AfterRoute, AfterEntry, AfterAdmit
<1>4. CASE \E o \in {"InvalidBody", "Unsupported"} : Answer(o)
  BY <1>1, <1>4, AnswerInv DEF Refusals, Unsent
<1> QED  BY <1>2, <1>3, <1>4

(* check_auth lets through a key whose hash is configured.                 *)
LEMMA AuthorisedKey == ASSUME Authorised(The.key) PROVE KeyShown
<1>1. hash_key(The.key).of = The.key  BY DEF hash_key
<1> QED  BY <1>1 DEF Authorised, KeyShown

LEMMA CheckAuthInv == ASSUME Inv, CheckAuth PROVE Inv'
<1>1. gateway = "serving" /\ req.pc = "auth" /\ UNCHANGED core  BY DEF CheckAuth, At
<1>2. CASE Authorised(The.key)
  <2>1. Goto("route")  BY <1>2 DEF CheckAuth
  <2>2. KeyShown  BY <1>2, AuthorisedKey
  <2> QED  BY <1>1, <2>1, <2>2, GotoInv
           DEF Pcs, Unsent, Unrouted, AfterAuth, AfterRoute, AfterEntry, AfterAdmit
<1>3. CASE ~Authorised(The.key)
  <2>1. Answer("Unauthorized")  BY <1>3 DEF CheckAuth
  <2> QED  BY <1>1, <2>1, AnswerInv DEF Refusals, Unsent
<1> QED  BY <1>2, <1>3

(* The parts of the invariant that a step with other business leaves.      *)
LEMMA EditedSame ==
    ASSUME Inv, cfg' = cfg, req'.in = req.in, req'.canon = req.canon, req'.finished = req.finished,
           req'.mutated = req.mutated, req'.sent = req.sent
    PROVE  Edited'
<1>1. TryProxyRaw' <=> TryProxyRaw  BY Fixed
<1> QED  BY <1>1 DEF Inv, Edited

LEMMA StreamedSame ==
    ASSUME Inv, cfg' = cfg, req'.in = req.in, req'.buf = req.buf, req'.delivered = req.delivered,
           req'.pc # "on_stream_event"
    PROVE  Streamed'
<1>1. HookPlan' = HookPlan  BY Fixed
<1> QED  BY <1>1 DEF Inv, Streamed, FailPluginsSeeAll

LEMMA ResolveRouteInv == ASSUME Inv, ResolveRoute PROVE Inv'
<1> DEFINE found == Resolve(cfg, index, The.frontend, The.model)
<1>1. gateway = "serving" /\ req.pc = "route" /\ UNCHANGED core  BY DEF ResolveRoute, At
<1>2. CASE found = {}
  <2>1. Answer("NoRoute")  BY <1>2 DEF ResolveRoute
  <2>2. req.route = {}  BY <1>1 DEF Inv, Looked, Unrouted
  <2> QED  BY <1>1, <2>1, <2>2, AnswerInv DEF Refusals, Unsent, AfterAuth, AfterAdmit
<1>3. CASE found # {}
  <2>1. PICK r \in found :
            req' = [req EXCEPT !.pc = "decode", !.route = {r.at}, !.chain = r.chain]
    BY <1>3 DEF ResolveRoute
  <2>2. Schema(cfg) /\ Problems(cfg) = {} /\ IsRequest(req)
    BY <1>1, ConfigsAssumption DEF Inv, Booted, Shaped
  <2>3. /\ r.at \in DOMAIN cfg.routes /\ OfRoute(r.chain, cfg.routes[r.at])
        /\ \E y \in resolve_route(cfg, The.frontend, The.model) : r.at = y.at
    BY <2>2, ResolveSound
  <2>4. /\ IsRequest(req') /\ req'.pc = "decode" /\ req'.route = {r.at} /\ req'.chain = r.chain
        /\ Same({"pc", "route", "chain"})
    BY <2>1, <2>2 DEF IsRequest, Fields, Same
  <2>5. /\ req'.in = req.in /\ req'.canon = req.canon /\ req'.finished = req.finished
        /\ req'.mutated = req.mutated /\ req'.sent = req.sent /\ req'.at = req.at
        /\ req'.outcome = req.outcome /\ req'.h7 = req.h7 /\ req'.buf = req.buf
        /\ req'.delivered = req.delivered /\ req'.entry = req.entry
    BY <2>4 DEF Same, Fields
  <2>6. req.sent = {} /\ req.outcome = "none" /\ KeyShown
    BY <1>1 DEF Inv, Uncalled, Shaped, Gated, Passed, Unsent, AfterAuth, AfterAdmit
  <2>7. cfg' = cfg /\ gateway' = gateway /\ providers' = providers  BY <1>1 DEF core
  <2>8. KeyShown'  BY <2>5, <2>6, <2>7, Fixed
  <2>9. RouteTaken'  BY <2>3, <2>4, <2>7 DEF RouteTaken
  <2>10. Booted'  BY <1>1, <2>4, <2>7 DEF Inv, Booted
  <2>11. Shaped'
    BY <1>1, <2>4, <2>5 DEF Inv, Shaped, Pcs, AfterAuth, AfterRoute
  <2>12. Uncalled'  BY <2>5, <2>6 DEF Uncalled
  <2>13. Gated'
    BY <2>4, <2>5, <2>6, <2>8, <2>9 DEF Gated, Passed, AfterRoute, AfterEntry, AfterAdmit
  <2>14. Edited' /\ Streamed'  BY <2>4, <2>5, <2>7, EditedSame, StreamedSame
  <2>15. Looked'
    <3>1. The' = The /\ EntryFor' = EntryFor  BY <2>5, <2>7, Fixed
    <3> QED  BY <2>3, <2>4, <2>5, <2>6, <2>7, <3>1 DEF Inv, Looked, Unrouted
  <2> QED  BY <2>10, <2>11, <2>12, <2>13, <2>14, <2>15 DEF Inv
<1> QED  BY <1>2, <1>3

LEMMA DecodeInv == ASSUME Inv, Decode PROVE Inv'
<1>1. gateway = "serving" /\ req.pc = "decode" /\ UNCHANGED core  BY DEF Decode, At
<1>2. Goto("on_decoded_request") \/ \E o \in {"InvalidBody", "Unsupported"} : Answer(o)
  BY DEF Decode, DecodeFailures
<1>3. CASE Goto("on_decoded_request")
  <2>1. KeyShown /\ RouteTaken
    BY <1>1 DEF Inv, Gated, Passed, AfterAuth, AfterRoute
  <2> QED  BY <1>1, <1>3, <2>1, GotoInv
           DEF Pcs, Unsent, Unrouted, AfterAuth, AfterRoute, AfterEntry, AfterAdmit
<1>4. CASE \E o \in {"InvalidBody", "Unsupported"} : Answer(o)
  BY <1>1, <1>4, AnswerInv DEF Refusals, Unsent, AfterAuth, AfterRoute, AfterEntry, AfterAdmit
<1> QED  BY <1>2, <1>3, <1>4
-----------------------------------------------------------------------------
(* One plugin's turn: the request it leaves has the client's identity and  *)
(* carries nothing of a plugin that did not finish.                        *)
LEMMA WalkedKeeps ==
    ASSUME NEW canon, canon = [own |-> "client", edits |-> canon.edits], NEW p,
           NEW copy \in Copies(canon, p), NEW ending, NEW on_error
    PROVE  LET w == Walked(canon, copy, ending, on_error)
           IN  /\ w.req = [own |-> "client", edits |-> w.req.edits]
               /\ w.req.edits \subseteq canon.edits \cup {p}
               /\ w.outcome # "success" => w.req = canon
<1> DEFINE w == Walked(canon, copy, ending, on_error)
<1>1. w.outcome # "success" => w.req = canon  BY DEF Walked
<1>2. w.outcome = "success" => w.req = copy /\ copy.own = canon.own
  BY DEF Walked, InvokeOutcome
<1>3. canon.own = "client"  OBVIOUS
<1>4. copy.own = canon.own => /\ copy = [own |-> "client", edits |-> copy.edits]
                              /\ copy.edits \subseteq canon.edits \cup {p}
  BY <1>3 DEF Copies
<1> HIDE DEF w
<1>5. /\ w.req = [own |-> "client", edits |-> w.req.edits]
      /\ w.req.edits \subseteq canon.edits \cup {p}
  BY <1>1, <1>2, <1>4
<1> QED  BY <1>1, <1>5 DEF w

LEMMA WalkHookInv ==
    ASSUME Inv, NEW hook \in {"on_decoded_request", "on_resolved"}, WalkHook(hook)
    PROVE  Inv'
<1> DEFINE p == HookPlan[hook][req.at]
<1>1. gateway = "serving" /\ req.pc = hook /\ UNCHANGED core  BY DEF WalkHook, At
<1>2. req.pc \in Unsent /\ req.pc \in AfterRoute /\ req.pc \notin AfterEntry
      /\ req.pc \notin {"idle", "done", "on_stream_event"}
  BY <1>1 DEF Unsent, AfterAuth, AfterRoute, AfterEntry, AfterAdmit
<1>3. PICK ending \in Endings, copy \in Copies(req.canon, p) :
          LET w == Walked(req.canon, copy, ending, cfg.plugins[p].on_error)
          IN  IF w.outcome = "propagate" THEN Answer(PluginFailure(ending))
              ELSE req' = [req EXCEPT !.at = @ + 1, !.canon = w.req,
                             !.mutated = @ \/ Mutates(req.canon, w.req),
                             !.finished = IF w.outcome = "success" THEN @ \cup {p} ELSE @]
  BY DEF WalkHook
<1> DEFINE w == Walked(req.canon, copy, ending, cfg.plugins[p].on_error)
<1>4. req.canon = [own |-> "client", edits |-> req.canon.edits] /\ IsRequest(req)
  BY DEF Inv, Shaped
<1>5. /\ w.req = [own |-> "client", edits |-> w.req.edits]
      /\ w.req.edits \subseteq req.canon.edits \cup {p}
      /\ w.outcome # "success" => w.req = req.canon
  BY <1>4, WalkedKeeps
<1> HIDE DEF w
<1>6. CASE w.outcome = "propagate"
  <2>1. Answer(PluginFailure(ending))  BY <1>3, <1>6 DEF w
  <2>2. PluginFailure(ending) \in {"PluginAborted", "PluginFailed"}  BY DEF PluginFailure
  <2> QED  BY <1>1, <1>2, <2>1, <2>2, AnswerInv DEF Refusals, OtherOutcomes
<1>7. CASE w.outcome # "propagate"
  <2>1. req' = [req EXCEPT !.at = @ + 1, !.canon = w.req,
                  !.mutated = @ \/ Mutates(req.canon, w.req),
                  !.finished = IF w.outcome = "success" THEN @ \cup {p} ELSE @]
    BY <1>3, <1>7 DEF w
  <2>2. /\ IsRequest(req') /\ req'.at = req.at + 1 /\ req'.canon = w.req
        /\ req'.finished = (IF w.outcome = "success" THEN req.finished \cup {p} ELSE req.finished)
        /\ Same({"at", "canon", "mutated", "finished"})
    <3> HIDE DEF p
    <3> QED  BY <1>4, <2>1 DEF IsRequest, Fields, Same
  <2>3. req'.mutated = (req.mutated \/ Mutates(req.canon, w.req))
    BY <1>4, <2>1 DEF IsRequest, Fields
  <2>4. /\ req'.pc = req.pc /\ req'.in = req.in /\ req'.route = req.route /\ req'.entry = req.entry
        /\ req'.chain = req.chain /\ req'.sent = req.sent /\ req'.buf = req.buf
        /\ req'.delivered = req.delivered /\ req'.outcome = req.outcome /\ req'.h7 = req.h7
    BY <2>2 DEF Same, Fields
  <2>5. req.sent = {} /\ req.outcome = "none" /\ KeyShown /\ RouteTaken
    BY <1>2 DEF Inv, Uncalled, Shaped, Gated, Passed, AfterAuth
  <2>6. cfg' = cfg /\ gateway' = gateway /\ providers' = providers  BY <1>1 DEF core
  <2>7. KeyShown' /\ (TryProxyRaw' <=> TryProxyRaw)  BY <2>4, <2>5, <2>6, Fixed
  <2>8. RouteTaken'  BY <2>4, <2>5, <2>6 DEF RouteTaken
  <2>9. Booted'  BY <1>1, <1>2, <2>4, <2>6 DEF Inv, Booted
  <2>10. req'.mutated \in BOOLEAN  BY <2>3
  <2>11. Shaped'
    BY <1>5, <2>2, <2>4, <2>10 DEF Inv, Shaped
  <2>12. Uncalled'  BY <2>4, <2>5 DEF Uncalled
  <2>13. Edited'
    <3>1. req'.canon.edits \subseteq req'.finished  BY <1>5, <2>2 DEF Inv, Edited
    <3>2. w.req # req.canon /\ TryProxyRaw => req'.mutated  BY <2>3 DEF Mutates
    <3>3. req.mutated => req'.mutated  BY <2>3
    <3>4. req'.canon.edits = {} \/ req'.mutated \/ ~TryProxyRaw
      BY <2>2, <3>2, <3>3 DEF Inv, Edited
    <3> QED  BY <2>4, <2>5, <2>7, <3>1, <3>4 DEF Edited
  <2>14. Gated'
    BY <1>2, <2>4, <2>5, <2>7, <2>8 DEF Gated, Passed, AfterEntry
  <2>15. Streamed'  BY <1>2, <2>4, <2>6, StreamedSame
  <2>16. Looked'  BY <2>4, <2>5, <2>6, LookedSame
  <2> QED  BY <2>9, <2>11, <2>12, <2>13, <2>14, <2>15, <2>16 DEF Inv
<1> QED  BY <1>6, <1>7

LEMMA EndHookInv ==
    ASSUME Inv, NEW hook \in {"on_decoded_request", "on_resolved"}, EndHook(hook)
    PROVE  Inv'
<1>1. gateway = "serving" /\ req.pc = hook /\ UNCHANGED core /\ Goto(After[hook])
  BY DEF EndHook, At
<1>2. After[hook] \in {"on_resolved", "entry"}  BY DEF After
<1>3. KeyShown /\ RouteTaken
  BY <1>1 DEF Inv, Gated, Passed, AfterAuth, AfterRoute
<1> QED  BY <1>1, <1>2, <1>3, GotoInv
         DEF Pcs, Unsent, Unrouted, AfterAuth, AfterRoute, AfterEntry, AfterAdmit

LEMMA FindEntryInv == ASSUME Inv, FindEntry PROVE Inv'
<1> DEFINE entry == find_route_entry(cfg, The.frontend, The.model)
<1>1. gateway = "serving" /\ req.pc = "entry" /\ UNCHANGED core  BY DEF FindEntry, At
<1>2. CASE entry = {}
  <2>1. Answer("NoRoute")  BY <1>2 DEF FindEntry
  <2>2. EntryFor = {}  BY <1>2 DEF EntryFor
  <2> QED  BY <1>1, <2>1, <2>2, AnswerInv
           DEF Refusals, Unsent, AfterAuth, AfterRoute, AfterEntry, AfterAdmit
<1>3. CASE entry # {}
  <2>1. req' = [req EXCEPT !.pc = "admit", !.entry = entry]  BY <1>3 DEF FindEntry
  <2>2. IsRequest(req)  BY DEF Inv, Shaped
  <2> HIDE DEF entry
  <2>4. /\ IsRequest(req') /\ req'.pc = "admit" /\ req'.entry = entry /\ Same({"pc", "entry"})
    BY <2>1, <2>2 DEF IsRequest, Fields, Same
  <2>5. /\ req'.in = req.in /\ req'.canon = req.canon /\ req'.finished = req.finished
        /\ req'.mutated = req.mutated /\ req'.sent = req.sent /\ req'.at = req.at
        /\ req'.outcome = req.outcome /\ req'.h7 = req.h7 /\ req'.buf = req.buf
        /\ req'.delivered = req.delivered /\ req'.route = req.route /\ req'.chain = req.chain
    BY <2>4 DEF Same, Fields
  <2>6. req.sent = {} /\ req.outcome = "none" /\ KeyShown /\ RouteTaken
    BY <1>1 DEF Inv, Uncalled, Shaped, Gated, Passed, Unsent, AfterAuth, AfterRoute, AfterAdmit
  <2>7. cfg' = cfg /\ gateway' = gateway /\ providers' = providers  BY <1>1 DEF core
  <2>8. KeyShown'  BY <2>5, <2>6, <2>7, Fixed
  <2>9. RouteTaken'  BY <2>5, <2>6, <2>7 DEF RouteTaken
  <2>10. Booted'  BY <1>1, <2>4, <2>7 DEF Inv, Booted
  <2>11. Shaped'
    BY <1>1, <2>4, <2>5 DEF Inv, Shaped, Pcs, AfterAuth, AfterRoute, AfterEntry
  <2>12. Uncalled'  BY <2>5, <2>6 DEF Uncalled
  <2>13. Gated'
    BY <1>3, <2>4, <2>5, <2>6, <2>8, <2>9 DEF Gated, Passed, AfterAdmit
  <2>14. Edited' /\ Streamed'  BY <2>4, <2>5, <2>7, EditedSame, StreamedSame
  <2>15. Looked'
    <3>1. The' = The /\ EntryFor' = EntryFor  BY <2>5, <2>7, Fixed
    <3>2. entry = EntryFor /\ req.route # {}  BY <2>6 DEF entry, EntryFor, RouteTaken
    <3> QED  BY <2>4, <2>5, <2>6, <2>7, <3>1, <3>2 DEF Inv, Looked, Unrouted
  <2> QED  BY <2>10, <2>11, <2>12, <2>13, <2>14, <2>15 DEF Inv
<1> QED  BY <1>2, <1>3

(* What admission answers for a chain (admission.rs): "ok" only if every   *)
(* target has a provider that can serve the request.                       *)
LEMMA AdmissionSound ==
    ASSUME NEW chain, IsList(chain), NEW answer \in AdmissionAnswers(chain)
    PROVE  /\ answer \in {"RateLimited", "NoEligibleUpstream", "UnknownProvider",
                          "CapabilityMismatch", "AllBreakersOpen", "ok"}
           /\ answer = "ok" => /\ chain # << >>
                               /\ \A k \in DOMAIN chain : check_capability(chain[k]) = "ok"
           /\ answer = "UnknownProvider" => \E k \in DOMAIN chain : chain[k].provider \notin providers
<1> DEFINE failing == {i \in DOMAIN chain : check_capability(chain[i]) # "ok"}
<1>1. \A t : check_capability(t) \in {"UnknownProvider", "CapabilityMismatch", "ok"}
  BY DEF check_capability
<1>2. CASE failing # {}
  <2>1. failing \subseteq Nat  BY ListShape
  <2> HIDE DEF failing
  <2>2. \E i \in failing : \A j \in failing : i <= j  BY <1>2, <2>1, LeastPosition
  <2>3. Min(failing) \in failing  BY <2>2 DEF Min
  <2>4. answer \in {"RateLimited", "NoEligibleUpstream", check_capability(chain[Min(failing)])}
    BY <1>2 DEF AdmissionAnswers, failing
  <2>5. Min(failing) \in DOMAIN chain /\ check_capability(chain[Min(failing)]) # "ok"
    BY <2>3 DEF failing
  <2>6. answer = "UnknownProvider" => chain[Min(failing)].provider \notin providers
    BY <2>4 DEF check_capability
  <2> QED  BY <1>1, <2>4, <2>5, <2>6
<1>3. CASE failing = {}
  <2>1. answer \in {"RateLimited", "NoEligibleUpstream", "AllBreakersOpen", "ok"}
        /\ (answer = "ok" => chain # << >>)
    BY <1>3 DEF AdmissionAnswers
  <2> QED  BY <1>3, <2>1
<1> QED  BY <1>2, <1>3

LEMMA AdmitInv == ASSUME Inv, Admit PROVE Inv'
<1>1. gateway = "serving" /\ req.pc = "admit" /\ UNCHANGED core  BY DEF Admit, At
<1>2. PICK size \in Sizes, at \in req.entry :
        \E answer \in AdmissionAnswers(filter_chain(cfg, cfg.routes[at], req.chain, size, The.frontend)) :
           IF answer # "ok" THEN Answer(answer)
           ELSE req' = [req EXCEPT !.pc = "ticket", !.admitted = TRUE,
                          !.chain = filter_chain(cfg, cfg.routes[at], req.chain, size, The.frontend)]
  BY DEF Admit
<1> DEFINE chain == filter_chain(cfg, cfg.routes[at], req.chain, size, The.frontend)
<1>3. PICK answer \in AdmissionAnswers(chain) :
           IF answer # "ok" THEN Answer(answer)
           ELSE req' = [req EXCEPT !.pc = "ticket", !.admitted = TRUE, !.chain = chain]
  BY <1>2
<1>4. /\ KeyShown /\ RouteTaken /\ req.sent = {} /\ req.outcome = "none" /\ req.entry # {}
      /\ IsRequest(req)
  BY <1>1 DEF Inv, Gated, Passed, Uncalled, Shaped, Unsent, AfterAuth, AfterRoute, AfterEntry,
              AfterAdmit
<1>5. PICK i \in req.route : i \in DOMAIN cfg.routes /\ OfRoute(req.chain, cfg.routes[i])
  BY <1>4 DEF RouteTaken
<1>6. /\ OfRoute(chain, cfg.routes[i])
      /\ \A k \in DOMAIN chain : /\ Survives(cfg, cfg.routes[at], chain[k], size, The.frontend)
                                 /\ \E j \in DOMAIN req.chain : chain[k] = req.chain[j]
  <2>1. chain = filter_chain(cfg, cfg.routes[at], req.chain, size, The.frontend)  OBVIOUS
  <2> HIDE DEF chain
  <2> QED  BY <1>5, <2>1, FilteredOfRoute
<1> HIDE DEF chain
<1>7. IsList(chain)  BY <1>6 DEF OfRoute
<1>8. CASE answer # "ok"
  <2>1. Answer(answer)  BY <1>3, <1>8
  <2>2. ASSUME answer = "UnknownProvider" PROVE Missing
    <3>1. PICK k \in DOMAIN chain : chain[k].provider \notin providers
      BY <1>7, <2>2, AdmissionSound
    <3>2. PICK j \in DOMAIN req.chain : chain[k] = req.chain[j]  BY <1>6
    <3>3. chain[k].provider \in Referenced(cfg.routes[i])  BY <1>6 DEF OfRoute
    <3>4. upstream_is_configured(cfg, chain[k].provider)
      BY <1>1, <1>5, <3>3, Formed DEF Inv, Booted
    <3>5. req.chain[j] \in Range(req.chain)  BY DEF Range
    <3> QED  BY <3>1, <3>2, <3>4, <3>5 DEF Missing, upstream_is_configured
  <2>3. answer \in Refusals \cup OtherOutcomes
    BY <1>7, <1>8, AdmissionSound DEF Refusals, OtherOutcomes
  <2>4. req.pc \in Unsent /\ req.pc \notin {"idle", "done"}
    BY <1>1 DEF Unsent, AfterAuth, AfterRoute, AfterEntry, AfterAdmit
  <2>5. answer # "NoRoute"  BY <1>7, AdmissionSound
  <2> QED  BY <1>1, <2>1, <2>2, <2>3, <2>4, <2>5, AnswerInv
<1>9. CASE answer = "ok"
  <2>1. req' = [req EXCEPT !.pc = "ticket", !.admitted = TRUE, !.chain = chain]  BY <1>3, <1>9
  <2>2. chain # << >> /\ \A k \in DOMAIN chain : check_capability(chain[k]) = "ok"
    BY <1>7, <1>9, AdmissionSound
  <2>4. /\ IsRequest(req') /\ req'.pc = "ticket" /\ req'.admitted /\ req'.chain = chain
        /\ Same({"pc", "admitted", "chain"})
    BY <1>4, <2>1 DEF IsRequest, Fields, Same
  <2>5. /\ req'.in = req.in /\ req'.canon = req.canon /\ req'.finished = req.finished
        /\ req'.mutated = req.mutated /\ req'.sent = req.sent /\ req'.at = req.at
        /\ req'.outcome = req.outcome /\ req'.h7 = req.h7 /\ req'.buf = req.buf
        /\ req'.delivered = req.delivered /\ req'.route = req.route /\ req'.entry = req.entry
    BY <2>4 DEF Same, Fields
  <2>7. cfg' = cfg /\ gateway' = gateway /\ providers' = providers  BY <1>1 DEF core
  <2>8. KeyShown' /\ The' = The  BY <1>4, <2>5, <2>7, Fixed
  <2>9. RouteTaken'  BY <1>5, <1>6, <2>4, <2>5, <2>7 DEF RouteTaken
  <2>15. Cleared'
    <3>1. Sizes' = Sizes  BY <2>5, <2>8 DEF Sizes
    <3>2. \A t : check_capability(t)' = check_capability(t)
      BY <2>7, <2>8 DEF check_capability, Sighted
    <3>3. \A k \in DOMAIN req'.chain : check_capability(req.chain[k])' = "ok"
      BY <2>2, <2>4, <3>2
    <3>4. \E a \in req'.entry, z \in Sizes' : \A k \in DOMAIN req'.chain :
              Survives(cfg', cfg'.routes[a], req'.chain[k], z, The'.frontend)
      BY <1>6, <2>4, <2>5, <2>7, <2>8, <3>1
    <3> QED  BY <2>2, <2>4, <3>3, <3>4 DEF Cleared
  <2>10. Booted'  BY <1>1, <2>4, <2>7 DEF Inv, Booted
  <2>11. Shaped'
    BY <1>1, <2>4, <2>5 DEF Inv, Shaped, Pcs, AfterAuth, AfterRoute, AfterEntry, AfterAdmit
  <2>12. Uncalled'  BY <1>4, <2>5 DEF Uncalled
  <2>13. Gated'
    BY <1>4, <2>4, <2>5, <2>8, <2>9, <2>15 DEF Gated, Passed
  <2>14. Edited' /\ Streamed'  BY <2>4, <2>5, <2>7, EditedSame, StreamedSame
  <2>16. Looked'  BY <1>4, <2>4, <2>5, <2>7, LookedSame DEF Unrouted
  <2> QED  BY <2>10, <2>11, <2>12, <2>13, <2>14, <2>16 DEF Inv
<1> QED  BY <1>8, <1>9
-----------------------------------------------------------------------------
(* A step that sends the request, after every gate.                        *)
LEMMA SendInv ==
    ASSUME Inv, gateway = "serving", UNCHANGED core, req.pc \in {"ticket", "complete"},
           IsRequest(req'), Same({"pc", "sent", "outcome"}), "raw" \in req'.sent => req.canon.edits = {},
           \/ req'.pc \in {"complete", "calling"} /\ req'.outcome = "none"
           \/ req'.pc = "done" /\ req'.outcome = "Proxied"
    PROVE  Inv'
<1>1. cfg' = cfg /\ gateway' = gateway /\ providers' = providers  BY DEF core
<1>2. /\ req'.in = req.in /\ req'.canon = req.canon /\ req'.finished = req.finished
      /\ req'.mutated = req.mutated /\ req'.route = req.route /\ req'.entry = req.entry
      /\ req'.chain = req.chain /\ req'.admitted = req.admitted /\ req'.at = req.at
      /\ req'.buf = req.buf /\ req'.delivered = req.delivered /\ req'.h7 = req.h7
  BY DEF Same, Fields
<1>3. KeyShown /\ RouteTaken /\ req.entry # {} /\ Cleared
  BY DEF Inv, Gated, Passed, AfterAuth, AfterRoute, AfterEntry, AfterAdmit
<1>4. KeyShown' /\ RouteTaken' /\ Cleared' /\ (TryProxyRaw' <=> TryProxyRaw)
  BY <1>1, <1>2, <1>3, Fixed, FixedGates
<1>5. Booted'  BY <1>1 DEF Inv, Booted
<1>6. Shaped'
  BY <1>2 DEF Inv, Shaped, Pcs, AfterAuth, AfterRoute, AfterEntry, AfterAdmit, OtherOutcomes
<1>7. Uncalled'
  BY DEF Uncalled, Unsent, AfterAuth, AfterRoute, AfterEntry, AfterAdmit, Refusals
<1>8. Edited'  BY <1>2, <1>4 DEF Inv, Edited
<1>9. Gated'  BY <1>2, <1>3, <1>4 DEF Gated, Passed
<1>10. Streamed'  BY <1>1, <1>2, StreamedSame
<1>11. Looked'  BY <1>1, <1>2, LookedSame DEF Unrouted
<1> QED  BY <1>5, <1>6, <1>7, <1>8, <1>9, <1>10, <1>11 DEF Inv

LEMMA PassthroughInv == ASSUME Inv, Passthrough PROVE Inv'
<1>1. gateway = "serving" /\ req.pc = "ticket" /\ UNCHANGED core /\ TryProxyRaw /\ ~req.mutated
  BY DEF Passthrough, At
<1>2. req.canon.edits = {}  BY <1>1 DEF Inv, Edited
<1>3. IsRequest(req) /\ req.outcome = "none"  BY <1>1 DEF Inv, Shaped
<1>4. PICK sent : \/ req' = [req EXCEPT !.pc = "done", !.sent = @ \cup sent, !.outcome = "Proxied"]
                  \/ req' = [req EXCEPT !.pc = "complete", !.sent = @ \cup sent]
  BY DEF Passthrough
<1>5. /\ IsRequest(req') /\ Same({"pc", "sent", "outcome"})
      /\ \/ req'.pc \in {"complete", "calling"} /\ req'.outcome = "none"
         \/ req'.pc = "done" /\ req'.outcome = "Proxied"
  BY <1>3, <1>4 DEF IsRequest, Fields, Same
<1> QED  BY <1>1, <1>2, <1>5, SendInv

LEMMA CallInv == ASSUME Inv, Call PROVE Inv'
<1>1. gateway = "serving" /\ req.pc = "complete" /\ UNCHANGED core
      /\ req' = [req EXCEPT !.pc = "calling", !.sent = @ \cup {"canonical"}]
  BY DEF Call, At
<1>2. IsRequest(req) /\ req.outcome = "none"  BY <1>1 DEF Inv, Shaped
<1>3. /\ IsRequest(req') /\ Same({"pc", "sent", "outcome"})
      /\ req'.pc = "calling" /\ req'.outcome = "none" /\ req'.sent = req.sent \cup {"canonical"}
  BY <1>1, <1>2 DEF IsRequest, Fields, Same
<1>4. "raw" \in req'.sent => req.canon.edits = {}  BY <1>3 DEF Inv, Edited
<1> QED  BY <1>1, <1>3, <1>4, SendInv

LEMMA SkipPassthroughInv == ASSUME Inv, SkipPassthrough PROVE Inv'
<1>1. gateway = "serving" /\ req.pc = "ticket" /\ UNCHANGED core /\ Goto("complete")
  BY DEF SkipPassthrough, At
<1>2. KeyShown /\ RouteTaken /\ req.entry # {} /\ Cleared
  BY <1>1 DEF Inv, Gated, Passed, AfterAuth, AfterRoute, AfterEntry, AfterAdmit
<1> QED  BY <1>1, <1>2, GotoInv
         DEF Pcs, Unsent, Unrouted, AfterAuth, AfterRoute, AfterEntry, AfterAdmit

LEMMA CompleteInv == ASSUME Inv, Complete PROVE Inv'
<1>1. gateway = "serving" /\ req.pc = "calling" /\ UNCHANGED core  BY DEF Complete, At
<1>2. KeyShown /\ RouteTaken /\ req.entry # {} /\ Cleared
  BY <1>1 DEF Inv, Gated, Passed, AfterAuth, AfterRoute, AfterEntry, AfterAdmit
<1>3. CASE Goto("events")
  BY <1>1, <1>2, <1>3, GotoInv
         DEF Pcs, Unsent, Unrouted, AfterAuth, AfterRoute, AfterEntry, AfterAdmit
<1>4. CASE \E error \in ResilienceErrors : Answer(error)
  BY <1>1, <1>4, AnswerInv DEF ResilienceErrors, OtherOutcomes, Refusals
<1> QED  BY <1>3, <1>4 DEF Complete
-----------------------------------------------------------------------------
(* A step within the answer's events: the gates are behind, and what the   *)
(* H5 chain holds and has delivered is the step's own business.            *)
LEMMA EventInv ==
    ASSUME Inv, gateway = "serving", UNCHANGED core, req.pc \in {"events", "on_stream_event"},
           IsRequest(req'), Same({"pc", "at", "events", "buf", "delivered"}),
           req'.pc \in {"events", "on_stream_event"}, req'.at \in Nat \ {0}, Streamed'
    PROVE  Inv'
<1>1. cfg' = cfg /\ gateway' = gateway /\ providers' = providers  BY DEF core
<1>2. /\ req'.in = req.in /\ req'.canon = req.canon /\ req'.finished = req.finished
      /\ req'.mutated = req.mutated /\ req'.route = req.route /\ req'.entry = req.entry
      /\ req'.chain = req.chain /\ req'.admitted = req.admitted /\ req'.sent = req.sent
      /\ req'.h7 = req.h7 /\ req'.outcome = req.outcome
  BY DEF Same, Fields
<1>3. KeyShown /\ RouteTaken /\ req.entry # {} /\ Cleared
  BY DEF Inv, Gated, Passed, AfterAuth, AfterRoute, AfterEntry, AfterAdmit
<1>4. KeyShown' /\ RouteTaken' /\ Cleared' /\ (Missing' <=> Missing)
  BY <1>1, <1>2, <1>3, Fixed, FixedGates
<1>5. Booted'  BY <1>1 DEF Inv, Booted
<1>6. Shaped'
  BY <1>2 DEF Inv, Shaped, Pcs, AfterAuth, AfterRoute, AfterEntry, AfterAdmit
<1>7. Uncalled'
  BY <1>2 DEF Inv, Uncalled, Unsent, AfterAuth, AfterRoute, AfterEntry, AfterAdmit
<1>8. Edited'  BY <1>1, <1>2, EditedSame
<1>9. Gated'  BY <1>2, <1>3, <1>4 DEF Inv, Gated, Passed
<1>10. Looked'  BY <1>1, <1>2, LookedSame DEF Inv, Looked, Unrouted
<1> QED  BY <1>5, <1>6, <1>7, <1>8, <1>9, <1>10 DEF Inv

LEMMA H5PlanIsList == ASSUME Inv PROVE IsList(HookPlan["on_stream_event"])
<1>1. Schema(cfg)  BY ConfigsAssumption DEF Inv, Booted
<1> QED  BY <1>1, PlanIsList DEF HookPlan, Hooks

LEMMA NextEventInv == ASSUME Inv, NextEvent PROVE Inv'
<1> DEFINE plan == HookPlan["on_stream_event"]
<1>1. /\ gateway = "serving" /\ req.pc = "events" /\ UNCHANGED core
      /\ req' = [req EXCEPT !.pc = "on_stream_event", !.at = 1, !.events = @ + 1, !.buf = <<{}>>]
  BY DEF NextEvent, At
<1>2. IsRequest(req)  BY DEF Inv, Shaped
<1>3. /\ IsRequest(req') /\ Same({"pc", "at", "events", "buf"})
      /\ req'.pc = "on_stream_event" /\ req'.at = 1 /\ req'.buf = <<{}>>
  BY <1>1, <1>2 DEF IsRequest, Fields, Same
<1>4. req'.in = req.in /\ req'.delivered = req.delivered /\ cfg' = cfg
  BY <1>1, <1>3 DEF Same, Fields, core
<1>5. HookPlan' = HookPlan  BY <1>4, Fixed
<1>6. DOMAIN plan = 1..Len(plan) /\ Len(plan) \in Nat  BY H5PlanIsList, ListShape
<1>7. \A k \in DOMAIN plan : ~(k < 1)  BY <1>6
<1>8. IsList(<<{}>>)
  <2>1. <<{}>> \in Seq({{}})  OBVIOUS
  <2> QED  BY <2>1, ListOf
<1>9. Streamed'  BY <1>3, <1>4, <1>5, <1>7, <1>8 DEF Inv, Streamed, FailPluginsSeeAll
<1>10. Same({"pc", "at", "events", "buf", "delivered"})  BY <1>3 DEF Same
<1> QED  BY <1>1, <1>3, <1>9, <1>10, EventInv

(* One H5 plugin and one copy of an event: what it passes on has been      *)
(* processed by it, unless it may be skipped.                              *)
LEMMA ProcessedSeen ==
    ASSUME NEW e, NEW p, NEW ending \in StreamEndings, NEW on_error, NEW G,
           InvokeOutcome(AsEnding(ending), on_error) # "propagate",
           e \cup {p} \in G, on_error # "fail" => e \in G
    PROVE  Processed(e, p, ending, InvokeOutcome(AsEnding(ending), on_error)) \in Seq(G)
<1> DEFINE outcome == InvokeOutcome(AsEnding(ending), on_error)
<1>1. outcome # "success" => on_error # "fail"  BY DEF InvokeOutcome
<1>2. CASE outcome # "success"
  <2>1. Processed(e, p, ending, outcome) = <<e>>  BY <1>2 DEF Processed
  <2>2. e \in G  BY <1>1, <1>2
  <2> QED  BY <2>1, <2>2
<1>3. CASE outcome = "success"
  <2>1. Processed(e, p, ending, outcome) \in {<<e \cup {p}>>, << >>, <<e \cup {p}, e \cup {p}>>}
    BY <1>3 DEF Processed
  <2> DEFINE x == e \cup {p}
  <2>2. x \in G  OBVIOUS
  <2> HIDE DEF x
  <2>3. <<x>> \in Seq(G) /\ << >> \in Seq(G) /\ <<x, x>> \in Seq(G)  BY <2>2
  <2> QED  BY <2>1, <2>3 DEF x
<1> QED  BY <1>2, <1>3

LEMMA WalkEventInv == ASSUME Inv, WalkEvent PROVE Inv'
<1> DEFINE plan == HookPlan["on_stream_event"]
           p == plan[req.at]
           on_error == cfg.plugins[p].on_error
<1>1. /\ gateway = "serving" /\ req.pc = "on_stream_event" /\ UNCHANGED core
      /\ req.at <= Len(plan)
  BY DEF WalkEvent, At
<1>2. PICK endings \in [DOMAIN req.buf -> StreamEndings] :
          LET outcome(i) == InvokeOutcome(AsEnding(endings[i]), on_error)
          IN  IF \E i \in DOMAIN req.buf : outcome(i) = "propagate"
              THEN IF The.stream
                   THEN req' = [req EXCEPT !.pc = "events", !.buf = << >>]
                   ELSE Answer("ErrorEvent")
              ELSE req' = [req EXCEPT !.at = @ + 1,
                      !.buf = FlattenSeq([i \in DOMAIN req.buf |->
                                 Processed(req.buf[i], p, endings[i], outcome(i))])]
  BY DEF WalkEvent
<1>3. /\ IsRequest(req) /\ req.at \in Nat \ {0} /\ IsList(req.buf)
      /\ \A j \in DOMAIN req.buf : \A k \in DOMAIN plan : k < req.at => Seen(req.buf[j], k)
      /\ FailPluginsSeeAll
  BY <1>1 DEF Inv, Shaped, Streamed
<1>4. DOMAIN plan = 1..Len(plan) /\ Len(plan) \in Nat  BY H5PlanIsList, ListShape
<1>5. DOMAIN req.buf = 1..Len(req.buf) /\ Len(req.buf) \in Nat  BY <1>3, ListShape
<1> DEFINE outcome(i) == InvokeOutcome(AsEnding(endings[i]), on_error)
           ss == [i \in DOMAIN req.buf |-> Processed(req.buf[i], p, endings[i], outcome(i))]
<1>6. CASE \E i \in DOMAIN req.buf : outcome(i) = "propagate"
  <2>1. CASE Answer("ErrorEvent")
    BY <1>1, <2>1, AnswerInv DEF OtherOutcomes, Refusals
  <2>2. CASE req' = [req EXCEPT !.pc = "events", !.buf = << >>]
    <3>1. /\ IsRequest(req') /\ Same({"pc", "at", "events", "buf", "delivered"})
          /\ req'.pc = "events" /\ req'.at = req.at /\ req'.buf = << >>
          /\ req'.delivered = req.delivered /\ req'.in = req.in
      BY <1>3, <2>2 DEF IsRequest, Fields, Same
    <3>2. cfg' = cfg  BY <1>1 DEF core
    <3>3. HookPlan' = HookPlan  BY <3>1, <3>2, Fixed
    <3>4. << >> \in Seq({})  OBVIOUS
    <3>5. IsList(<< >>)  BY <3>4, ListOf
    <3>6. Streamed'
      BY <1>3, <3>1, <3>2, <3>3, <3>5 DEF Streamed, FailPluginsSeeAll
    <3> QED  BY <1>1, <1>3, <3>1, <3>6, EventInv
  <2> QED  BY <1>2, <1>6, <2>1, <2>2
<1>7. CASE ~\E i \in DOMAIN req.buf : outcome(i) = "propagate"
  <2>1. req' = [req EXCEPT !.at = @ + 1, !.buf = FlattenSeq(ss)]  BY <1>2, <1>7
  <2> DEFINE U == {req.buf[i] : i \in DOMAIN req.buf} \cup {req.buf[i] \cup {p} : i \in DOMAIN req.buf}
             G == {e \in U : \A k \in DOMAIN plan : k < req.at + 1 => Seen(e, k)}
  <2>2. \A k \in DOMAIN plan : k < req.at + 1 => k < req.at \/ k = req.at  BY <1>3, <1>4
  <2>3. ASSUME NEW i \in DOMAIN req.buf PROVE ss[i] \in Seq(G)
    <3>1. ss[i] = Processed(req.buf[i], p, endings[i], outcome(i))  OBVIOUS
    <3>2. outcome(i) # "propagate" /\ endings[i] \in StreamEndings  BY <1>7
    <3>3. req.buf[i] \cup {p} \in G
      <4>1. ASSUME NEW k \in DOMAIN plan, k < req.at + 1 PROVE Seen(req.buf[i] \cup {p}, k)
        <5>1. CASE k < req.at
          <6>1. Seen(req.buf[i], k)  BY <1>3, <5>1
          <6> QED  BY <6>1 DEF Seen
        <5>2. CASE k = req.at  BY <5>2 DEF Seen
        <5> QED  BY <2>2, <4>1, <5>1, <5>2
      <4> QED  BY <4>1
    <3>4. on_error # "fail" => req.buf[i] \in G
      <4> SUFFICES ASSUME on_error # "fail" PROVE req.buf[i] \in G  OBVIOUS
      <4>1. ASSUME NEW k \in DOMAIN plan, k < req.at + 1 PROVE Seen(req.buf[i], k)
        <5>1. CASE k < req.at  BY <1>3, <5>1
        <5>2. CASE k = req.at  BY <5>2 DEF Seen
        <5> QED  BY <2>2, <4>1, <5>1, <5>2
      <4> QED  BY <4>1
    <3> HIDE DEF G, ss, p, on_error
    <3> QED  BY <3>1, <3>2, <3>3, <3>4, ProcessedSeen
  <2>4. DOMAIN ss = 1..Len(req.buf)  BY <1>5
  <2>5. ss = [i \in 1..Len(req.buf) |-> ss[i]]  BY <1>5
  <2> HIDE DEF ss
  <2>6. ss \in Seq(Seq(G))
    <3> HIDE DEF G
    <3>1. ss \in [1..Len(req.buf) -> Seq(G)]  BY <1>5, <2>3, <2>5
    <3> QED  BY <1>5, <3>1, SeqDef
  <2>7. FlattenSeq(ss) \in Seq(G)
    <3> HIDE DEF G
    <3> QED  BY <2>6, FlattenType
  <2>8. IsList(FlattenSeq(ss)) /\ \A j \in DOMAIN FlattenSeq(ss) : FlattenSeq(ss)[j] \in G
    <3> HIDE DEF G
    <3> QED  BY <2>7, ListOf
  <2> DEFINE buf == FlattenSeq(ss)
  <2>9. \A j \in DOMAIN buf : \A k \in DOMAIN plan : k < req.at + 1 => Seen(buf[j], k)
    BY <2>8
  <2> HIDE DEF buf
  <2>10. /\ IsRequest(req') /\ Same({"pc", "at", "events", "buf", "delivered"})
         /\ req'.pc = req.pc /\ req'.at = req.at + 1 /\ req'.buf = buf
         /\ req'.delivered = req.delivered /\ req'.in = req.in
    BY <1>3, <2>1 DEF IsRequest, Fields, Same, buf
  <2>11. cfg' = cfg  BY <1>1 DEF core
  <2>12. HookPlan' = HookPlan /\ \A e, k : Seen(e, k)' <=> Seen(e, k)  BY <2>10, <2>11, Fixed
  <2>13. IsList(buf)  BY <2>8 DEF buf
  <2>14. \A j \in DOMAIN req'.buf : \A k \in DOMAIN plan :
            k < req'.at => Seen(req.buf[j], k)'
    BY <2>9, <2>10, <2>12
  <2>15. Streamed'
    BY <1>3, <2>10, <2>11, <2>12, <2>13, <2>14 DEF Streamed, FailPluginsSeeAll
  <2>16. req'.at \in Nat \ {0}  BY <1>3, <2>10
  <2> QED  BY <1>1, <2>10, <2>15, <2>16, EventInv
<1> QED  BY <1>6, <1>7

LEMMA DeliverInv == ASSUME Inv, Deliver PROVE Inv'
<1> DEFINE plan == HookPlan["on_stream_event"]
<1>1. /\ gateway = "serving" /\ req.pc = "on_stream_event" /\ UNCHANGED core
      /\ req.at > Len(plan)
      /\ req' = [req EXCEPT !.pc = "events", !.buf = << >>,
                   !.delivered = @ \cup {req.buf[i] : i \in DOMAIN req.buf}]
  BY DEF Deliver, At
<1>2. /\ IsRequest(req) /\ req.at \in Nat \ {0}
      /\ \A j \in DOMAIN req.buf : \A k \in DOMAIN plan : k < req.at => Seen(req.buf[j], k)
      /\ FailPluginsSeeAll
  BY <1>1 DEF Inv, Shaped, Streamed
<1>3. /\ IsRequest(req') /\ Same({"pc", "at", "events", "buf", "delivered"})
      /\ req'.pc = "events" /\ req'.at = req.at /\ req'.buf = << >> /\ req'.in = req.in
      /\ req'.delivered = req.delivered \cup {req.buf[i] : i \in DOMAIN req.buf}
  BY <1>1, <1>2 DEF IsRequest, Fields, Same
<1>4. cfg' = cfg  BY <1>1 DEF core
<1>5. HookPlan' = HookPlan  BY <1>3, <1>4, Fixed
<1>6. DOMAIN plan = 1..Len(plan) /\ Len(plan) \in Nat  BY H5PlanIsList, ListShape
<1>7. \A j \in DOMAIN req.buf : \A k \in DOMAIN plan : Seen(req.buf[j], k)
  BY <1>1, <1>2, <1>6
<1>8. ASSUME NEW e \in req'.delivered, NEW q \in Range(plan), cfg.plugins[q].on_error = "fail"
      PROVE  q \in e
  <2>1. PICK k \in DOMAIN plan : q = plan[k]  BY DEF Range
  <2>2. CASE e \in req.delivered  BY <1>2, <1>8, <2>2 DEF FailPluginsSeeAll
  <2>3. CASE \E j \in DOMAIN req.buf : e = req.buf[j]
    BY <1>7, <1>8, <2>1, <2>3 DEF Seen
  <2> QED  BY <1>3, <2>2, <2>3
<1>9. FailPluginsSeeAll'  BY <1>4, <1>5, <1>8 DEF FailPluginsSeeAll
<1>10. << >> \in Seq({})  OBVIOUS
<1>11. IsList(<< >>)  BY <1>10, ListOf
<1>12. Streamed'  BY <1>3, <1>9, <1>11 DEF Streamed
<1> QED  BY <1>1, <1>2, <1>3, <1>12, EventInv

LEMMA UpstreamErrorInv == ASSUME Inv, UpstreamError PROVE Inv'
<1>1. gateway = "serving" /\ req.pc = "events" /\ UNCHANGED core  BY DEF UpstreamError, At
<1>2. PICK o \in {"StreamDecode", "ErrorEvent"} : Answer(o)  BY DEF UpstreamError
<1> QED  BY <1>1, <1>2, AnswerInv DEF OtherOutcomes, Refusals

LEMMA EndOfStreamInv == ASSUME Inv, EndOfStream PROVE Inv'
<1>1. gateway = "serving" /\ req.pc = "events" /\ UNCHANGED core  BY DEF EndOfStream, At
<1>2. PICK o \in {"Streamed", "Unary", "FrontendEncode"} :
          req' = [req EXCEPT !.pc = "done", !.h7 = @ + 1, !.outcome = o]
  BY DEF EndOfStream
<1>3. IsRequest(req) /\ req.at \in Nat \ {0}  BY DEF Inv, Shaped
<1>4. /\ req'.pc = "done" /\ req'.outcome = o /\ req'.at = req.at
      /\ IsRequest(req') /\ Same({"pc", "at", "outcome", "h7"})
  BY <1>2, <1>3 DEF IsRequest, Fields, Same
<1> QED  BY <1>1, <1>3, <1>4, MoveInv
         DEF Pcs, Unsent, Unrouted, AfterAuth, AfterRoute, AfterEntry, AfterAdmit, OtherOutcomes,
             Refusals

LEMMA ClientLeavesInv == ASSUME Inv, ClientLeaves PROVE Inv'
<1>1. gateway = "serving" /\ UNCHANGED core  BY DEF ClientLeaves
<1>2. CASE req.pc \in AfterRoute /\ Answer("Cancelled")
  BY <1>1, <1>2, AnswerInv DEF OtherOutcomes, Refusals, AfterRoute, AfterEntry, AfterAdmit
<1>3. CASE /\ req.pc \in {"events", "on_stream_event"}
           /\ req' = [req EXCEPT !.pc = "done", !.outcome = "Cancelled",
                                 !.h7 = IF The.stream THEN @ + 1 ELSE @]
  <2>1. IsRequest(req) /\ req.at \in Nat \ {0}  BY DEF Inv, Shaped
  <2>2. /\ req'.pc = "done" /\ req'.outcome = "Cancelled" /\ req'.at = req.at
        /\ IsRequest(req') /\ Same({"pc", "at", "outcome", "h7"})
    BY <1>3, <2>1 DEF IsRequest, Fields, Same
  <2> QED  BY <1>1, <1>3, <2>1, <2>2, MoveInv
           DEF Pcs, Unsent, Unrouted, AfterAuth, AfterRoute, AfterEntry, AfterAdmit, OtherOutcomes,
               Refusals
<1> QED  BY <1>2, <1>3 DEF ClientLeaves, AfterRoute, AfterEntry, AfterAdmit

LEMMA StillInv == ASSUME Inv, UNCHANGED vars PROVE Inv'
<1>1. cfg' = cfg /\ gateway' = gateway /\ providers' = providers /\ index' = index /\ req' = req
  BY DEF vars
<1>2. The' = The /\ (TryProxyRaw' <=> TryProxyRaw) /\ HookPlan' = HookPlan
      /\ (KeyShown' <=> KeyShown) /\ (RouteTaken' <=> RouteTaken) /\ (Cleared' <=> Cleared)
      /\ (Missing' <=> Missing)
  BY <1>1, Fixed, FixedGates
<1>3. Booted' /\ Shaped' /\ Uncalled'  BY <1>1 DEF Inv, Booted, Shaped, Uncalled
<1>4. Edited'  BY <1>1, <1>2 DEF Inv, Edited
<1>5. Gated'  BY <1>1, <1>2 DEF Inv, Gated, Passed
<1>6. Streamed'
  <2>1. \A e, k : Seen(e, k)' <=> Seen(e, k)  BY <1>1, Fixed
  <2> QED  BY <1>1, <1>2, <2>1 DEF Inv, Streamed, FailPluginsSeeAll
<1>7. Looked'  BY <1>1, LookedSame DEF Inv, Looked
<1> QED  BY <1>3, <1>4, <1>5, <1>6, <1>7 DEF Inv

LEMMA NextInv == ASSUME Inv, [Next]_vars PROVE Inv'
<1>1. CASE \E hook \in {"on_decoded_request", "on_resolved"} : WalkHook(hook) \/ EndHook(hook)
  BY <1>1, WalkHookInv, EndHookInv
<1>2. CASE Quiescent  BY <1>2, StillInv DEF Quiescent
<1>3. CASE UNCHANGED vars  BY <1>3, StillInv
<1> QED
  BY <1>1, <1>2, <1>3, RefuseInv, BootInv, ArriveInv, OpenInv, CheckAuthInv, ResolveRouteInv,
     DecodeInv, FindEntryInv, AdmitInv, PassthroughInv, SkipPassthroughInv, CallInv, CompleteInv,
     NextEventInv, WalkEventInv, DeliverInv, UpstreamErrorInv, EndOfStreamInv, ClientLeavesInv
  DEF Next

LEMMA Invariance == Spec => []Inv
<1>1. Init => Inv  BY InitInv
<1>2. Inv /\ [Next]_vars => Inv'  BY NextInv
<1> QED  BY <1>1, <1>2, PTL DEF Spec
-----------------------------------------------------------------------------
(* Whatever form in which a request goes upstream, raw bytes or canonical, *)
(* it is the client's and carries finished edits only; the raw bytes go    *)
(* only if no plugin has changed the request (dispatch, H2 and H3).        *)
THEOREM OnlyFinishedEditsSent == Spec => []EditsHonoured
<1>1. Inv => EditsHonoured
  <2> SUFFICES ASSUME Inv PROVE EditsHonoured  OBVIOUS
  <2>1. req.canon.own = "client"  BY DEF Inv, Shaped
  <2> QED  BY <2>1 DEF Inv, Edited, EditsHonoured
<1> QED  BY <1>1, Invariance, PTL

(* A 4xx of the gateway's own (IntoResponse for HandlerError) is given     *)
(* before any upstream has been asked, whichever gate it comes from.       *)
THEOREM RefusedBeforeCalled == Spec => []RefusedUncalled
<1>1. \A o \in OtherOutcomes : Status(o) \notin 400..499
  <2>1. \A o \in OtherOutcomes : Status(o) \in {503, 502, 500, 200, 0}
    BY DEF OtherOutcomes, Status
  <2> QED  BY <2>1
<1>2. Inv => RefusedUncalled  BY <1>1 DEF Inv, Shaped, Uncalled, RefusedUncalled
<1> QED  BY <1>2, Invariance, PTL

(* Every event the client gets has been processed by every H5 plugin of    *)
(* its route whose on_error is `fail` (wrap_stream), for plugin lists and  *)
(* streams of any length and plugins that drop, split or fail at will.     *)
THEOREM FailPluginsSeeEveryEvent == Spec => []FailPluginsSeeAll
<1>1. Inv => FailPluginsSeeAll  BY DEF Inv, Streamed
<1> QED  BY <1>1, Invariance, PTL

(* Every configuration that validation accepts serves what its catalogue   *)
(* lists: the router does not panic over it (StaticRouter::from_config),   *)
(* both lookups find each listed alias, and admission misses a provider    *)
(* only if it could not be built or is the alias "copilot".                *)
THEOREM AcceptedServes == Spec => []AcceptedConfigServes
<1>1. Inv => AcceptedConfigServes
  <2> SUFFICES ASSUME Inv PROVE AcceptedConfigServes  OBVIOUS
  <2>1. Schema(cfg) /\ gateway # "panicked"  BY ConfigsAssumption DEF Inv, Booted
  <2>2. ASSUME NEW listed \in list_catalog(cfg, index), NEW f \in listed.frontends
        PROVE  /\ Resolve(cfg, index, f, listed.id) # {}
               /\ find_route_entry(cfg, f, listed.id) # {}
    BY <2>1, CatalogueServed
  <2>3. req.outcome = "UnknownProvider" => Missing  BY DEF Inv, Gated
  <2> QED  BY <2>1, <2>2, <2>3 DEF AcceptedConfigServes, Missing
<1> QED  BY <1>1, Invariance, PTL
-----------------------------------------------------------------------------
(* What a step that ends a request may do to the count of H7 runs.         *)
H7Right ==
    req.pc # "done" /\ req'.pc = "done" =>
        req'.h7 = IF /\ req.pc \in {"events", "on_stream_event"}
                     /\ The.stream \/ req'.outcome \in {"Unary", "FrontendEncode"}
                  THEN 1 ELSE 0

LEMMA AnswerH7 ==
    ASSUME Inv, NEW o, Answer(o), o \notin {"Unary", "FrontendEncode"},
           req.pc \in {"events", "on_stream_event"} => ~The.stream
    PROVE  H7Right
<1>1. IsRequest(req) /\ (req.pc # "done" => req.h7 = 0)  BY DEF Inv, Shaped
<1>2. req'.outcome = o /\ req'.h7 = req.h7  BY <1>1 DEF Answer, IsRequest, Fields
<1> QED  BY <1>1, <1>2 DEF H7Right

LEMMA GotoH7 == ASSUME Inv, NEW to, Goto(to), to # "done" PROVE H7Right
<1>1. IsRequest(req)  BY DEF Inv, Shaped
<1>2. req'.pc = to  BY <1>1 DEF Goto, IsRequest, Fields
<1> QED  BY <1>2 DEF H7Right

(* The steps before the answer: none of them runs H7.                      *)
LEMMA EarlyH7 ==
    ASSUME Inv, \/ Refuse \/ Boot \/ Arrive \/ Open \/ CheckAuth \/ ResolveRoute \/ Decode
                \/ FindEntry \/ Admit \/ SkipPassthrough \/ Call \/ Complete
                \/ \E hook \in {"on_decoded_request", "on_resolved"} : EndHook(hook)
    PROVE  H7Right
<1>1. IsRequest(req)  BY DEF Inv, Shaped
<1>2. CASE Refuse \/ Boot  BY <1>2 DEF Refuse, Boot, H7Right
<1>3. CASE Arrive
  <2>1. PICK r : req' = [req EXCEPT !.in = {r}, !.pc = "open"]  BY <1>3 DEF Arrive
  <2>2. req'.pc = "open"  BY <1>1, <2>1 DEF IsRequest, Fields
  <2> QED  BY <2>2 DEF H7Right
<1>4. CASE Open
  <2>1. req.pc = "open"  BY <1>4 DEF Open, At
  <2>2. Goto("auth") \/ \E o \in {"InvalidBody", "Unsupported"} : Answer(o)
    BY <1>4 DEF Open, DecodeFailures
  <2> QED  BY <2>1, <2>2, AnswerH7, GotoH7
<1>5. CASE CheckAuth
  <2>1. req.pc = "auth" /\ (Goto("route") \/ Answer("Unauthorized"))  BY <1>5 DEF CheckAuth, At
  <2> QED  BY <2>1, AnswerH7, GotoH7
<1>6. CASE ResolveRoute
  <2>1. /\ req.pc = "route"
        /\ \/ Answer("NoRoute")
           \/ \E r : req' = [req EXCEPT !.pc = "decode", !.route = {r.at}, !.chain = r.chain]
    BY <1>6 DEF ResolveRoute, At
  <2>2. CASE Answer("NoRoute")  BY <2>1, <2>2, AnswerH7
  <2>3. CASE \E r : req' = [req EXCEPT !.pc = "decode", !.route = {r.at}, !.chain = r.chain]
    <3>1. req'.pc = "decode"  BY <1>1, <2>3 DEF IsRequest, Fields
    <3> QED  BY <3>1 DEF H7Right
  <2> QED  BY <2>1, <2>2, <2>3
<1>7. CASE Decode
  <2>1. req.pc = "decode"  BY <1>7 DEF Decode, At
  <2>2. Goto("on_decoded_request") \/ \E o \in {"InvalidBody", "Unsupported"} : Answer(o)
    BY <1>7 DEF Decode, DecodeFailures
  <2> QED  BY <2>1, <2>2, AnswerH7, GotoH7
<1>8. CASE FindEntry
  <2>1. /\ req.pc = "entry"
        /\ Answer("NoRoute") \/ \E e : req' = [req EXCEPT !.pc = "admit", !.entry = e]
    BY <1>8 DEF FindEntry, At
  <2>2. CASE Answer("NoRoute")  BY <2>1, <2>2, AnswerH7
  <2>3. CASE \E e : req' = [req EXCEPT !.pc = "admit", !.entry = e]
    <3>1. req'.pc = "admit"  BY <1>1, <2>3 DEF IsRequest, Fields
    <3> QED  BY <3>1 DEF H7Right
  <2> QED  BY <2>1, <2>2, <2>3
<1>9. CASE Admit
  <2>1. req.pc = "admit"  BY <1>9 DEF Admit, At
  <2>2. PICK chain, answer :
          IF answer # "ok" THEN Answer(answer)
          ELSE req' = [req EXCEPT !.pc = "ticket", !.admitted = TRUE, !.chain = chain]
    BY <1>9 DEF Admit
  <2>3. CASE answer # "ok"
    <3>1. req'.h7 = req.h7  BY <1>1, <2>2, <2>3 DEF Answer, IsRequest, Fields
    <3> QED  BY <2>1, <3>1 DEF Inv, Shaped, H7Right
  <2>4. CASE answer = "ok"
    <3>1. req'.pc = "ticket"  BY <1>1, <2>2, <2>4 DEF IsRequest, Fields
    <3> QED  BY <3>1 DEF H7Right
  <2> QED  BY <2>3, <2>4
<1>10. CASE SkipPassthrough  BY <1>10, GotoH7 DEF SkipPassthrough
<1>11. CASE Call
  <2>1. req'.pc = "calling"  BY <1>1, <1>11 DEF Call, IsRequest, Fields
  <2> QED  BY <2>1 DEF H7Right
<1>12. CASE Complete
  <2>1. req.pc = "calling" /\ (Goto("events") \/ \E error \in ResilienceErrors : Answer(error))
    BY <1>12 DEF Complete, At
  <2> QED  BY <2>1, AnswerH7, GotoH7 DEF ResilienceErrors
<1>13. CASE \E hook \in {"on_decoded_request", "on_resolved"} : EndHook(hook)
  <2>1. PICK hook \in {"on_decoded_request", "on_resolved"} : Goto(After[hook])
    BY <1>13 DEF EndHook
  <2>2. After[hook] # "done"  BY DEF After
  <2> QED  BY <2>1, <2>2, GotoH7
<1> QED
  BY <1>2, <1>3, <1>4, <1>5, <1>6, <1>7, <1>8, <1>9, <1>10, <1>11, <1>12, <1>13

LEMMA NextH7 == ASSUME Inv, Next PROVE H7Right
<1>1. IsRequest(req) /\ (req.pc # "done" => req.h7 = 0)  BY DEF Inv, Shaped
<1>2. CASE \E hook \in {"on_decoded_request", "on_resolved"} : WalkHook(hook)
  <2>1. PICK hook \in {"on_decoded_request", "on_resolved"} : WalkHook(hook)  BY <1>2
  <2>2. req.pc = hook  BY <2>1 DEF WalkHook, At
  <2> DEFINE q == HookPlan[hook][req.at]
  <2>3. PICK ending \in Endings, copy \in Copies(req.canon, q) :
            LET w == Walked(req.canon, copy, ending, cfg.plugins[q].on_error)
            IN  IF w.outcome = "propagate" THEN Answer(PluginFailure(ending))
                ELSE req' = [req EXCEPT !.at = @ + 1, !.canon = w.req,
                               !.mutated = @ \/ Mutates(req.canon, w.req),
                               !.finished = IF w.outcome = "success" THEN @ \cup {q} ELSE @]
    BY <2>1 DEF WalkHook
  <2> DEFINE w == Walked(req.canon, copy, ending, cfg.plugins[q].on_error)
  <2>4. CASE w.outcome = "propagate"
    <3>1. Answer(PluginFailure(ending))  BY <2>3, <2>4
    <3> QED  BY <2>2, <3>1, AnswerH7 DEF PluginFailure
  <2>5. CASE w.outcome # "propagate"
    <3>1. req' = [req EXCEPT !.at = @ + 1, !.canon = w.req,
                    !.mutated = @ \/ Mutates(req.canon, w.req),
                    !.finished = IF w.outcome = "success" THEN @ \cup {q} ELSE @]
      BY <2>3, <2>5
    <3> HIDE DEF w, q
    <3>2. req'.pc = req.pc  BY <1>1, <3>1 DEF IsRequest, Fields
    <3> QED  BY <3>2 DEF H7Right
  <2> QED  BY <2>4, <2>5
<1>3. CASE Passthrough
  <2>1. req.pc = "ticket"  BY <1>3 DEF Passthrough, At
  <2>2. PICK sent : \/ req' = [req EXCEPT !.pc = "done", !.sent = @ \cup sent, !.outcome = "Proxied"]
                    \/ req' = [req EXCEPT !.pc = "complete", !.sent = @ \cup sent]
    BY <1>3 DEF Passthrough
  <2>3. req'.h7 = req.h7  BY <1>1, <2>2 DEF IsRequest, Fields
  <2> QED  BY <1>1, <2>1, <2>3 DEF H7Right
<1>4. CASE NextEvent
  <2>1. req'.pc = "on_stream_event"  BY <1>1, <1>4 DEF NextEvent, IsRequest, Fields
  <2> QED  BY <2>1 DEF H7Right
<1>5. CASE WalkEvent
  <2>1. \/ ~The.stream /\ Answer("ErrorEvent")
        \/ req' = [req EXCEPT !.pc = "events", !.buf = << >>]
        \/ \E buf : req' = [req EXCEPT !.at = @ + 1, !.buf = buf]
    BY <1>5 DEF WalkEvent
  <2>2. CASE ~The.stream /\ Answer("ErrorEvent")  BY <2>2, AnswerH7
  <2>3. CASE \/ req' = [req EXCEPT !.pc = "events", !.buf = << >>]
             \/ \E buf : req' = [req EXCEPT !.at = @ + 1, !.buf = buf]
    <3>1. req'.pc \in {"events", req.pc}  BY <1>1, <2>3 DEF IsRequest, Fields
    <3> QED  BY <3>1 DEF H7Right
  <2> QED  BY <2>1, <2>2, <2>3
<1>6. CASE Deliver
  <2>1. req'.pc = "events"  BY <1>1, <1>6 DEF Deliver, IsRequest, Fields
  <2> QED  BY <2>1 DEF H7Right
<1>7. CASE UpstreamError
  <2>1. ~The.stream /\ \E o \in {"StreamDecode", "ErrorEvent"} : Answer(o)
    BY <1>7 DEF UpstreamError
  <2> QED  BY <2>1, AnswerH7
<1>8. CASE EndOfStream
  <2>1. PICK o : /\ req' = [req EXCEPT !.pc = "done", !.h7 = @ + 1, !.outcome = o]
                 /\ o \in IF The.stream THEN {"Streamed"} ELSE {"Unary", "FrontendEncode"}
    BY <1>8 DEF EndOfStream
  <2>2. req.pc = "events"  BY <1>8 DEF EndOfStream, At
  <2>3. req'.h7 = req.h7 + 1 /\ req'.outcome = o  BY <1>1, <2>1 DEF IsRequest, Fields
  <2> QED  BY <1>1, <2>1, <2>2, <2>3 DEF H7Right
<1>9. CASE ClientLeaves
  <2>1. CASE /\ req.pc \in {"on_decoded_request", "on_resolved", "ticket", "complete", "calling"}
             /\ Answer("Cancelled")
    BY <2>1, AnswerH7
  <2>2. CASE /\ req.pc \in {"events", "on_stream_event"}
             /\ req' = [req EXCEPT !.pc = "done", !.outcome = "Cancelled",
                                   !.h7 = IF The.stream THEN @ + 1 ELSE @]
    <3>1. /\ req'.h7 = (IF The.stream THEN req.h7 + 1 ELSE req.h7)
          /\ req'.outcome = "Cancelled"
      BY <1>1, <2>2 DEF IsRequest, Fields
    <3> QED  BY <1>1, <2>2, <3>1 DEF H7Right
  <2> QED  BY <1>9, <2>1, <2>2 DEF ClientLeaves
<1>10. CASE Quiescent  BY <1>10 DEF Quiescent, vars, H7Right
<1> QED
  BY <1>2, <1>3, <1>4, <1>5, <1>6, <1>7, <1>8, <1>9, <1>10, EarlyH7 DEF Next

(* The H7 hook runs exactly once for an answer that was being served, at   *)
(* its end or when the dropped body's guard runs, and never for a request  *)
(* that was refused, failed, was proxied or was given up before.           *)
THEOREM H7RunsOnce == Spec => H7Once
<1>1. Inv /\ [Next]_vars => [H7Right]_vars
  <2> SUFFICES ASSUME Inv, [Next]_vars PROVE [H7Right]_vars  OBVIOUS
  <2>1. CASE Next  BY <2>1, NextH7
  <2>2. CASE UNCHANGED vars  BY <2>2
  <2> QED  BY <2>1, <2>2
<1>2. Spec => [][H7Right]_vars  BY <1>1, Invariance, PTL DEF Spec
<1> QED  BY <1>2, PTL DEF H7Once, H7Right
-----------------------------------------------------------------------------
LEMMA OneMatch ==
    ASSUME NEW c, Problems(c) = {}, Plain(c), NEW f, NEW pattern
    PROVE  \A i, j \in Matching(c, f, pattern) : i = j
<1>1. Broken("DuplicateAlias", \E i, j \in DOMAIN c.routes :
                    /\ i # j
                    /\ c.routes[i].frontend = c.routes[j].frontend
                    /\ c.routes[i].model = c.routes[j].model) = {}
  BY DEF Problems, RouteTableProblems
<1>2. ~\E i, j \in DOMAIN c.routes : /\ i # j
                                     /\ c.routes[i].frontend = c.routes[j].frontend
                                     /\ c.routes[i].model = c.routes[j].model
  BY <1>1 DEF Broken
<1> QED  BY <1>2 DEF Matching, Plain

LEMMA FirstIsLatest ==
    ASSUME NEW n \in Nat, NEW S \in SUBSET (1..n), \A i, j \in S : i = j
    PROVE  Latest(S) = S /\ FirstOf(S) = S
<1>1. \A i, j \in S : i <= j
  <2> SUFFICES ASSUME NEW i \in S, NEW j \in S PROVE i <= j  OBVIOUS
  <2>1. i = j /\ i \in Nat  OBVIOUS
  <2> QED  BY <2>1
<1> QED  BY <1>1 DEF Latest, FirstOf

(* The router (static_router.rs) and find_route_entry (pipeline.rs) agree. *)
LEMMA LookupsAgree ==
    ASSUME NEW c, Schema(c), Problems(c) = {}, Plain(c), NEW f, NEW m
    PROVE  /\ find_route_entry(c, f, m) = {r.at : r \in resolve_route(c, f, m)}
           /\ \A i, j \in find_route_entry(c, f, m) : i = j
<1> DEFINE specific == Matching(c, f, Exact(m))
           any == Matching(c, f, CatchAll)
<1>1. /\ specific \in SUBSET (1..Len(c.routes)) /\ any \in SUBSET (1..Len(c.routes))
      /\ Len(c.routes) \in Nat
  BY Positions
<1>2. (\A i, j \in specific : i = j) /\ (\A i, j \in any : i = j)  BY OneMatch
<1>3. PrefixRoute(c, f, m) = {}
  <2>1. \A name : Matching(c, f, PrefixOf(name)) = {}  BY DEF Matching, PrefixOf, Plain
  <2> QED  BY <2>1 DEF PrefixRoute
<1>4. ExactRoute(c, f, m) = Latest(specific) /\ WildcardRoute(c, f) = Latest(any)
  BY DEF ExactRoute, WildcardRoute
<1>5. find_route_entry(c, f, m) = IF specific # {} THEN FirstOf(specific) ELSE FirstOf(any)
  BY DEF find_route_entry
<1> HIDE DEF specific, any
<1>6. /\ Latest(specific) = specific /\ FirstOf(specific) = specific
      /\ Latest(any) = any /\ FirstOf(any) = any
  BY <1>1, <1>2, FirstIsLatest
<1>7. resolve_route(c, f, m) =
          IF specific # {} THEN {[at |-> i, chain |-> Targets(c.routes[i])] : i \in specific}
          ELSE {[at |-> i, chain |-> WildcardChain(c.routes[i], m)] : i \in any}
  BY <1>3, <1>4, <1>6 DEF resolve_route
<1>8. {r.at : r \in resolve_route(c, f, m)} = IF specific # {} THEN specific ELSE any
  <2>1. {r.at : r \in {[at |-> i, chain |-> Targets(c.routes[i])] : i \in specific}} = specific
    <3>1. \A i \in specific : [at |-> i, chain |-> Targets(c.routes[i])].at = i  OBVIOUS
    <3> QED  BY <3>1, Zenon
  <2>2. {r.at : r \in {[at |-> i, chain |-> WildcardChain(c.routes[i], m)] : i \in any}} = any
    <3>1. \A i \in any : [at |-> i, chain |-> WildcardChain(c.routes[i], m)].at = i  OBVIOUS
    <3> QED  BY <3>1, Zenon
  <2>3. CASE specific # {}  BY <1>7, <2>1, <2>3
  <2>4. CASE specific = {}  BY <1>7, <2>2, <2>4
  <2> QED  BY <2>3, <2>4
<1> QED  BY <1>2, <1>5, <1>6, <1>8

LEMMA RouteIsEntry ==
    ASSUME Inv, Plain(cfg)
    PROVE  /\ RouteEntryFound
           /\ \A i, j \in req.entry : i = j
<1>1. CASE gateway # "serving"
  <2>1. req = NoRequest  BY <1>1 DEF Inv, Booted
  <2> QED  BY <2>1 DEF NoRequest, RouteEntryFound
<1>2. CASE gateway = "serving"
  <2>1. Schema(cfg) /\ Problems(cfg) = {}  BY <1>2, ConfigsAssumption DEF Inv, Booted
  <2>2. /\ EntryFor = {r.at : r \in resolve_route(cfg, The.frontend, The.model)}
        /\ \A i, j \in EntryFor : i = j
    BY <2>1, LookupsAgree DEF EntryFor
  <2>3. req.route \subseteq EntryFor  BY <2>2 DEF Inv, Looked
  <2>4. req.entry # {} => req.entry = EntryFor /\ req.route # {}  BY DEF Inv, Looked
  <2>5. req.outcome = "NoRoute" => req.route = {} \/ EntryFor = {}  BY DEF Inv, Looked
  <2> QED  BY <2>2, <2>3, <2>4, <2>5 DEF RouteEntryFound
<1> QED  BY <1>1, <1>2

(* In a plain table the entry whose policies apply is the one the request  *)
(* was routed by, and a routed request is not turned away for want of one; *)
(* with a prefix pattern (the RouteEntry run) neither need be so.          *)
THEOREM PlainTableEntry == Spec => [](Plain(cfg) => RouteEntryFound)
<1>1. Inv => (Plain(cfg) => RouteEntryFound)  BY RouteIsEntry
<1> QED  BY <1>1, Invariance, PTL

(* What admission's estimate says of an unedited request is its bill.      *)
LEMMA EstimateIsBill ==
    ASSUME Inv, req.pc # "idle", req.canon.edits = {}, NEW size \in Sizes, NEW cost, NEW c \in cost
    PROVE  Bill(c, The.size) \in estimate_request_cost(size, cost, The.frontend)
<1>1. PICK r \in Inbound : req.in = {r}  BY DEF Inv, Shaped
<1>2. The = r  BY <1>1 DEF The
<1>3. /\ The.size \in [text : Nat, images : Nat, max_tokens : SUBSET Nat]
      /\ \A m, n \in The.size.max_tokens : m = n
  BY <1>2, InboundAssumption
<1> DEFINE S == The.size.max_tokens
<1>4. size = The.size
  <2>1. size = [The.size EXCEPT !.text = The.size.text]  BY DEF Sizes
  <2> QED  BY <1>3, <2>1
<1>5. output_token_cap(The.size) = IF S = {} THEN 4096 ELSE Max(S)
  <2>1. CASE S = {}  BY <2>1 DEF output_token_cap, DEFAULT_MAX_OUTPUT_TOKENS
  <2>2. CASE S # {}
    <3>1. PICK n \in S : n \in Nat  BY <1>3, <2>2
    <3>2. \A m \in S : m = n  BY <1>3, <3>1
    <3>3. (CHOOSE m \in S : TRUE) = n  BY <3>1, <3>2
    <3>4. \E x \in S : \A y \in S : x >= y
      <4>1. n >= n  BY <3>1
      <4> QED  BY <3>1, <3>2, <4>1
    <3>5. Max(S) \in S
      <4> HIDE DEF S
      <4> QED  BY <3>4 DEF Max
    <3> QED  BY <2>2, <3>2, <3>3, <3>5 DEF output_token_cap
  <2> QED  BY <2>1, <2>2
<1> DEFINE bill == (The.size.text + The.size.images * select_image_estimator[The.frontend]) * c.input
                   + output_token_cap(The.size) * c.output
<1>6. Bill(c, The.size) = bill  BY <1>5 DEF Bill
<1>7. bill \in estimate_request_cost(The.size, cost, The.frontend)
  BY Zenon DEF estimate_request_cost, estimate_text_tokens, estimate_image_tokens
<1> QED  BY <1>4, <1>6, <1>7

(* What goes upstream has shown a key where one is required (check_auth),  *)
(* was routed, found an entry and was admitted, and goes only to built     *)
(* providers of its route, sighted if it has an image, within the tier and *)
(* cap of the entry that the second lookup found: for every configuration, *)
(* and with the route's own tier and cap wherever the lookups agree.       *)
THEOREM CallsGated == Spec => []CallNeedsGates
<1>1. ASSUME Inv, req.sent # {} PROVE CallNeedsGates
  <2>1. KeyShown /\ RouteTaken /\ req.entry # {} /\ Cleared  BY <1>1 DEF Inv, Gated, Passed
  <2>2. PICK i \in req.route : i \in DOMAIN cfg.routes /\ OfRoute(req.chain, cfg.routes[i])
    BY <2>1 DEF RouteTaken
  <2>3. PICK at \in req.entry, size \in Sizes : \A k \in DOMAIN req.chain :
            Survives(cfg, cfg.routes[at], req.chain[k], size, The.frontend)
    BY <2>1 DEF Cleared
  <2>4. req.admitted /\ req.chain # << >> /\ providers \subseteq DOMAIN cfg.upstreams
    BY <1>1, <2>1 DEF Cleared, Inv, Booted
  <2>5. req.pc # "idle"  BY <1>1 DEF Inv, Booted, NoRequest
  <2>6. ASSUME NEW t \in Range(req.chain)
        PROVE  /\ t.provider \in Referenced(cfg.routes[i]) \cap providers
               /\ The.size.images > 0 => Sighted(t.provider)
               /\ \A tier \in cfg.routes[at].min_tier :
                     TierRank[cfg.upstreams[t.provider].tier] >= TierRank[tier]
               /\ req.canon.edits = {} =>
                     \A cap \in cfg.routes[at].max_cost_usd, c \in cfg.upstreams[t.provider].cost :
                        Bill(c, The.size) <= cap
    <3>1. PICK k \in DOMAIN req.chain : t = req.chain[k]  BY DEF Range
    <3>2. t.provider \in Referenced(cfg.routes[i])  BY <2>2, <3>1 DEF OfRoute
    <3>3. check_capability(t) = "ok"  BY <2>1, <3>1 DEF Cleared
    <3>4. t.provider \in providers /\ (The.size.images > 0 => Sighted(t.provider))
      BY <3>3 DEF check_capability
    <3>5. Survives(cfg, cfg.routes[at], t, size, The.frontend)  BY <2>3, <3>1
    <3>6. t.provider \in DOMAIN cfg.upstreams  BY <2>4, <3>4
    <3>7. /\ \A tier \in cfg.routes[at].min_tier :
                TierRank[cfg.upstreams[t.provider].tier] >= TierRank[tier]
          /\ \A cap \in cfg.routes[at].max_cost_usd :
                \A estimate \in estimate_request_cost(size, cfg.upstreams[t.provider].cost,
                                                      The.frontend) :
                   estimate <= cap
      BY <3>5, <3>6 DEF Survives
    <3>8. ASSUME req.canon.edits = {}, NEW cap \in cfg.routes[at].max_cost_usd,
                 NEW c \in cfg.upstreams[t.provider].cost
          PROVE  Bill(c, The.size) <= cap
      BY <1>1, <2>5, <3>7, <3>8, EstimateIsBill
    <3> QED  BY <3>2, <3>4, <3>7, <3>8
  <2>7. ASSUME Plain(cfg) PROVE at = i  BY <1>1, <2>7, RouteIsEntry DEF RouteEntryFound
  <2>8. cfg.auth.enabled /\ cfg.auth.required => \E k \in cfg.auth.keys : k.of = The.key
    BY <2>1 DEF KeyShown
  <2> QED  BY <2>4, <2>6, <2>7, <2>8 DEF CallNeedsGates
<1>2. Inv => CallNeedsGates  BY <1>1 DEF CallNeedsGates
<1> QED  BY <1>2, Invariance, PTL
=============================================================================
