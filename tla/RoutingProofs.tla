---------------------------- MODULE RoutingProofs ---------------------------
(***************************************************************************)
(* Proofs about Routing, for every set of files, defaults and tables that  *)
(* startup may meet (Config): a table that is accepted sends every event   *)
(* to a route that was built, and the operation decides before the         *)
(* collection does, wherever its rules stand.                              *)
(***************************************************************************)
EXTENDS Config, WellFoundedInduction, TLAPS

-----------------------------------------------------------------------------
(***************************************************************************)
(* The inductive invariant.                                                *)
(***************************************************************************)

\* The file is one of those the assumption speaks of.
KnownFile == \E i \in DOMAIN Files : file \in Files[i]

\* The router is the table, which New accepted, split.
RouterCurrent ==
    phase \in {"split", "serving"} =>
        router = Split(table.rules, table.fallback) /\ ~Rejected

\* The routes built are those the table can produce.
AllBuilt == phase = "serving" => routes = Routes(router)

\* An event was offered to the route of its key, while serving.
EventRouted ==
    event # NoEvent =>
        phase = "serving" /\ event.route = Route(router, event.key) /\ event.route \in routes

RoutingInv == TypeOK /\ KnownFile /\ RouterCurrent /\ AllBuilt /\ EventRouted

-----------------------------------------------------------------------------
(***************************************************************************)
(* First matches.                                                          *)
(***************************************************************************)

\* Min is in the set and below its members.
LEMMA LeastPosition ==
    ASSUME NEW S \in SUBSET Nat, S # {}
    PROVE  Min(S) \in S /\ \A y \in S : Min(S) <= y
<1>1. \E x \in S : \A y \in S : ~(<<y, x>> \in OpToRel(<, Nat))
  BY WFMin, NatLessThanWellFounded, ZenonT(30)
<1>2. PICK x \in S : \A y \in S : ~(y < x)
  <2>1. \A y, z \in S : y \in Nat /\ z \in Nat
    OBVIOUS
  <2> QED
    BY <1>1, <2>1, Zenon DEF OpToRel
<1>3. \E z \in S : \A y \in S : z <= y
  BY <1>2
<1> QED
  BY <1>3 DEF Min

\* What Route says is something Routes says it may say.
LEMMA RouteAmongRoutes ==
    ASSUME NEW r, NEW key, r.opRules \subseteq Nat, r.collRules \subseteq Nat
    PROVE  Route(r, key) \in Routes(r)
<1> DEFINE op   == Matching(r, r.opRules, key)
           coll == Matching(r, r.collRules, key)
<1>1. /\ op \subseteq r.opRules /\ coll \subseteq r.collRules
      /\ op \in SUBSET Nat /\ coll \in SUBSET Nat
  BY DEF Matching
<1>2. CASE op # {}
  <2>1. Min(op) \in r.opRules
    BY <1>1, <1>2, LeastPosition
  <2>2. Route(r, key) = r.rules[Min(op)].route
    BY <1>2 DEF Route
  <2> QED
    BY <2>1, <2>2 DEF Routes
<1>3. CASE op = {} /\ coll # {}
  <2>1. Min(coll) \in r.collRules
    BY <1>1, <1>3, LeastPosition
  <2>2. Route(r, key) = r.rules[Min(coll)].route
    BY <1>3 DEF Route
  <2> QED
    BY <2>1, <2>2 DEF Routes
<1>4. CASE op = {} /\ coll = {}
  <2>1. Route(r, key) = r.fallback
    BY <1>4 DEF Route
  <2> QED
    BY <2>1 DEF Routes
<1> HIDE DEF op, coll
<1> QED
  BY <1>2, <1>3, <1>4

\* Two sets of positions have their first members in correspondence.
SameFirst(p, M, N) == (M = {} <=> N = {}) /\ (M # {} => p[Min(N)] = Min(M))

\* A rearrangement that keeps the order of a pass keeps the first match of it.
LEMMA FirstKept ==
    ASSUME NEW rules, DOMAIN rules \subseteq Nat,
           NEW p \in Rearrangements(rules),
           NEW M, M \subseteq DOMAIN rules,
           (\A i \in M : PinsOperation(rules[i])) \/ (\A i \in M : ~PinsOperation(rules[i])),
           NEW N, N \subseteq DOMAIN rules, \A i \in DOMAIN rules : i \in N <=> p[i] \in M
    PROVE  SameFirst(p, M, N)
<1>1. /\ \A i \in DOMAIN rules : p[i] \in DOMAIN rules
      /\ \A j \in DOMAIN rules : \E i \in DOMAIN rules : p[i] = j
      /\ \A i, j \in DOMAIN rules :
           i < j /\ (PinsOperation(rules[p[i]]) <=> PinsOperation(rules[p[j]])) => p[i] < p[j]
  BY DEF Rearrangements, Bijection, Injection, Surjection
<1>2. M = {} <=> N = {}
  BY <1>1
<1>3. ASSUME M # {} PROVE p[Min(N)] = Min(M)
  <2>1. N # {} /\ N \in SUBSET Nat /\ M \in SUBSET Nat
    BY <1>2, <1>3
  <2>2. Min(N) \in N /\ (\A y \in N : Min(N) <= y) /\ Min(M) \in M /\ (\A y \in M : Min(M) <= y)
    BY <2>1, <1>3, LeastPosition
  <2>3. PICK k \in DOMAIN rules : p[k] = Min(M)
    BY <1>1, <2>2
  <2>4. k \in N /\ Min(N) \in DOMAIN rules /\ p[Min(N)] \in M
    BY <2>2, <2>3
  <2>5. Min(N) <= k /\ Min(M) <= p[Min(N)]
    BY <2>2, <2>4
  <2>6. CASE Min(N) = k
    BY <2>3, <2>6
  <2>7. CASE Min(N) < k
    <3>1. PinsOperation(rules[p[Min(N)]]) <=> PinsOperation(rules[p[k]])
      <4>1. p[Min(N)] \in M /\ p[k] \in M
        BY <2>2, <2>3, <2>4
      <4> QED
        BY <4>1, Zenon
    <3>2. p[Min(N)] < p[k]
      BY <1>1, <2>4, <2>7, <3>1
    <3>3. p[Min(N)] \in Nat /\ Min(M) \in Nat
      BY <2>1, <2>2, <2>4
    <3> QED
      BY <2>3, <2>5, <3>2, <3>3
  <2>8. Min(N) \in Nat /\ k \in Nat
    BY <2>1, <2>2
  <2> QED
    BY <2>5, <2>6, <2>7, <2>8
<1> QED
  BY <1>2, <1>3 DEF SameFirst

\* Rearranged within the passes, a table sends every key where it sent it.
LEMMA RouteOfRearranged ==
    ASSUME NEW rules, DOMAIN rules \subseteq Nat, NEW fallback, NEW key,
           NEW p \in Rearrangements(rules)
    PROVE  Route(Split([i \in DOMAIN rules |-> rules[p[i]]], fallback), key)
             = Route(Split(rules, fallback), key)
<1> DEFINE q == [i \in DOMAIN rules |-> rules[p[i]]]
           r == Split(rules, fallback)
           s == Split(q, fallback)
           Mop   == Matching(r, r.opRules, key)
           Mcoll == Matching(r, r.collRules, key)
           Nop   == Matching(s, s.opRules, key)
           Ncoll == Matching(s, s.collRules, key)
<1>1. \A i \in DOMAIN rules : p[i] \in DOMAIN rules
  BY DEF Rearrangements, Bijection, Injection
<1>2. /\ r.rules = rules /\ r.fallback = fallback
      /\ r.opRules = {i \in DOMAIN rules : PinsOperation(rules[i])}
      /\ r.collRules = {i \in DOMAIN rules : ~PinsOperation(rules[i])}
  BY DEF Split
<1>3. /\ s.rules = q /\ s.fallback = fallback
      /\ s.opRules = {i \in DOMAIN q : PinsOperation(q[i])}
      /\ s.collRules = {i \in DOMAIN q : ~PinsOperation(q[i])}
  BY DEF Split
<1>4. DOMAIN q = DOMAIN rules /\ \A i \in DOMAIN rules : q[i] = rules[p[i]]
  OBVIOUS
<1> HIDE DEF q, r, s
<1>5. /\ Mop \subseteq DOMAIN rules /\ Nop \subseteq DOMAIN rules
      /\ \A i \in DOMAIN rules : i \in Nop <=> p[i] \in Mop
      /\ \A i \in Mop : PinsOperation(rules[i])
  <2>1. Mop = {i \in DOMAIN rules : PinsOperation(rules[i]) /\ Matches(rules[i], key)}
    BY <1>2 DEF Matching
  <2>2. Nop = {i \in DOMAIN rules : PinsOperation(q[i]) /\ Matches(q[i], key)}
    BY <1>3, <1>4 DEF Matching
  <2> HIDE DEF Mop, Nop
  <2>3. ASSUME NEW i \in DOMAIN rules
        PROVE  PinsOperation(q[i]) /\ Matches(q[i], key)
                 <=> PinsOperation(rules[p[i]]) /\ Matches(rules[p[i]], key)
    BY <1>4
  <2>4. \A i \in DOMAIN rules : i \in Nop <=> p[i] \in Mop
    BY <1>1, <2>1, <2>2, <2>3
  <2>5. Nop \subseteq DOMAIN rules
    BY <1>4, <2>2
  <2> QED
    BY <2>1, <2>4, <2>5
<1>6. /\ Mcoll \subseteq DOMAIN rules /\ Ncoll \subseteq DOMAIN rules
      /\ \A i \in DOMAIN rules : i \in Ncoll <=> p[i] \in Mcoll
      /\ \A i \in Mcoll : ~PinsOperation(rules[i])
  <2>1. Mcoll = {i \in DOMAIN rules : ~PinsOperation(rules[i]) /\ Matches(rules[i], key)}
    BY <1>2 DEF Matching
  <2>2. Ncoll = {i \in DOMAIN rules : ~PinsOperation(q[i]) /\ Matches(q[i], key)}
    BY <1>3, <1>4 DEF Matching
  <2> HIDE DEF Mcoll, Ncoll
  <2>3. ASSUME NEW i \in DOMAIN rules
        PROVE  ~PinsOperation(q[i]) /\ Matches(q[i], key)
                 <=> ~PinsOperation(rules[p[i]]) /\ Matches(rules[p[i]], key)
    BY <1>4
  <2>4. \A i \in DOMAIN rules : i \in Ncoll <=> p[i] \in Mcoll
    BY <1>1, <2>1, <2>2, <2>3
  <2>5. Ncoll \subseteq DOMAIN rules
    BY <1>4, <2>2
  <2> QED
    BY <2>1, <2>4, <2>5
<1> HIDE DEF Mop, Mcoll, Nop, Ncoll
<1>7. SameFirst(p, Mop, Nop)
  <2>1. \A i \in Mop : PinsOperation(rules[i])
    BY <1>5, Zenon
  <2>2. Mop \subseteq DOMAIN rules /\ Nop \subseteq DOMAIN rules
    BY <1>5, Zenon
  <2>3. \A i \in DOMAIN rules : i \in Nop <=> p[i] \in Mop
    BY <1>5, Zenon
  <2> QED
    BY <2>1, <2>2, <2>3, FirstKept, Zenon
<1>8. SameFirst(p, Mcoll, Ncoll)
  <2>1. \A i \in Mcoll : ~PinsOperation(rules[i])
    BY <1>6, Zenon
  <2>2. Mcoll \subseteq DOMAIN rules /\ Ncoll \subseteq DOMAIN rules
    BY <1>6, Zenon
  <2>3. \A i \in DOMAIN rules : i \in Ncoll <=> p[i] \in Mcoll
    BY <1>6, Zenon
  <2> QED
    BY <2>1, <2>2, <2>3, FirstKept, Zenon
<1>9. CASE Mop # {}
  <2>1. Min(Nop) \in DOMAIN rules
    BY <1>5, <1>7, <1>9, LeastPosition DEF SameFirst
  <2>2. s.rules[Min(Nop)] = r.rules[Min(Mop)]
    BY <1>2, <1>3, <1>4, <1>7, <1>9, <2>1 DEF SameFirst
  <2>3. Route(s, key) = s.rules[Min(Nop)].route /\ Route(r, key) = r.rules[Min(Mop)].route
    BY <1>7, <1>9 DEF Route, Mop, Nop, SameFirst
  <2> QED
    BY <2>2, <2>3 DEF r, s, q
<1>10. CASE Mop = {} /\ Mcoll # {}
  <2>1. Min(Ncoll) \in DOMAIN rules
    BY <1>6, <1>8, <1>10, LeastPosition DEF SameFirst
  <2>2. s.rules[Min(Ncoll)] = r.rules[Min(Mcoll)]
    BY <1>2, <1>3, <1>4, <1>8, <1>10, <2>1 DEF SameFirst
  <2>3. Route(s, key) = s.rules[Min(Ncoll)].route /\ Route(r, key) = r.rules[Min(Mcoll)].route
    BY <1>7, <1>8, <1>10 DEF Route, Mop, Nop, Mcoll, Ncoll, SameFirst
  <2> QED
    BY <2>2, <2>3 DEF r, s, q
<1>11. CASE Mop = {} /\ Mcoll = {}
  <2>1. Route(s, key) = s.fallback /\ Route(r, key) = r.fallback
    BY <1>7, <1>8, <1>11 DEF Route, Mop, Nop, Mcoll, Ncoll, SameFirst
  <2> QED
    BY <1>2, <1>3, <2>1 DEF r, s, q
<1> QED
  BY <1>9, <1>10, <1>11

-----------------------------------------------------------------------------
(***************************************************************************)
(* Decoding.                                                               *)
(***************************************************************************)

\* A rule of the file, decoded over a rule, is a rule.
LEMMA RuleOverRule ==
    ASSUME NEW object, OverStruct(object, ZeroRule) \in Rules, NEW rule \in Rules
    PROVE  OverStruct(object, rule) \in Rules
<1>1. DOMAIN rule = RuleKeys /\ DOMAIN ZeroRule = RuleKeys
  BY DEF Rules, RuleKeys, ZeroRule
<1>2. \A k \in RuleKeys :
        k \in DOMAIN object => OverStruct(object, ZeroRule)[k] = object[k]
  BY <1>1 DEF OverStruct, Value
<1>3. OverStruct(object, rule) =
        [k \in RuleKeys |-> IF k \in DOMAIN object THEN object[k] ELSE rule[k]]
  BY <1>1 DEF OverStruct, Value
<1>4. OverStruct(object, rule) =
        [kind       |-> OverStruct(object, rule)["kind"],
         collection |-> OverStruct(object, rule)["collection"],
         operation  |-> OverStruct(object, rule)["operation"],
         route      |-> OverStruct(object, rule)["route"]]
  BY <1>3 DEF RuleKeys
<1>5. /\ OverStruct(object, rule)["kind"] \in {"commit", "identity", ""}
      /\ OverStruct(object, rule)["collection"] \in Patterns
      /\ OverStruct(object, rule)["operation"] \in Operations \cup {""}
      /\ OverStruct(object, rule)["route"] \in Names \cup {""}
  BY <1>2, <1>3 DEF RuleKeys, Rules
<1> HIDE DEF OverStruct
<1> QED
  BY <1>4, <1>5 DEF Rules

\* The default rules are rules, at positions.
LEMMA DefaultsAreRules == \A i \in DOMAIN DefaultRules : i \in Nat /\ DefaultRules[i] \in Rules
<1>1. DefaultRules \in Seq(Rules)
  BY ConfigAssumption
<1>2. DefaultRules \in [1..Len(DefaultRules) -> Rules] /\ Len(DefaultRules) \in Nat
  BY <1>1
<1> QED
  BY <1>2

\* So is one decoded over none, and the table that results has rules at positions.
LEMMA TableDecoded ==
    ASSUME KnownFile
    PROVE  /\ "rules" \in DOMAIN file =>
                \A i \in DOMAIN OverSlice(file.rules, DefaultRules) :
                  i \in Nat /\ OverSlice(file.rules, DefaultRules)[i] \in Rules
           /\ Value(file, "fallback", DefaultFallback) \in Names \cup {""}
           /\ Value(file, "derive", FALSE) \in BOOLEAN
<1>1. /\ Value(file, "fallback", "") \in Names \cup {""} /\ Value(file, "derive", FALSE) \in BOOLEAN
      /\ "rules" \in DOMAIN file =>
           \A i \in DOMAIN file.rules : i \in Nat /\ OverStruct(file.rules[i], ZeroRule) \in Rules
  BY ConfigAssumption DEF KnownFile
<1>2. Value(file, "fallback", DefaultFallback) \in Names \cup {""}
  BY <1>1, ConfigAssumption DEF Value, Names
<1>3. ASSUME "rules" \in DOMAIN file, NEW i \in DOMAIN OverSlice(file.rules, DefaultRules)
      PROVE  i \in Nat /\ OverSlice(file.rules, DefaultRules)[i] \in Rules
  <2>1. i \in DOMAIN file.rules
    BY DEF OverSlice
  <2>2. CASE i \in DOMAIN DefaultRules
    <3>1. DefaultRules[i] \in Rules
      BY <2>2, DefaultsAreRules
    <3>2. OverSlice(file.rules, DefaultRules)[i] = OverStruct(file.rules[i], DefaultRules[i])
      BY <2>1, <2>2 DEF OverSlice
    <3> QED
      BY <1>1, <1>3, <2>1, <3>1, <3>2, RuleOverRule
  <2>3. CASE i \notin DOMAIN DefaultRules
    <3>1. OverSlice(file.rules, DefaultRules)[i] = OverStruct(file.rules[i], ZeroRule)
      BY <2>1, <2>3 DEF OverSlice
    <3> QED
      BY <1>1, <1>3, <2>1, <3>1
  <2> QED
    BY <2>2, <2>3
<1> QED
  BY <1>1, <1>2, <1>3

-----------------------------------------------------------------------------
(***************************************************************************)
(* The steps.                                                              *)
(***************************************************************************)

\* The initial states.
LEMMA RoutingInit == ConfigInit => RoutingInv
<1> SUFFICES ASSUME ConfigInit PROVE RoutingInv
  OBVIOUS
<1>1. /\ KnownFile /\ phase = "loading" /\ event = NoEvent
      /\ table = [rules |-> DefaultRules, fallback |-> DefaultFallback] /\ derive = FALSE
      /\ router = [rules |-> <<>>, opRules |-> {}, collRules |-> {}, fallback |-> ""]
      /\ routes = {} /\ filter = {}
  BY DEF ConfigInit, KnownFile
<1>2. \A i \in DOMAIN table.rules : i \in Nat /\ table.rules[i] \in Rules
  BY <1>1, DefaultsAreRules
<1>3. table.fallback \in Names \cup {""} /\ event.key \in Keys
  BY <1>1, ConfigAssumption DEF Names, NoEvent, Keys
<1>4. TypeOK
  BY <1>1, <1>2, <1>3 DEF TypeOK
<1> QED
  BY <1>1, <1>4 DEF RoutingInv, RouterCurrent, AllBuilt, EventRouted

\* Load replaces the table before anything is made of it.
LEMMA RoutingLoad == ASSUME RoutingInv, Load PROVE RoutingInv'
<1>1. /\ UNCHANGED <<file, router, routes, filter, event>>
      /\ phase = "loading" /\ phase' \in {"failed", "configured"}
  BY DEF Load
<1>2. event = NoEvent
  BY <1>1 DEF RoutingInv, EventRouted
<1>3. /\ \A i \in DOMAIN table'.rules : i \in Nat /\ table'.rules[i] \in Rules
      /\ table'.fallback \in Names \cup {""} /\ derive' \in BOOLEAN
  <2>1. CASE Malformed
    BY <2>1 DEF Load, RoutingInv, TypeOK
  <2>2. CASE ~Malformed
    <3>1. /\ table' = [rules    |-> IF "rules" \in DOMAIN file
                                    THEN OverSlice(file.rules, DefaultRules) ELSE DefaultRules,
                       fallback |-> Value(file, "fallback", DefaultFallback)]
          /\ derive' = Value(file, "derive", FALSE)
      BY <2>2 DEF Load
    <3> QED
      BY <3>1, DefaultsAreRules, TableDecoded DEF RoutingInv
  <2> QED
    BY <2>1, <2>2
<1>4. TypeOK'
  BY <1>1, <1>3 DEF RoutingInv, TypeOK
<1> QED
  BY <1>1, <1>2, <1>4 DEF RoutingInv, KnownFile, RouterCurrent, AllBuilt, EventRouted

\* New splits the table.
LEMMA RoutingNew == ASSUME RoutingInv, ValidateAndNew PROVE RoutingInv'
<1>1. /\ UNCHANGED <<file, table, derive, routes, filter, event>>
      /\ phase = "configured" /\ phase' = "split"
      /\ router' = Split(table.rules, table.fallback) /\ ~Rejected
  BY DEF ValidateAndNew, NewRouter
<1>2. event = NoEvent
  BY <1>1 DEF RoutingInv, EventRouted
<1>3. /\ router'.opRules \cup router'.collRules \subseteq DOMAIN router'.rules
      /\ router'.fallback = table.fallback
  BY <1>1 DEF Split
<1>4. TypeOK'
  BY <1>1, <1>3 DEF RoutingInv, TypeOK
<1>5. RouterCurrent'
  BY <1>1 DEF RouterCurrent, Rejected
<1> QED
  BY <1>1, <1>2, <1>4, <1>5 DEF RoutingInv, KnownFile, AllBuilt, EventRouted

\* What is asked of the server are collections.
LEMMA FilterOfCollections ==
    ASSUME RoutingInv, phase = "split" PROVE Concrete(router) \subseteq Collections
<1>1. /\ router = Split(table.rules, table.fallback)
      /\ \A i \in DOMAIN table.rules : table.rules[i] \in Rules
  BY DEF RoutingInv, RouterCurrent, TypeOK
<1>2. router.rules = table.rules /\ router.collRules \subseteq DOMAIN table.rules
  BY <1>1 DEF Split
<1>3. \A i \in router.collRules : router.rules[i].collection \in Patterns
  BY <1>1, <1>2 DEF Rules
<1> QED
  BY <1>3 DEF Concrete, Patterns

\* Every route the router may produce is built, or the program ends.
LEMMA RoutingBuild == ASSUME RoutingInv, BuildConfigured PROVE RoutingInv'
<1>1. /\ UNCHANGED <<file, table, derive, router, event>> /\ phase = "split"
      /\ \/ /\ phase' = "serving" /\ routes' = Routes(router) /\ Routes(router) \subseteq Handlers
            /\ filter' = IF derive THEN Concrete(router) ELSE {}
         \/ phase' = "failed" /\ UNCHANGED <<routes, filter>>
  BY DEF BuildConfigured, BuildRoutes
<1>2. event = NoEvent
  BY <1>1 DEF RoutingInv, EventRouted
<1>3. filter' \subseteq Collections /\ routes' \subseteq Handlers
  BY <1>1, FilterOfCollections DEF RoutingInv, TypeOK
<1>4. TypeOK'
  BY <1>1, <1>3 DEF RoutingInv, TypeOK
<1>5. RouterCurrent' /\ AllBuilt'
  BY <1>1 DEF RoutingInv, RouterCurrent, AllBuilt, Rejected, Routes
<1> QED
  BY <1>1, <1>2, <1>4, <1>5 DEF RoutingInv, KnownFile, EventRouted

\* While it serves, the route of any key was built.
LEMMA RouteIsBuilt ==
    ASSUME RoutingInv, phase = "serving", NEW key PROVE Route(router, key) \in routes
<1>1. /\ router = Split(table.rules, table.fallback) /\ routes = Routes(router)
      /\ DOMAIN table.rules \subseteq Nat
  BY DEF RoutingInv, RouterCurrent, AllBuilt, TypeOK
<1>2. router.opRules \subseteq Nat /\ router.collRules \subseteq Nat
  BY <1>1 DEF Split
<1> QED
  BY <1>1, <1>2, RouteAmongRoutes

\* An event goes to the route of its key.
LEMMA RoutingDispatch ==
    ASSUME RoutingInv, NEW key \in Keys, Dispatch(key), UNCHANGED file PROVE RoutingInv'
<1>1. phase = "serving" /\ UNCHANGED <<table, derive, phase, router, routes, filter, file>>
  BY DEF Dispatch
<1>2. Route(router, key) \in routes
  BY <1>1, RouteIsBuilt
<1>3. event' = [key |-> key, route |-> Route(router, key)]
  BY <1>2 DEF Dispatch
<1>4. TypeOK'
  BY <1>1, <1>3 DEF RoutingInv, TypeOK
<1>5. EventRouted'
  <2>1. Route(router, key)' = Route(router, key)
    BY <1>1 DEF Route, Matching
  <2> QED
    BY <1>1, <1>2, <1>3, <2>1 DEF EventRouted
<1> QED
  BY <1>1, <1>4, <1>5 DEF RoutingInv, KnownFile, RouterCurrent, AllBuilt, Rejected, Routes

\* Refusing and stuttering.
LEMMA RoutingOther ==
    ASSUME RoutingInv, Refuse \/ (Exited /\ UNCHANGED file) \/ UNCHANGED configVars
    PROVE  RoutingInv'
<1>1. UNCHANGED <<file, table, derive, router, routes, filter, event>>
  BY DEF Refuse, Exited, configVars, vars
<1>2. \/ phase' = phase
      \/ phase = "configured" /\ phase' = "failed"
  BY DEF Refuse, Exited, configVars, vars
<1>3. TypeOK'
  BY <1>1, <1>2 DEF RoutingInv, TypeOK
<1> QED
  BY <1>1, <1>2, <1>3
     DEF RoutingInv, KnownFile, RouterCurrent, AllBuilt, EventRouted, Rejected, Routes, Route, Matching

\* The invariant holds of every table that startup may meet.
LEMMA RoutingInvariant == ConfigSpec => []RoutingInv
<1>1. ASSUME RoutingInv, [ConfigNext]_configVars PROVE RoutingInv'
  <2>1. CASE Load
    BY <1>1, <2>1, RoutingLoad
  <2>2. CASE ValidateAndNew
    BY <1>1, <2>2, RoutingNew
  <2>3. CASE BuildConfigured
    BY <1>1, <2>3, RoutingBuild
  <2>4. CASE Serve
    <3>1. UNCHANGED file
      BY <2>4 DEF Serve
    <3>2. CASE \E key \in Keys : Dispatch(key)
      BY <1>1, <3>1, <3>2, RoutingDispatch
    <3>3. CASE Exited
      BY <1>1, <3>1, <3>3, RoutingOther
    <3> QED
      BY <2>4, <3>2, <3>3 DEF Serve
  <2>5. CASE Refuse
    BY <1>1, <2>5, RoutingOther
  <2>6. CASE UNCHANGED configVars
    BY <1>1, <2>6, RoutingOther
  <2> QED
    BY <1>1, <2>1, <2>2, <2>3, <2>4, <2>5, <2>6 DEF ConfigNext
<1> QED
  BY <1>1, RoutingInit, PTL DEF ConfigSpec

-----------------------------------------------------------------------------
(***************************************************************************)
(* The properties.                                                         *)
(***************************************************************************)

\* Whatever the files and the defaults are, tables, routers, routes and filters have
\* their types: above all, what the server is asked for are collections, never a
\* glob (Collections).
THEOREM RoutingTypeCorrect == ConfigSpec => []TypeOK
<1>1. RoutingInv => TypeOK
  BY DEF RoutingInv
<1> QED
  BY <1>1, RoutingInvariant, PTL

\* The branch that dispatch keeps for a route without a channel is unreachable,
\* for every table that New and buildRoutes accept (Routes, dispatcher).
THEOREM RoutingKnown == ConfigSpec => []UnknownUnreachable
<1>1. ASSUME RoutingInv PROVE UnknownUnreachable
  <2>1. CASE event = NoEvent
    BY <2>1 DEF NoEvent, UnknownUnreachable
  <2>2. CASE event # NoEvent
    <3>1. event.route \in Handlers
      BY <1>1, <2>2 DEF RoutingInv, EventRouted, TypeOK
    <3> QED
      BY <3>1, RoutingAssumption DEF UnknownUnreachable
  <2> QED
    BY <2>1, <2>2
<1> QED
  BY <1>1, RoutingInvariant, PTL

\* I3 for tables of any length: rearranging the rules without swapping two of the same
\* pass changes the route of no event (Split, Route).
THEOREM RoutingOrderImmaterial == ConfigSpec => []OrderImmaterial
<1>1. ASSUME RoutingInv PROVE OrderImmaterial
  <2> SUFFICES ASSUME Offered, NEW p \in Rearrangements(table.rules)
               PROVE  event.route = Route(Split([i \in DOMAIN table.rules |-> table.rules[p[i]]],
                                                table.fallback), event.key)
    BY DEF OrderImmaterial
  <2>1. event.route = Route(Split(table.rules, table.fallback), event.key)
    BY <1>1 DEF RoutingInv, EventRouted, RouterCurrent, Offered
  <2>2. DOMAIN table.rules \subseteq Nat
    BY <1>1 DEF RoutingInv, TypeOK
  <2> QED
    BY <2>1, <2>2, RouteOfRearranged
<1> QED
  BY <1>1, RoutingInvariant, PTL

\* I3 for deletes: a table with a rule for every delete sends each one to the route of
\* a rule for deletes (Route).
THEOREM RoutingDeletes == ConfigSpec => []DeletesDiverted
<1>1. ASSUME RoutingInv PROVE DeletesDiverted
  <2> SUFFICES ASSUME Offered, event.key.operation = "delete",
                      NEW rule \in Range(table.rules),
                      rule.operation = "delete", rule.collection = "", rule.kind \in {"", "commit"}
               PROVE  \E other \in Range(table.rules) :
                        other.operation = "delete" /\ other.route = event.route
    BY DEF DeletesDiverted
  <2> DEFINE op == Matching(router, router.opRules, event.key)
  <2>1. /\ event.route = Route(router, event.key) /\ event.key \in Keys
        /\ router = Split(table.rules, table.fallback) /\ DOMAIN table.rules \subseteq Nat
    BY <1>1 DEF RoutingInv, EventRouted, RouterCurrent, Offered, TypeOK
  <2>2. /\ router.rules = table.rules
        /\ router.opRules = {i \in DOMAIN table.rules : PinsOperation(table.rules[i])}
    BY <2>1 DEF Split
  <2>3. event.key.kind = "commit"
    <3>1. event.key \in [kind : {"commit"}, collection : Collections, operation : Operations]
            \/ event.key.operation = ""
      <4>1. Identity.operation = ""
        BY DEF Identity
      <4> QED
        BY <2>1, <4>1 DEF Keys
    <3> QED
      BY <3>1
  <2>4. PICK i \in DOMAIN table.rules : table.rules[i] = rule
    BY DEF Range
  <2>5. i \in op
    BY <2>2, <2>3, <2>4 DEF Matching, Matches, PinsOperation
  <2>6. op \in SUBSET Nat
    BY <2>1, <2>2 DEF Matching
  <2>7. Min(op) \in op
    BY <2>5, <2>6, LeastPosition
  <2>8. event.route = table.rules[Min(op)].route
    BY <2>1, <2>2, <2>5 DEF Route
  <2>9. Min(op) \in DOMAIN table.rules /\ table.rules[Min(op)].operation = "delete"
    BY <2>2, <2>7 DEF Matching, Matches, PinsOperation
  <2> HIDE DEF op
  <2>10. table.rules[Min(op)] \in Range(table.rules)
    BY <2>9 DEF Range
  <2> QED
    BY <2>8, <2>9, <2>10
<1> QED
  BY <1>1, RoutingInvariant, PTL
=============================================================================
