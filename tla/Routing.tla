------------------------------ MODULE Routing -------------------------------
(***************************************************************************)
(* The routing table and the dispatcher (internal/routing/routing.go,      *)
(* buildRoutes, ingestConfig and dispatcher of cmd/router/main.go): the    *)
(* configured table is validated and split, the routes it can reach are    *)
(* built, and every key the server sends is resolved to one of them.  How  *)
(* the table comes about, and the next-state relation, are in Config.      *)
(*                                                                         *)
(* A collection pattern is a concrete collection, a glob, of which only    *)
(* the collections it covers matter, or malformed.  "" is an empty field.  *)
(* The server is external: with a filter it sends the commits of the       *)
(* wanted collections, and identity and account frames all the same.       *)
(***************************************************************************)
EXTENDS Naturals, Sequences, FiniteSetsExt, Functions

CONSTANTS
    Collections,    \* the collections of the network
    Globs,          \* the patterns with metacharacters
    Covers,         \* the collections each glob matches (path.Match)
    Handlers,       \* the routes with a registered handler
    OtherRoutes     \* names a table may contain without one

ASSUME RoutingAssumption ==
    /\ Covers \in [Globs -> SUBSET Collections]
    /\ Globs \cap Collections = {} /\ "" \notin Collections \cup Globs
    /\ {"", "unknown"} \cap (Handlers \cup OtherRoutes) = {}

Operations == {"create", "delete"}
Names      == Handlers \cup OtherRoutes
Patterns   == Collections \cup Globs \cup {"", "malformed"}
Rules      == [kind : {"commit", "identity", ""}, collection : Patterns,
               operation : Operations \cup {""}, route : Names \cup {""}]
Identity   == [kind |-> "identity", collection |-> "", operation |-> ""]
Keys       == [kind : {"commit"}, collection : Collections, operation : Operations]
                \cup {Identity}

VARIABLES
    table,      \* Config.Routing: rules, fallback
    derive,     \* wantedCollections is ["derive"], or empty
    phase,      \* "loading" (Config), "configured", "split", "serving", "failed"
    router,     \* Router: the rules, which of them are opRules and collRules, fallback
    routes,     \* the routes built
    filter,     \* what the server is asked for, empty for everything
    event       \* the last event: its key, the route it was offered to

vars == <<table, derive, phase, router, routes, filter, event>>

NoEvent == [key |-> Identity, route |-> ""]

-----------------------------------------------------------------------------
(***************************************************************************)
(* Router.                                                                 *)
(***************************************************************************)
Covered(p) == IF p \in Globs THEN Covers[p] ELSE {p}

\* An empty field of the rule matches anything; a collection never matches a
\* key without one.
Matches(rule, key) ==
    /\ rule.kind \in {"", key.kind}
    /\ rule.operation \in {"", key.operation}
    /\ rule.collection # "" => key.collection # "" /\ key.collection \in Covered(rule.collection)

\* What New rejects: no fallback, a rule without route, a malformed glob.
Rejected ==
    \/ table.fallback = ""
    \/ \E i \in DOMAIN table.rules :
         table.rules[i].route = "" \/ table.rules[i].collection = "malformed"

PinsOperation(rule) == rule.operation # ""

\* Mutant: one ordered list, the table as it is configured.
SplitNot(rules, fallback) ==
    [rules |-> rules, opRules |-> DOMAIN rules, collRules |-> {}, fallback |-> fallback]

\* The table split in the two passes, each in configured order: a pass is the set of
\* positions of its rules in the table.
Split(rules, fallback) ==
    [rules     |-> rules,
     opRules   |-> {i \in DOMAIN rules : PinsOperation(rules[i])},
     collRules |-> {i \in DOMAIN rules : ~PinsOperation(rules[i])},
     fallback  |-> fallback]

\* The rules of a pass that match the key.
Matching(r, pass, key) == {i \in pass : Matches(r.rules[i], key)}

\* Mutant: the collection pass comes first.
RouteCollectionFirst(r, key) ==
    LET op   == Matching(r, r.opRules, key)
        coll == Matching(r, r.collRules, key)
    IN  CASE coll # {}            -> r.rules[Min(coll)].route
          [] coll = {} /\ op # {} -> r.rules[Min(op)].route
          [] OTHER                -> r.fallback

\* Router.Route: the first match among the rules that pin an operation, then among
\* the others, then the fallback.
Route(r, key) ==
    LET op   == Matching(r, r.opRules, key)
        coll == Matching(r, r.collRules, key)
    IN  CASE op # {}              -> r.rules[Min(op)].route
          [] op = {} /\ coll # {} -> r.rules[Min(coll)].route
          [] OTHER                -> r.fallback

\* Mutant: the routes of the collection rules and the fallback.
RoutesOfCollections(r) == {r.rules[i].route : i \in r.collRules} \cup {r.fallback}

\* Router.Routes: every route the table can produce.
Routes(r) == {r.rules[i].route : i \in r.opRules \cup r.collRules} \cup {r.fallback}

\* Mutant: globs are asked for like collections.
ConcreteWithGlobs(r) == {r.rules[i].collection : i \in r.collRules} \ {"", "malformed"}

\* Router.Collections: the concrete collections of the rules without operation.
Concrete(r) ==
    {r.rules[i].collection : i \in r.collRules} \ (Globs \cup {"", "malformed"})

-----------------------------------------------------------------------------
\* routing.New accepts the table.
NewRouter ==
    /\ phase = "configured" /\ ~Rejected
    /\ phase' = "split"
    /\ router' = Split(table.rules, table.fallback)
    /\ UNCHANGED <<table, derive, routes, filter, event>>

\* buildRoutes and ingestConfig: a route without handler ends the program.
BuildRoutes ==
    /\ phase = "split"
    /\ IF Routes(router) \subseteq Handlers
       THEN /\ phase' = "serving"
            /\ routes' = Routes(router)
            /\ filter' = IF derive THEN Concrete(router) ELSE {}
       ELSE phase' = "failed" /\ UNCHANGED <<routes, filter>>
    /\ UNCHANGED <<table, derive, router, event>>

\* The server sends an event only if the filter lets it pass.
Passes(key) == filter = {} \/ key.kind # "commit" \/ key.collection \in filter

\* Dispatch: the route of the key is offered the event, or counts as unknown.
Dispatch(key) ==
    /\ phase = "serving"
    /\ Passes(key)
    /\ event' = [key |-> key,
                 route |-> IF Route(router, key) \in routes THEN Route(router, key)
                                                            ELSE "unknown"]
    /\ UNCHANGED <<table, derive, phase, router, routes, filter>>

\* The program ended with an error.
Exited == phase = "failed" /\ UNCHANGED vars

-----------------------------------------------------------------------------
TypeOK ==
    /\ \A i \in DOMAIN table.rules : i \in Nat /\ table.rules[i] \in Rules
    /\ table.fallback \in Names \cup {""} /\ derive \in BOOLEAN
    /\ phase \in {"loading", "configured", "split", "serving", "failed"}
    /\ router.opRules \cup router.collRules \subseteq DOMAIN router.rules
    /\ router.fallback \in Names \cup {""}
    /\ routes \subseteq Handlers /\ filter \subseteq Collections
    /\ event.key \in Keys

\* Whatever table passes the startup checks, no event meets a route that was not
\* built: the branch that dispatch keeps for it is unreachable (Routes, Dispatch).
UnknownUnreachable == event.route # "unknown"

Offered == phase = "serving" /\ event # NoEvent

\* The rearrangements of a table that keep the order within each of the two passes.
Rearrangements(rules) ==
    {p \in Bijection(DOMAIN rules, DOMAIN rules) :
        \A i, j \in DOMAIN rules :
            i < j /\ (PinsOperation(rules[p[i]]) <=> PinsOperation(rules[p[j]])) => p[i] < p[j]}

\* Operation-first precedence does not depend on the order of the table: wherever
\* the rules that pin an operation stand between the others, every event goes
\* where it went (I3).
OrderImmaterial ==
    Offered =>
        \A p \in Rearrangements(table.rules) :
            LET rearranged == [i \in DOMAIN table.rules |-> table.rules[p[i]]]
            IN  event.route = Route(Split(rearranged, table.fallback), event.key)

\* With a rule for every delete in the table, a delete goes to the route of a
\* rule for deletes, whatever rules its collection has: it carries no record, so
\* a handler of records would find nothing in it (I3).
DeletesDiverted ==
    (/\ Offered /\ event.key.operation = "delete"
     /\ \E rule \in Range(table.rules) :
          rule.operation = "delete" /\ rule.collection = "" /\ rule.kind \in {"", "commit"})
    => \E rule \in Range(table.rules) : rule.operation = "delete" /\ rule.route = event.route

=============================================================================
