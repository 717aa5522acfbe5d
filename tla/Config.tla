------------------------------- MODULE Config -------------------------------
(***************************************************************************)
(* Startup (internal/config/config.go, Config of internal/route/route.go,  *)
(* run and buildRoutes of cmd/router/main.go): the file is decoded over    *)
(* the defaults and validated, and the routing table and the settings that *)
(* result are what Routing and the routes start with.                      *)
(*                                                                         *)
(* A JSON object is a function on the keys it mentions.  encoding/json is  *)
(* external: an object decoded into a struct leaves the fields it does not *)
(* mention as they are, an array is decoded into the elements the slice    *)
(* already has, and the value of a map entry is decoded into a zero one.   *)
(* Durations and strings that do not parse are malformed like a wrong key. *)
(***************************************************************************)
EXTENDS Routing, Integers

CONSTANTS
    Files,          \* the files considered, a tuple of sets of them; the empty file
                    \* stands for no file as well
    DefaultRules,   \* Default().Routing.Rules
    DefaultFallback,
    DefaultRoutes   \* Default().Routes

\* The keys that matter here.  The name in a block of a route is replaced by buildRoutes;
\* settings of the stream and of the handlers that nothing below looks at are left out.
RuleKeys  == {"kind", "collection", "operation", "route"}
RouteKeys == {"buffer", "workers", "policy", "max_attempts", "retry_base", "block_timeout"}
FileKeys  == {"rules", "fallback", "derive", "routes", "engagement", "followBurst", "max_keys"}

ZeroRule  == [k \in RuleKeys |-> ""]
ZeroRoute == [buffer |-> 0, workers |-> 0, policy |-> "", max_attempts |-> 0,
              retry_base |-> 0, block_timeout |-> 0]

\* The entries a file may contain, as far as Validate looks at them.
DefaultLimits == [engagement |-> 100, followBurst |-> 25, max_keys |-> 20000]

\* The fields of an entry that hold a number.
Numbers == RouteKeys \ {"policy"}

\* What the object has under the key, or else what was there.
Value(object, key, before) == IF key \in DOMAIN object THEN object[key] ELSE before

\* A struct keeps the fields the object does not mention.
OverStruct(object, struct) == [k \in DOMAIN struct |-> Value(object, k, struct[k])]

\* What does not fit into its field is malformed: a value of the file under a key that
\* exists has the type of the field.
ASSUME ConfigAssumption ==
    /\ DefaultRules \in Seq(Rules) /\ DefaultFallback \in Handlers
    /\ \A n \in DOMAIN DefaultRoutes : DOMAIN DefaultRoutes[n] = RouteKeys
    /\ \A n \in DOMAIN DefaultRoutes : \A k \in Numbers : DefaultRoutes[n][k] \in Int
    /\ \A s \in DOMAIN Files : \A f \in Files[s] :
         /\ \A k \in DOMAIN f \cap DOMAIN DefaultLimits : f[k] \in Int
         /\ Value(f, "fallback", "") \in Names \cup {""} /\ Value(f, "derive", FALSE) \in BOOLEAN
         /\ "rules" \in DOMAIN f =>
              \A i \in DOMAIN f.rules : i \in Nat /\ OverStruct(f.rules[i], ZeroRule) \in Rules
         /\ "routes" \in DOMAIN f =>
              \A n \in DOMAIN f.routes : \A k \in DOMAIN f.routes[n] \cap Numbers :
                f.routes[n][k] \in Int

VARIABLES
    file,       \* the configuration file
    entries,    \* Config.Routes
    limits,     \* Config.Thresholds and Config.State
    built       \* the configuration each route runs with, and its shards

configVars == <<file, entries, limits, built, vars>>

ConfigInit ==
    /\ \E i \in DOMAIN Files : file \in Files[i]
    /\ table = [rules |-> DefaultRules, fallback |-> DefaultFallback] /\ derive = FALSE
    /\ entries = DefaultRoutes /\ limits = DefaultLimits
    /\ phase = "loading"
    /\ router = [rules |-> <<>>, opRules |-> {}, collRules |-> {}, fallback |-> ""]
    /\ routes = {} /\ filter = {} /\ built = <<>>
    /\ event = NoEvent

-----------------------------------------------------------------------------
(***************************************************************************)
(* Load.                                                                   *)
(***************************************************************************)

\* The elements of the array go into those of the slice, one by one.
OverSlice(array, slice) ==
    [i \in DOMAIN array |-> OverStruct(array[i], IF i \in DOMAIN slice THEN slice[i]
                                                                      ELSE ZeroRule)]

\* Every entry of the object is decoded into a zero value; the map keeps the rest.
OverMap(object, entry) ==
    [n \in DOMAIN object \cup DOMAIN entry |->
        IF n \in DOMAIN object THEN OverStruct(object[n], ZeroRoute) ELSE entry[n]]

\* Unknown keys are errors, in the blocks of the routes as well.
Malformed ==
    \/ ~(DOMAIN file \subseteq FileKeys)
    \/ \E i \in DOMAIN Value(file, "rules", <<>>) : ~(DOMAIN file.rules[i] \subseteq RuleKeys)
    \/ \E n \in DOMAIN Value(file, "routes", <<>>) : ~(DOMAIN file.routes[n] \subseteq RouteKeys)

Load ==
    /\ phase = "loading"
    /\ phase' = IF Malformed THEN "failed" ELSE "configured"
    /\ IF Malformed THEN UNCHANGED <<table, derive, entries, limits>> ELSE
        /\ table' = [rules    |-> IF "rules" \in DOMAIN file
                                  THEN OverSlice(file.rules, DefaultRules) ELSE DefaultRules,
                     fallback |-> Value(file, "fallback", DefaultFallback)]
        /\ derive' = Value(file, "derive", FALSE)
        /\ entries' = OverMap(Value(file, "routes", <<>>), DefaultRoutes)
        /\ limits' = [k \in DOMAIN limits |-> Value(file, k, limits[k])]
    /\ UNCHANGED <<file, built, router, routes, filter, event>>

\* What Validate rejects: what routing.New does, a route of the table without an
\* entry, limits that are not positive.
Invalid ==
    \/ Rejected
    \/ ~(Routes(Split(table.rules, table.fallback)) \subseteq DOMAIN entries)
    \/ \E k \in DOMAIN limits : limits[k] <= 0

\* Validate, and routing.New on the table it accepted.
ValidateAndNew ==
    /\ ~Invalid /\ NewRouter
    /\ UNCHANGED <<file, entries, limits, built>>

\* The program ends before it starts.
Refuse ==
    /\ phase = "configured" /\ Invalid
    /\ phase' = "failed"
    /\ UNCHANGED <<file, entries, limits, built, table, derive, router, routes, filter, event>>

-----------------------------------------------------------------------------
\* Mutant: only a field that is zero counts as unset.
UnsetIfZero(n, default) == IF n = 0 THEN default ELSE n

\* A number that is not positive counts as unset.
Positive(n, default) == IF n <= 0 THEN default ELSE n

\* withDefaults; durations are in milliseconds.
WithDefaults(c) ==
    [buffer        |-> Positive(c.buffer, 1024),
     workers       |-> Positive(c.workers, 1),
     policy        |-> IF c.policy = "" THEN "drop" ELSE c.policy,
     max_attempts  |-> Positive(c.max_attempts, 3),
     retry_base    |-> Positive(c.retry_base, 100),
     block_timeout |-> Positive(c.block_timeout, 2000)]

\* newShardSet, which is given the workers of the entry as they are.
Shards(c) == IF c.workers < 1 THEN 1 ELSE c.workers

\* buildRoutes: the handlers with their shards, the routes with their defaults.
BuildConfigured ==
    /\ BuildRoutes
    /\ built' = [n \in routes' |-> [route  |-> WithDefaults(entries[n]),
                                    shards |-> Shards(entries[n])]]
    /\ UNCHANGED <<file, entries, limits>>

Serve ==
    /\ (\E key \in Keys : Dispatch(key)) \/ Exited
    /\ UNCHANGED <<file, entries, limits, built>>

ConfigNext == Load \/ ValidateAndNew \/ Refuse \/ BuildConfigured \/ Serve

ConfigSpec == ConfigInit /\ [][ConfigNext]_configVars

-----------------------------------------------------------------------------
\* Whatever file is accepted, with fields that are missing, zero or negative, the
\* routes that run satisfy what module Route assumes of its parameters (numbers: a
\* policy that is neither "drop" nor "block" is accepted and acts as "drop"), a
\* handler with state has one shard per worker of its pool, and the caps on the state
\* are positive, as module Shard assumes (Validate, withDefaults, newShardSet).
BuiltAsAssumed ==
    phase = "serving" =>
        /\ DOMAIN built = routes
        /\ \A n \in routes :
             /\ \A k \in Numbers : built[n].route[k] > 0
             /\ built[n].route.workers = built[n].shards
        /\ \A k \in DOMAIN limits : limits[k] > 0

-----------------------------------------------------------------------------
(***************************************************************************)
(* What comments say and the code does not do.                             *)
(***************************************************************************)
AsWritten == [i \in DOMAIN file.rules |-> OverStruct(file.rules[i], ZeroRule)]

\* routing.go says that an empty field of a rule matches anything, and config.go
\* that no value of the file may fail to take effect in silence: an event goes
\* where the rules of the file send it.
TakesEffectAsWritten ==
    Offered /\ "rules" \in DOMAIN file =>
        event.route = Route(Split(AsWritten, table.fallback), event.key)
=============================================================================
