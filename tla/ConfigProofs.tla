---------------------------- MODULE ConfigProofs ----------------------------
(***************************************************************************)
(* Proofs about Config, for every set of files, defaults and tables: what  *)
(* is accepted runs with the parameters that Route and Shard assume.       *)
(***************************************************************************)
EXTENDS Config, TLAPS

-----------------------------------------------------------------------------
(***************************************************************************)
(* The inductive invariant.                                                *)
(***************************************************************************)

\* Numbers are numbers, in the entries and in the limits.
NumbersInt ==
    /\ \A n \in DOMAIN entries : \A k \in Numbers : entries[n][k] \in Int
    /\ DOMAIN limits = DOMAIN DefaultLimits
    /\ \A k \in DOMAIN limits : limits[k] \in Int

\* Behind Validate, every route the table can produce has an entry, and the limits
\* are positive.
Validated ==
    phase \in {"split", "serving"} =>
        /\ Routes(router) \subseteq DOMAIN entries
        /\ \A k \in DOMAIN limits : limits[k] > 0

FileKnown == \E i \in DOMAIN Files : file \in Files[i]

BuildInv == FileKnown /\ NumbersInt /\ Validated /\ BuiltAsAssumed

-----------------------------------------------------------------------------
(***************************************************************************)
(* Decoding and defaults.                                                  *)
(***************************************************************************)

\* An object that mentions some fields, decoded into a zero entry.
LEMMA EntryNumbers ==
    ASSUME NEW object, \A k \in DOMAIN object \cap Numbers : object[k] \in Int
    PROVE  \A k \in Numbers : OverStruct(object, ZeroRoute)[k] \in Int
<1> SUFFICES ASSUME NEW k \in Numbers PROVE OverStruct(object, ZeroRoute)[k] \in Int
  OBVIOUS
<1>1. k \in DOMAIN ZeroRoute /\ ZeroRoute[k] \in Int
  <2>1. k \in {"buffer", "workers", "max_attempts", "retry_base", "block_timeout"}
    BY DEF Numbers, RouteKeys
  <2>2. DOMAIN ZeroRoute = RouteKeys
    BY DEF ZeroRoute, RouteKeys
  <2>3. /\ ZeroRoute["buffer"] = 0 /\ ZeroRoute["workers"] = 0
        /\ ZeroRoute["max_attempts"] = 0 /\ ZeroRoute["retry_base"] = 0
        /\ ZeroRoute["block_timeout"] = 0
    BY DEF ZeroRoute
  <2>4. ZeroRoute[k] = 0
    BY <2>1, <2>3
  <2> QED
    BY <2>2, <2>4 DEF Numbers
<1>2. OverStruct(object, ZeroRoute)[k] = IF k \in DOMAIN object THEN object[k] ELSE ZeroRoute[k]
  BY <1>1 DEF OverStruct, Value
<1> QED
  BY <1>1, <1>2

\* The entries of the file, with those of the defaults it does not replace.
LEMMA EntriesNumbers ==
    ASSUME NEW object,
           \A n \in DOMAIN object : \A k \in DOMAIN object[n] \cap Numbers : object[n][k] \in Int
    PROVE  \A n \in DOMAIN OverMap(object, DefaultRoutes) : \A k \in Numbers :
             OverMap(object, DefaultRoutes)[n][k] \in Int
<1> SUFFICES ASSUME NEW n \in DOMAIN OverMap(object, DefaultRoutes), NEW k \in Numbers
             PROVE  OverMap(object, DefaultRoutes)[n][k] \in Int
  OBVIOUS
<1>1. n \in DOMAIN object \cup DOMAIN DefaultRoutes
  BY DEF OverMap
<1>2. OverMap(object, DefaultRoutes)[n] =
        IF n \in DOMAIN object THEN OverStruct(object[n], ZeroRoute) ELSE DefaultRoutes[n]
  BY <1>1 DEF OverMap
<1>3. CASE n \in DOMAIN object
  BY <1>2, <1>3, EntryNumbers
<1>4. CASE n \notin DOMAIN object
  BY <1>1, <1>2, <1>4, ConfigAssumption
<1> QED
  BY <1>3, <1>4

\* A number that is completed is positive, and as many workers as shards come out.
LEMMA DefaultsPositive ==
    ASSUME NEW c, \A k \in Numbers : c[k] \in Int
    PROVE  /\ \A k \in Numbers : WithDefaults(c)[k] > 0
           /\ WithDefaults(c).workers = Shards(c)
<1>1. /\ c.buffer \in Int /\ c.workers \in Int /\ c.max_attempts \in Int
      /\ c.retry_base \in Int /\ c.block_timeout \in Int
  BY DEF Numbers, RouteKeys
<1>2. ASSUME NEW n \in Int, NEW d \in Int, d > 0
      PROVE  Positive(n, d) > 0
  BY <1>2 DEF Positive
<1>3. /\ WithDefaults(c).buffer > 0 /\ WithDefaults(c).workers > 0
      /\ WithDefaults(c).max_attempts > 0 /\ WithDefaults(c).retry_base > 0
      /\ WithDefaults(c).block_timeout > 0
  BY <1>1, <1>2 DEF WithDefaults
<1>4. WithDefaults(c).workers = Shards(c)
  BY <1>1 DEF WithDefaults, Positive, Shards
<1> QED
  BY <1>3, <1>4 DEF Numbers, RouteKeys

-----------------------------------------------------------------------------
(***************************************************************************)
(* The steps.                                                              *)
(***************************************************************************)

\* The initial states.
LEMMA InitBuild == ConfigInit => BuildInv
<1> SUFFICES ASSUME ConfigInit PROVE BuildInv
  OBVIOUS
<1>1. phase = "loading" /\ entries = DefaultRoutes /\ limits = DefaultLimits /\ FileKnown
  BY DEF ConfigInit, FileKnown
<1>2. NumbersInt
  <2>1. \A n \in DOMAIN DefaultRoutes : \A k \in Numbers : DefaultRoutes[n][k] \in Int
    BY ConfigAssumption, Zenon
  <2> QED
    BY <1>1, <2>1 DEF NumbersInt, DefaultLimits
<1> QED
  BY <1>1, <1>2 DEF BuildInv, Validated, BuiltAsAssumed

\* Load leaves numbers where numbers are.
LEMMA LoadBuild == ASSUME BuildInv, Load PROVE BuildInv'
<1>1. FileKnown' /\ phase' \in {"failed", "configured"}
  BY DEF BuildInv, FileKnown, Load
<1>2. NumbersInt'
  <2>1. CASE Malformed
    BY <2>1 DEF BuildInv, NumbersInt, Load
  <2>2. CASE ~Malformed
    <3>1. /\ entries' = OverMap(Value(file, "routes", <<>>), DefaultRoutes)
          /\ limits' = [k \in DOMAIN limits |-> Value(file, k, limits[k])]
      BY <2>2 DEF Load
    <3>2. /\ \A k \in DOMAIN file \cap DOMAIN DefaultLimits : file[k] \in Int
          /\ "routes" \in DOMAIN file =>
               \A n \in DOMAIN file.routes : \A k \in DOMAIN file.routes[n] \cap Numbers :
                 file.routes[n][k] \in Int
      BY ConfigAssumption DEF BuildInv, FileKnown
    <3>3. \A n \in DOMAIN Value(file, "routes", <<>>) :
            \A k \in DOMAIN Value(file, "routes", <<>>)[n] \cap Numbers :
              Value(file, "routes", <<>>)[n][k] \in Int
      BY <3>2 DEF Value
    <3>4. \A n \in DOMAIN entries' : \A k \in Numbers : entries'[n][k] \in Int
      BY <3>1, <3>3, EntriesNumbers
    <3>5. \A k \in DOMAIN limits : Value(file, k, limits[k]) \in Int
      BY <3>2 DEF BuildInv, NumbersInt, Value
    <3> QED
      BY <3>1, <3>4, <3>5 DEF BuildInv, NumbersInt
  <2> QED
    BY <2>1, <2>2
<1> QED
  BY <1>1, <1>2 DEF BuildInv, Validated, BuiltAsAssumed

\* What Validate accepts.
LEMMA ValidateBuild == ASSUME BuildInv, ValidateAndNew PROVE BuildInv'
<1>1. /\ UNCHANGED <<file, entries, limits>> /\ phase' = "split"
      /\ router' = Split(table.rules, table.fallback)
  BY DEF ValidateAndNew, NewRouter
<1>2. /\ Routes(Split(table.rules, table.fallback)) \subseteq DOMAIN entries
      /\ \A k \in DOMAIN limits : ~(limits[k] <= 0)
  BY DEF ValidateAndNew, Invalid
<1>3. NumbersInt' /\ FileKnown'
  BY <1>1 DEF BuildInv, NumbersInt, FileKnown
<1>4. Routes(router)' \subseteq DOMAIN entries'
  BY <1>1, <1>2 DEF Routes
<1>5. \A k \in DOMAIN limits' : limits'[k] > 0
  BY <1>1, <1>2 DEF BuildInv, NumbersInt
<1> QED
  BY <1>1, <1>3, <1>4, <1>5 DEF BuildInv, Validated, BuiltAsAssumed

\* Every route is built from an entry.
LEMMA RoutesBuild == ASSUME BuildInv, BuildConfigured PROVE BuildInv'
<1>1. /\ UNCHANGED <<file, entries, limits, router>>
      /\ phase = "split" /\ phase' \in {"serving", "failed"}
      /\ phase' = "serving" => routes' = Routes(router)
      /\ built' = [n \in routes' |-> [route  |-> WithDefaults(entries[n]),
                                      shards |-> Shards(entries[n])]]
  BY DEF BuildConfigured, BuildRoutes
<1>2. NumbersInt' /\ FileKnown'
  BY <1>1 DEF BuildInv, NumbersInt, FileKnown
<1>3. /\ Routes(router) \subseteq DOMAIN entries
      /\ \A k \in DOMAIN limits : limits[k] > 0
  BY <1>1 DEF BuildInv, Validated
<1>4. Validated'
  BY <1>1, <1>3 DEF Validated, Routes
<1>5. BuiltAsAssumed'
  <2> SUFFICES ASSUME phase' = "serving", NEW n \in routes'
               PROVE  /\ \A k \in Numbers : built'[n].route[k] > 0
                      /\ built'[n].route.workers = built'[n].shards
    BY <1>1, <1>3 DEF BuiltAsAssumed
  <2>1. \A k \in Numbers : entries[n][k] \in Int
    BY <1>1, <1>3 DEF BuildInv, NumbersInt
  <2>2. built'[n].route = WithDefaults(entries[n]) /\ built'[n].shards = Shards(entries[n])
    BY <1>1
  <2> QED
    BY <2>1, <2>2, DefaultsPositive
<1> QED
  BY <1>2, <1>4, <1>5 DEF BuildInv

\* Refusing, serving and stuttering touch nothing of it.
LEMMA OtherBuild ==
    ASSUME BuildInv, Refuse \/ Serve \/ UNCHANGED configVars PROVE BuildInv'
<1>1. /\ UNCHANGED <<file, entries, limits, built, router, routes>>
      /\ phase' \in {phase, "failed"}
  BY DEF Refuse, Serve, Dispatch, Exited, configVars, vars
<1> QED
  BY <1>1 DEF BuildInv, FileKnown, NumbersInt, Validated, BuiltAsAssumed, Routes

\* Whatever the files, the defaults and the routing tables are: what is accepted is
\* built with the parameters that Route and Shard assume (withDefaults, newShardSet).
THEOREM ConfigBuildsAsAssumed == ConfigSpec => []BuiltAsAssumed
<1>1. BuildInv /\ [ConfigNext]_configVars => BuildInv'
  BY LoadBuild, ValidateBuild, RoutesBuild, OtherBuild DEF ConfigNext
<1>2. BuildInv => BuiltAsAssumed
  BY DEF BuildInv
<1> QED
  BY <1>1, <1>2, InitBuild, PTL DEF ConfigSpec
=============================================================================
