----------------------------- MODULE MCConfig -------------------------------
(***************************************************************************)
(* Small instances of startup for TLC: two collections and a glob that     *)
(* covers both, two routes with a handler and one without, and the first   *)
(* two rules of the default table.  The files: every table of up to two    *)
(* rules written out in full; tables whose rules leave fields out; blocks  *)
(* of routes and limits that are partial, out of range or misspelled.      *)
(***************************************************************************)
EXTENDS Config, TLC

CONSTANTS post, like, feed

BothCollections == {post, like}
OneGlob         == {feed}
CoversBoth      == [g \in OneGlob |-> BothCollections]

DeleteRule == [kind |-> "commit", operation |-> "delete", route |-> "retraction"]
PostRule   == [kind |-> "commit", collection |-> post, route |-> "content"]
LikeRule   == [collection |-> like, route |-> "archive"]
Misspelled == [colection |-> like, route |-> "content"]

TwoRules     == <<DeleteRule @@ [collection |-> ""], PostRule @@ [operation |-> ""]>>
DefaultEntry == [buffer |-> 2048, workers |-> 2, policy |-> "drop", max_attempts |-> 0,
                 retry_base |-> 0, block_timeout |-> 0]
TwoRoutes    == [content    |-> DefaultEntry,
                 retraction |-> [DefaultEntry EXCEPT !.policy = "block",
                                                     !.block_timeout = 2000]]

MaxRules == 2

UpTo(n, S) == UNION {[1..k -> S] : k \in 0..n}

FullTables == [rules : UpTo(MaxRules, Rules), fallback : Names \cup {""}, derive : BOOLEAN]
PartialTables ==
    {[rules |-> r] : r \in UpTo(3, {DeleteRule, PostRule, LikeRule, Misspelled})}
Blocks ==
    {<<>>, [buffer |-> -1], [workers |-> -1, buffer |-> 1], [workers |-> 3, policy |-> "block"],
     [max_attempts |-> -1, retry_base |-> -1, block_timeout |-> -1], [bufer |-> 1]}
RouteFiles ==
    {[routes |-> [x \in {n} |-> b]] : n \in Names, b \in Blocks}
      \cup {[routes |-> [archive |-> b], fallback |-> "archive"] : b \in Blocks}
LimitFiles ==
    {[x \in {k} |-> n] : k \in DOMAIN DefaultLimits, n \in {-1, 0, 1}}
      \cup {[threshold |-> 1]}

AllFiles == <<{<<>>}, PartialTables, RouteFiles, LimitFiles, FullTables>>
=============================================================================
