------------------------------ MODULE MCPrepare -----------------------------
(* Small instances of Prepare.                                             *)
EXTENDS Prepare

CONSTANTS u1, u2, u3, v1, v2, v3

AllEngines == {"cypher", "falkordb", "arangodb"}
Users      == <<u1, u2, u3>>
Votes      == <<v1, v2, v3>>
\* v1 and v2 are mutual, v3 shares its source with v1.
VoteSource == [v \in {v1, v2, v3} |-> IF v = v2 THEN u2 ELSE u1]
VoteTarget == [v \in {v1, v2, v3} |-> CASE v = v1 -> u2 [] v = v2 -> u1 [] v = v3 -> u3]
=============================================================================
