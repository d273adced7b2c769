---------------------------- MODULE MCReadCampaign --------------------------
(* Small instances of ReadCampaign.                                        *)
EXTENDS ReadCampaign

CONSTANTS neo4j, memgraph

TwoDatabases   == {neo4j, memgraph}
OneDatabase    == {neo4j}
NoneLocal      == {}

\* What run_final_campaign is called with.
TheOne   == {<<neo4j>>}
AnyOrder == {<<neo4j, memgraph>>, <<memgraph>>, <<neo4j>>}
=============================================================================
