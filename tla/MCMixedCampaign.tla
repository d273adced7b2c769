--------------------------- MODULE MCMixedCampaign --------------------------
(* Small instances of MixedCampaign.                                       *)
EXTENDS MixedCampaignInvariant

CONSTANTS neo4j, falkordb

OneDatabase  == {falkordb}
TwoDatabases == {neo4j, falkordb}

\* --database arguments
TheOne       == {<<falkordb>>}
BothOrOne    == {<<neo4j, falkordb>>, <<falkordb>>}
BothOrFirst  == {<<neo4j, falkordb>>, <<neo4j>>}
=============================================================================
