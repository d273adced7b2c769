-------------------------- MODULE MCPostValidation --------------------------
(***************************************************************************)
(* Small instances of PostValidation.                                      *)
(***************************************************************************)
EXTENDS PostValidation

CONSTANTS cognodb, neo4j, falkordb

MCDatabases == {cognodb, neo4j, falkordb}
MCLocal     == {neo4j, falkordb}
MCOrder     == <<cognodb, neo4j, falkordb>>
=============================================================================
