-------------------------- MODULE MCIntegrityAudit --------------------------
(***************************************************************************)
(* Small instances of IntegrityAudit.                                      *)
(***************************************************************************)
EXTENDS IntegrityAudit

CONSTANT neo4j

OneDatabase == {neo4j}
=============================================================================
