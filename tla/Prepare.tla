------------------------------- MODULE Prepare ------------------------------
(***************************************************************************)
(* prepare (graphbench/workflows.py) and preflight (finalization.py) on    *)
(* one database, with the three families of adapters: how the graph is     *)
(* reset, its indexes rebuilt, its rows loaded in batches and the result   *)
(* verified.  A statement may fail before or after the server has done it, *)
(* the process may be killed in any statement, and the next command starts *)
(* on what that left.  The servers are external: a statement that returned *)
(* is done, and a process that is gone has no statement under way.         *)
(***************************************************************************)
EXTENDS Integers, Sequences, FiniteSets

CONSTANTS
    NodeRows,   \* processed/nodes.csv: the ids, in order
    RelRows,    \* processed/relationships.csv: the rows' names, in order
    Source,     \* Source[r], Target[r]: the ends of relationship r
    Target,
    Size,       \* adapter.batch_size
    Engines     \* the adapters: "cypher", "falkordb", "arangodb"

Node == {NodeRows[i] : i \in 1..Len(NodeRows)}
Rel  == {RelRows[i] : i \in 1..Len(RelRows)}

Distinct(s) == \A i, j \in 1..Len(s) : s[i] = s[j] => i = j

ASSUME RowsAssumption ==
    /\ NodeRows \in Seq(Node) /\ Distinct(NodeRows)
    /\ RelRows \in Seq(Rel) /\ Distinct(RelRows)
    /\ Source \in [Rel -> Node] /\ Target \in [Rel -> Node]
ASSUME SizeAssumption == Size \in Nat \ {0}
ASSUME EnginesAssumption == Engines \subseteq {"cypher", "falkordb", "arangodb"}

VARIABLES
    engine,     \* which adapter
    faults,     \* whether statements fail and the process is killed, in this behaviour
    command,    \* what was called last
    pc,         \* the next statement; "off": no command is running
    verdict,    \* how it ended
    nodes,      \* the User nodes: <<n, 1>>, and <<n, 2>> for a second one with this id
    rels,       \* the relationships, likewise
    index,      \* index[p]: a restored definition may be without contents
    next,       \* rows loaded so far
    loaded,     \* nodes loaded, once that is over
    errors      \* the LoadResults hold errors

setting == <<engine, faults>>
graph   == <<nodes, rels, index>>
vars    == <<setting, command, pc, verdict, graph, next, loaded, errors>>

Property == {"id", "bucket"}

\* What earlier commands may have left: a part of the canonical graph, where the
\* cypher engines have no relationship without its ends.
Init ==
    /\ engine \in Engines /\ faults \in BOOLEAN
    /\ command = "none" /\ pc = "off" /\ verdict = "none"
    /\ nodes \in SUBSET (Node \X {1}) /\ rels \in SUBSET (Rel \X {1})
    /\ engine # "arangodb" =>
         \A r \in Rel : <<r, 1>> \in rels => {<<Source[r], 1>>, <<Target[r], 1>>} \subseteq nodes
    /\ index \in [Property -> {"absent", "live", "stale"}]
    /\ \A p \in Property : index[p] = "stale" => engine = "falkordb"
    /\ next = 0 /\ loaded = 0 /\ errors = FALSE

-----------------------------------------------------------------------------
(* What the statements do to the graph.                                    *)

Copies(x, S) == {c \in 1..2 : <<x, c>> \in S}

\* One more copy of each element of X; the model does not count beyond two.
Created(X, S) ==
    S \cup {<<x, 1>> : x \in X} \cup {<<x, 2>> : x \in {y \in X : Copies(y, S) # {}}}

\* A lookup by id goes through the index; one without contents finds nothing.
Found(n) == Copies(n, nodes) # {} /\ index["id"] # "stale"

\* MERGE (cypher), CREATE (falkordb); arangodb rejects a second _key.
NodesAfter(X) ==
    IF engine = "falkordb" THEN Created(X, nodes) ELSE nodes \cup (X \X {1})

\* The cypher engines MATCH both ends first and skip a row without saying so.
RelsAfter(X) ==
    IF engine = "arangodb" THEN Created(X, rels)
    ELSE Created({r \in X : Found(Source[r]) /\ Found(Target[r])}, rels)

\* batches: the next rows
Batch(rows) == {rows[i] : i \in {j \in 1..Len(rows) : next < j /\ j <= next + Size}}

\* What a reset that deletes in two statements has done after each of them;
\* DETACH DELETE is one.
Effect ==
    \/ pc = "resetRels" /\ rels' = {} /\ UNCHANGED <<nodes, index>>
       /\ engine # "cypher"
    \/ pc = "resetRels" /\ engine = "cypher" /\ nodes' = {} /\ rels' = {} /\ UNCHANGED index
    \/ pc = "resetNodes" /\ nodes' = {} /\ UNCHANGED <<rels, index>>
    \/ pc = "dropId" /\ index' = [index EXCEPT !["id"] = "absent"] /\ UNCHANGED <<nodes, rels>>
    \/ pc = "dropBucket" /\ index' = [index EXCEPT !["bucket"] = "absent"]
       /\ UNCHANGED <<nodes, rels>>
    \/ pc = "createId" /\ UNCHANGED <<nodes, rels>>
       /\ index' = [index EXCEPT !["id"] = IF @ = "absent" THEN "live" ELSE @]
    \/ pc = "createBucket" /\ UNCHANGED <<nodes, rels>>
       /\ index' = [index EXCEPT !["bucket"] = IF @ = "absent" THEN "live" ELSE @]
    \/ pc = "loadNodes" /\ nodes' = NodesAfter(Batch(NodeRows)) /\ UNCHANGED <<rels, index>>
    \/ pc = "loadRels" /\ rels' = RelsAfter(Batch(RelRows)) /\ UNCHANGED <<nodes, index>>

\* A statement whose answer is not seen: done, not done, or (arangodb's
\* insert_many takes each document by itself) done in part.
MaybeEffect ==
    \/ UNCHANGED graph
    \/ Effect
    \/ /\ engine = "arangodb" /\ pc = "loadNodes" /\ UNCHANGED <<rels, index>>
       /\ \E X \in SUBSET Batch(NodeRows) : nodes' = NodesAfter(X)
    \/ /\ engine = "arangodb" /\ pc = "loadRels" /\ UNCHANGED <<nodes, index>>
       /\ \E X \in SUBSET Batch(RelRows) : rels' = RelsAfter(X)

-----------------------------------------------------------------------------
(* The commands.                                                           *)

Start(c) ==
    /\ pc = "off"
    /\ command' = c /\ verdict' = "none"
    /\ pc' = IF c = "prepare" THEN "resetRels" ELSE "verify"
    /\ next' = 0 /\ loaded' = 0 /\ errors' = FALSE
    /\ UNCHANGED <<setting, graph>>

ResetRels ==
    /\ pc = "resetRels"
    /\ Effect
    /\ pc' = CASE engine = "cypher" -> "createId" [] OTHER -> "resetNodes"
    /\ UNCHANGED <<setting, command, verdict, next, loaded, errors>>

\* Mutant: restored indexes are taken for good ones.
KeepIndexes ==
    /\ pc = "resetNodes"
    /\ Effect
    /\ pc' = "createId"
    /\ UNCHANGED <<setting, command, verdict, next, loaded, errors>>

\* falkordb's create_schema drops what db.indexes() shows; if that call fails,
\* it drops nothing.
ResetNodes ==
    /\ pc = "resetNodes"
    /\ Effect
    /\ pc' \in IF engine # "falkordb" THEN {"createId"}
               ELSE IF faults THEN {"dropId", "createId"} ELSE {"dropId"}
    /\ UNCHANGED <<setting, command, verdict, next, loaded, errors>>

DropIndex(p, here, then) ==
    /\ pc = here
    /\ IF index[p] = "absent" THEN UNCHANGED graph ELSE Effect
    /\ pc' = then
    /\ UNCHANGED <<setting, command, verdict, next, loaded, errors>>

\* IF NOT EXISTS, but for falkordb, which refuses an attribute that is indexed.
CreateIndex(p, here, then) ==
    /\ pc = here
    /\ engine = "falkordb" => index[p] = "absent"
    /\ Effect
    /\ pc' = then
    /\ UNCHANGED <<setting, command, verdict, next, loaded, errors>>

\* Mutant: a batch counts as a full one.
LoadNodesBySize ==
    /\ pc = "loadNodes"
    /\ IF next < Len(NodeRows)
       THEN Effect /\ next' = next + Size /\ UNCHANGED <<pc, loaded>>
       ELSE pc' = "loadRels" /\ loaded' = next /\ next' = 0 /\ UNCHANGED graph
    /\ UNCHANGED <<setting, command, verdict, errors>>

LoadNodes ==
    /\ pc = "loadNodes"
    /\ IF next < Len(NodeRows)
       THEN /\ Effect
            /\ next' = IF next + Size < Len(NodeRows) THEN next + Size ELSE Len(NodeRows)
            /\ UNCHANGED <<pc, loaded>>
       ELSE /\ pc' = "loadRels" /\ loaded' = next /\ next' = 0
            /\ UNCHANGED graph
    /\ UNCHANGED <<setting, command, verdict, errors>>

\* The exception of a batch ends load_nodes with a LoadResult; the
\* relationships are loaded all the same.
LoadNodesFails ==
    /\ pc = "loadNodes" /\ faults
    /\ next < Len(NodeRows)
    /\ MaybeEffect
    /\ errors' = TRUE /\ loaded' = next /\ next' = 0
    /\ pc' = "loadRels"
    /\ UNCHANGED <<setting, command, verdict>>

LoadRels ==
    /\ pc = "loadRels"
    /\ IF next < Len(RelRows)
       THEN /\ Effect
            /\ next' = IF next + Size < Len(RelRows) THEN next + Size ELSE Len(RelRows)
            /\ UNCHANGED pc
       ELSE pc' = "checkLoad" /\ UNCHANGED <<next, graph>>
    /\ UNCHANGED <<setting, command, verdict, loaded, errors>>

LoadRelsFails ==
    /\ pc = "loadRels" /\ faults
    /\ next < Len(RelRows)
    /\ MaybeEffect
    /\ errors' = TRUE
    /\ pc' = "checkLoad"
    /\ UNCHANGED <<setting, command, verdict, next, loaded>>

Refuse == pc' = "off" /\ verdict' = "raised" /\ UNCHANGED <<graph, next, loaded, errors>>

CheckLoad ==
    /\ pc = "checkLoad"
    /\ IF ~ errors /\ loaded = Len(NodeRows) /\ next = Len(RelRows)
       THEN pc' = "verify" /\ UNCHANGED <<verdict, graph, next, loaded, errors>>
       ELSE Refuse
    /\ UNCHANGED <<setting, command>>

\* Mutant: a graph with enough in it will do.
AtLeastCounts ==
    Cardinality(nodes) >= Len(NodeRows)

\* verify_counts, compared with the processed files
CountsMatch ==
    Cardinality(nodes) = Len(NodeRows) /\ Cardinality(rels) = Len(RelRows)

\* An index without contents is listed like any other.  The cypher adapters
\* let pass what they can not observe.
IndexesListed(observed) ==
    IF observed THEN \A p \in Property : index[p] # "absent" ELSE engine # "arangodb"

VerifyCounts ==
    /\ pc = "verify"
    /\ \E observed \in IF faults THEN BOOLEAN ELSE {TRUE} :
         IF CountsMatch /\ IndexesListed(observed)
         THEN pc' = "validate" /\ UNCHANGED <<verdict, graph, next, loaded, errors>>
         ELSE Refuse
    /\ UNCHANGED <<setting, command>>

Canonical == nodes = Node \X {1} /\ rels = Rel \X {1}
Served    == \A p \in Property : index[p] # "stale"

\* validate_adapter asks for a sample of ids and starts and for every bucket: an
\* index without contents answers them all with none, and a graph that is not
\* the canonical one may go unnoticed.  Preflight adds one write by id, undone.
Validate ==
    /\ pc = "validate"
    /\ \/ /\ Served
          /\ pc' = "off" /\ verdict' = "ready"
          /\ UNCHANGED <<graph, next, loaded, errors>>
       \/ ~ (Canonical /\ Served) /\ Refuse
    /\ UNCHANGED <<setting, command>>

Statement == {"resetRels", "resetNodes", "dropId", "dropBucket", "createId", "createBucket",
              "loadNodes", "loadRels"}

AlreadyIndexed ==
    /\ engine = "falkordb"
    /\ \/ pc = "createId" /\ index["id"] # "absent"
       \/ pc = "createBucket" /\ index["bucket"] # "absent"

\* Any other exception goes through to the caller (for preflight, also a
\* container with other limits than the profile's).
Raise ==
    /\ pc # "off"
    /\ faults \/ AlreadyIndexed
    /\ pc \notin {"loadNodes", "loadRels", "checkLoad"}
    /\ pc' = "off" /\ verdict' = "raised"
    /\ MaybeEffect
    /\ UNCHANGED <<setting, command, next, loaded, errors>>

Kill ==
    /\ faults
    /\ pc # "off"
    /\ pc' = "off" /\ verdict' = "none"
    /\ MaybeEffect
    /\ UNCHANGED <<setting, command, next, loaded, errors>>

\* The container goes down and comes up again between commands: falkordb's
\* RDB file brings the definitions of the indexes back.
Restart ==
    /\ pc = "off"
    /\ engine = "falkordb"
    /\ index' = [p \in Property |-> IF index[p] = "live" THEN "stale" ELSE index[p]]
    /\ verdict' = "none"
    /\ UNCHANGED <<setting, command, pc, nodes, rels, next, loaded, errors>>

CommandStep ==
    \/ ResetRels \/ ResetNodes
    \/ DropIndex("id", "dropId", "dropBucket")
    \/ DropIndex("bucket", "dropBucket", "createId")
    \/ CreateIndex("id", "createId", "createBucket")
    \/ CreateIndex("bucket", "createBucket", "loadNodes")
    \/ LoadNodes \/ LoadNodesFails \/ LoadRels \/ LoadRelsFails
    \/ CheckLoad \/ VerifyCounts \/ Validate \/ Raise

Next ==
    \/ \E c \in {"prepare", "preflight"} : Start(c)
    \/ CommandStep
    \/ Kill
    \/ Restart

Spec == Init /\ [][Next]_vars

\* A command that is running goes on.
FairSpec == Spec /\ WF_vars(CommandStep)

-----------------------------------------------------------------------------
TypeOK ==
    /\ engine \in Engines /\ faults \in BOOLEAN /\ command \in {"none", "prepare", "preflight"}
    /\ pc \in Statement \cup {"off", "checkLoad", "verify", "validate"}
    /\ verdict \in {"none", "ready", "raised"}
    /\ nodes \subseteq Node \X (1..2) /\ rels \subseteq Rel \X (1..2)
    /\ index \in [Property -> {"absent", "live", "stale"}]
    /\ next \in Nat
    /\ pc = "loadNodes" => next <= Len(NodeRows)
    /\ pc \in {"loadRels", "checkLoad"} => next <= Len(RelRows)
    /\ loaded \in 0..Len(NodeRows) /\ errors \in BOOLEAN

\* A command that ends well, prepare or preflight, leaves exactly the canonical
\* graph behind indexes that are not empty, whatever was cut short before: the
\* fixtures only sample the graph, so it is the counts that have to tell.
ReadyMeansCanonical == verdict = "ready" => Canonical /\ Served

\* There is never a second node with an id or a relationship twice, so that a
\* batch sent again, or a load on what another left, can not make up in number
\* for what is missing.
NothingTwice == nodes \subseteq Node \X {1} /\ rels \subseteq Rel \X {1}

\* On any remains, restored indexes included, prepare ends with a database that
\* is ready, if no statement fails.
PrepareRepairs == ~faults /\ command = "prepare" /\ pc # "off" ~> verdict = "ready"
=============================================================================
