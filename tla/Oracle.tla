------------------------------- MODULE Oracle -------------------------------
(***************************************************************************)
(* Path counts: the canonical oracle (graphbench/oracle.py) and the hop    *)
(* queries of the three adapter families, over every multigraph that can   *)
(* be loaded edge by edge.  A path may visit a node again and may not use  *)
(* one relationship instance twice; two edges with the same ends are two   *)
(* instances.  The queries are modelled by what their language makes of    *)
(* them.                                                                   *)
(***************************************************************************)
EXTENDS Integers, Sequences, FiniteSets

CONSTANTS
    Nodes,      \* the users
    MaxEdges    \* bound: relationships loaded

VARIABLE edges  \* the rows of relationships.csv, in order

Edge == [source : Nodes, target : Nodes]

Relationship == 1..Len(edges)   \* relationship_id: the position in the file
Depth == 1..3                   \* one_hop, two_hop, three_hop

NoEdges == edges = <<>>

\* from_data_root: the next row of the file.
Load ==
    /\ Len(edges) < MaxEdges
    /\ \E e \in Edge : edges' = Append(edges, e)

\* What is counted by a loop that counts f[x] for every x.
Total(f) == Cardinality(UNION {{x} \X (1..f[x]) : x \in DOMAIN f})

-----------------------------------------------------------------------------
(* The oracle.                                                             *)

\* adjacency: the relationships that leave a node, with their targets.
Adjacency(n) == {<<i, edges[i].target>> : i \in {j \in Relationship : edges[j].source = n}}

\* Mutant: the third relationship is only compared with the second.
PathCountForgetful(n, depth) ==
    IF depth = 1 THEN Cardinality(Adjacency(n))
    ELSE Total([first \in Adjacency(n) |->
           LET seconds == {e \in Adjacency(first[2]) : e[1] # first[1]}
           IN  IF depth = 2 THEN Cardinality(seconds)
               ELSE Total([second \in seconds |->
                      Cardinality({e \in Adjacency(second[2]) : e[1] # second[1]})])])

PathCount(n, depth) ==
    IF depth = 1 THEN Cardinality(Adjacency(n))
    ELSE Total([first \in Adjacency(n) |->
           LET seconds == {e \in Adjacency(first[2]) : e[1] # first[1]}
           IN  IF depth = 2 THEN Cardinality(seconds)
               ELSE Total([second \in seconds |->
                      Cardinality({e \in Adjacency(second[2]) : e[1] \notin {first[1], second[1]}})])])

-----------------------------------------------------------------------------
(* The adapters.                                                           *)

Connected(n, path) ==
    /\ edges[path[1]].source = n
    /\ \A k \in 1..(Len(path) - 1) : edges[path[k]].target = edges[path[k + 1]].source

\* Cypher: one fixed pattern, matched by assignments of different
\* relationships to its arrows.
CypherHop(n, depth) ==
    Cardinality({path \in [1..depth -> Relationship] :
                    /\ Connected(n, path)
                    /\ \A j, k \in 1..depth : j # k => path[j] # path[k]})

\* FalkorDB: a MATCH for each arrow, with the uniqueness that separate
\* clauses do not have stated as predicates on the identities.
FalkorRows1(n) == {<<r1>> : r1 \in {r \in Relationship : edges[r].source = n}}
FalkorRows2(n) ==
    {Append(p[1], p[2]) : p \in
        {p \in FalkorRows1(n) \X Relationship :
            /\ edges[p[2]].source = edges[p[1][1]].target
            /\ p[2] # p[1][1]}}

\* Mutant: a predicate is missing, as if the clauses were one pattern.
FalkorRows3Unstated(n) ==
    {Append(p[1], p[2]) : p \in
        {p \in FalkorRows2(n) \X Relationship :
            /\ edges[p[2]].source = edges[p[1][2]].target
            /\ p[2] # p[1][2]}}

FalkorRows3(n) ==
    {Append(p[1], p[2]) : p \in
        {p \in FalkorRows2(n) \X Relationship :
            /\ edges[p[2]].source = edges[p[1][2]].target
            /\ p[2] # p[1][1] /\ p[2] # p[1][2]}}

FalkorHop(n, depth) ==
    Cardinality(CASE depth = 1 -> FalkorRows1(n)
                  [] depth = 2 -> FalkorRows2(n)
                  [] depth = 3 -> FalkorRows3(n))

\* ArangoDB: a traversal outwards, uniqueVertices "none" and uniqueEdges
\* "path": an edge is not followed when the path has it already.
Extend(paths) ==
    UNION {{Append(path, r) : r \in {e \in Relationship :
                                        /\ edges[e].source = edges[path[Len(path)]].target
                                        /\ \A k \in 1..Len(path) : path[k] # e}} :
           path \in paths}

ArangoHop(n, depth) ==
    LET one == {<<r>> : r \in {e \in Relationship : edges[e].source = n}}
    IN  Cardinality(CASE depth = 1 -> one
                      [] depth = 2 -> Extend(one)
                      [] depth = 3 -> Extend(Extend(one)))

-----------------------------------------------------------------------------
(* Properties                                                              *)

\* docs/QUERY_EQUIVALENCE.md: every adapter's query counts what the oracle
\* counts, whatever loops, duplicate edges and cycles the graph has: otherwise
\* a database would be measured, and rejected, on another question.
QueriesAgree ==
    \A n \in Nodes, d \in Depth :
        {CypherHop(n, d), FalkorHop(n, d), ArangoHop(n, d)} = {PathCount(n, d)}

\* A reference that walks no path: the walks of d steps, less those that use
\* a relationship twice.  In two steps that is going round a loop again; in
\* three, a loop in the first or the last two steps (three times the same one
\* is in both), or an edge and its way back and the edge again.
Out(n)      == Cardinality({r \in Relationship : edges[r].source = n})
Between(n, m) == Cardinality({r \in Relationship : edges[r] = [source |-> n, target |-> m]})
Walks(n, d) ==
    CASE d = 1 -> Out(n)
      [] d = 2 -> Total([m \in Nodes |-> Between(n, m) * Out(m)])
      [] d = 3 -> Total([m \in Nodes |->
                     Between(n, m) * Total([k \in Nodes |-> Between(m, k) * Out(k)])])
Repeating(n, d) ==
    CASE d = 1 -> 0
      [] d = 2 -> Between(n, n)
      [] d = 3 -> Between(n, n) * Out(n)
                    + Total([m \in Nodes |-> Between(n, m) * Between(m, m)])
                    + Total([m \in Nodes |-> Between(n, m) * Between(m, n)])
                    - 2 * Between(n, n)

\* The oracle counts the walks that use no relationship twice: its inline
\* exclusion of the first and second relationship misses none and drops none.
CountsAreOfWalks == \A n \in Nodes, d \in Depth : PathCount(n, d) = Walks(n, d) - Repeating(n, d)
=============================================================================
