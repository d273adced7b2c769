---------------------------- MODULE PrepareProofs ----------------------------
(***************************************************************************)
(* Proofs about Prepare: for files of any length, any batch size, and any  *)
(* number of failed statements, killed processes and restarted containers. *)
(***************************************************************************)
EXTENDS Prepare, FiniteSetTheorems, TLAPS

\* The first k rows.
First(list, k) == {list[i] : i \in {j \in 1..Len(list) : j <= k}}

\* Where the relationships have been deleted, and where the nodes have.
WithoutRels  == {"resetNodes", "dropId", "dropBucket", "createId", "createBucket", "loadNodes"}
WithoutNodes == {"dropId", "dropBucket", "createId", "createBucket"}

\* A load starts on what the reset has deleted: it finds the rows of the
\* batches before, and none of those to come.  Only falkordb's CREATE would
\* make a second node of an id.
LoadedSoFar ==
    /\ pc \in {"resetRels", "resetNodes"} \cup WithoutNodes => next = 0
    /\ pc \in WithoutRels => rels = {}
    /\ pc = "loadRels" => rels \subseteq First(RelRows, next) \X {1}
    /\ engine = "falkordb" =>
           /\ pc \in WithoutNodes => nodes = {}
           /\ pc = "loadNodes" => nodes \subseteq First(NodeRows, next) \X {1}

\* What is validated has been counted.
Counted == pc = "validate" => CountsMatch

\* A command has no verdict while it runs.
NoVerdictYet == pc # "off" => verdict = "none"

\* The inductive invariant.
IInv ==
    /\ TypeOK /\ NothingTwice /\ LoadedSoFar /\ Counted
    /\ NoVerdictYet /\ ReadyMeansCanonical

-----------------------------------------------------------------------------
(* Lemmas about rows.                                                      *)

LEMMA SomeRows ==
    ASSUME NEW list, Len(list) \in Nat, NEW k \in Nat
    PROVE  /\ First(list, 0) = {}
           /\ First(list, k) \subseteq {list[i] : i \in 1..Len(list)}
           /\ \A m \in Nat : k <= m => First(list, k) \subseteq First(list, m)
           /\ \A m \in Nat : First(list, m) \subseteq First(list, Len(list))
BY DEF First

\* A batch, or a part of it, on the rows before it creates nothing twice.
LEMMA CreatedInOrder ==
    ASSUME NEW list, Len(list) \in Nat, Distinct(list), next \in Nat, Size \in Nat,
           NEW S, S \subseteq First(list, next) \X {1},
           NEW X, X \subseteq Batch(list)
    PROVE  Created(X, S) \subseteq First(list, next + Size) \X {1}
<1>1. \A y \in X : Copies(y, S) = {}
  <2> SUFFICES ASSUME NEW y \in X, NEW c, <<y, c>> \in S PROVE FALSE
    BY DEF Copies
  <2>1. PICK i \in 1..Len(list) : y = list[i] /\ next < i
    BY DEF Batch
  <2>2. y \in First(list, next)
    OBVIOUS
  <2>3. PICK j \in 1..Len(list) : y = list[j] /\ j <= next
    BY <2>2 DEF First
  <2>4. i = j
    BY <2>1, <2>3 DEF Distinct
  <2>5. i \in Nat /\ j \in Nat
    OBVIOUS
  <2> QED
    BY <2>1, <2>3, <2>4, <2>5
<1>2. Created(X, S) = S \cup {<<x, 1>> : x \in X}
  <2>1. {y \in X : Copies(y, S) # {}} = {}
    BY <1>1
  <2> QED
    BY <2>1 DEF Created
<1>3. X \subseteq First(list, next + Size)
  <2>1. Batch(list) \subseteq First(list, next + Size)
    BY DEF Batch, First
  <2> QED
    BY <2>1
<1>4. First(list, next) \subseteq First(list, next + Size)
  BY SomeRows
<1> QED
  BY <1>2, <1>3, <1>4

\* The rows of a file are as many as the file is long.
LEMMA AsManyAsRows ==
    ASSUME NEW T, NEW list \in Seq(T), Distinct(list)
    PROVE  /\ IsFiniteSet({list[i] : i \in 1..Len(list)} \X {1})
           /\ Cardinality({list[i] : i \in 1..Len(list)} \X {1}) = Len(list)
<1> DEFINE R == {list[i] : i \in 1..Len(list)} \X {1}
           f == [i \in 1..Len(list) |-> <<list[i], 1>>]
<1>1. f \in [1..Len(list) -> R]
  OBVIOUS
<1>2. \A r \in R : \E i \in 1..Len(list) : f[i] = r
  OBVIOUS
<1>3. \A i, j \in 1..Len(list) : f[i] = f[j] => i = j
  BY DEF Distinct
<1>4. f \in Surjection(1..Len(list), R)
  BY <1>1, <1>2 DEF Surjection
<1>5. f \in Injection(1..Len(list), R)
  BY <1>1, <1>3 DEF Injection, IsInjective
<1>6. Len(list) \in Nat
  OBVIOUS
<1>7. IsFiniteSet(1..Len(list)) /\ Cardinality(1..Len(list)) = Len(list)
  BY <1>6, FS_Interval
<1> HIDE DEF R, f
<1>8. IsFiniteSet(R) /\ Cardinality(R) = Len(list)
  BY <1>4, <1>5, <1>7, FS_Surjection
<1> QED
  BY <1>8 DEF R

\* A graph in which nothing is twice and the counts are right is the canonical
\* one: the fixtures need not tell.
LEMMA CountedIsCanonical ==
    ASSUME NothingTwice, CountsMatch
    PROVE  Canonical
<1>1. /\ IsFiniteSet(Node \X {1}) /\ Cardinality(Node \X {1}) = Len(NodeRows)
      /\ IsFiniteSet(Rel \X {1}) /\ Cardinality(Rel \X {1}) = Len(RelRows)
  <2>1. NodeRows \in Seq(Node) /\ Distinct(NodeRows) /\ RelRows \in Seq(Rel) /\ Distinct(RelRows)
    BY RowsAssumption
  <2>2. IsFiniteSet(Node \X {1}) /\ Cardinality(Node \X {1}) = Len(NodeRows)
    BY <2>1, AsManyAsRows DEF Node
  <2>3. IsFiniteSet(Rel \X {1}) /\ Cardinality(Rel \X {1}) = Len(RelRows)
    BY <2>1, AsManyAsRows DEF Rel
  <2> QED
    BY <2>2, <2>3
<1>2. nodes = Node \X {1}
  BY <1>1, FS_Subset DEF NothingTwice, CountsMatch
<1>3. rels = Rel \X {1}
  BY <1>1, FS_Subset DEF NothingTwice, CountsMatch
<1> QED
  BY <1>2, <1>3 DEF Canonical

-----------------------------------------------------------------------------
(* What the statements keep.                                               *)

\* The assumptions on the rows, as the lemmas need them.
LEMMA Rows ==
    /\ Len(NodeRows) \in Nat /\ Len(RelRows) \in Nat
    /\ Distinct(NodeRows) /\ Distinct(RelRows) /\ Size \in Nat
    /\ Batch(NodeRows) \subseteq Node /\ Batch(RelRows) \subseteq Rel
BY RowsAssumption, SizeAssumption DEF Batch, Node, Rel

\* A batch of nodes, or a part of it.
LEMMA SomeNodes ==
    ASSUME TypeOK, NothingTwice, LoadedSoFar, pc = "loadNodes",
           NEW X, X \subseteq Batch(NodeRows)
    PROVE  /\ NodesAfter(X) \subseteq Node \X {1}
           /\ engine = "falkordb" => NodesAfter(X) \subseteq First(NodeRows, next + Size) \X {1}
<1>1. CASE engine = "falkordb"
  <2>1. NodesAfter(X) \subseteq First(NodeRows, next + Size) \X {1}
    BY <1>1, CreatedInOrder, Rows DEF NodesAfter, LoadedSoFar, TypeOK
  <2>2. First(NodeRows, next + Size) \subseteq Node
    BY Rows, SomeRows, SizeAssumption DEF Node, TypeOK
  <2> QED
    BY <2>1, <2>2
<1>2. CASE engine # "falkordb"
  <2>1. X \subseteq Node
    BY Rows
  <2> QED
    BY <1>2, <2>1 DEF NodesAfter, NothingTwice
<1> QED
  BY <1>1, <1>2

\* A batch of relationships, or a part of it.
LEMMA SomeRels ==
    ASSUME TypeOK, LoadedSoFar, pc = "loadRels",
           NEW X, X \subseteq Batch(RelRows)
    PROVE  RelsAfter(X) \subseteq First(RelRows, next + Size) \X {1}
<1>1. PICK Y : Y \subseteq X /\ RelsAfter(X) = Created(Y, rels)
  <2> DEFINE Y == IF engine = "arangodb" THEN X
                  ELSE {r \in X : Found(Source[r]) /\ Found(Target[r])}
  <2>1. Y \subseteq X /\ RelsAfter(X) = Created(Y, rels)
    BY DEF RelsAfter
  <2> QED
    BY <2>1
<1> QED
  BY <1>1, CreatedInOrder, Rows DEF LoadedSoFar, TypeOK

\* No statement makes anything twice, seen through or not.
LEMMA StatementKeeps ==
    ASSUME TypeOK, NothingTwice, LoadedSoFar, Effect \/ MaybeEffect
    PROVE  NothingTwice' /\ index' \in [Property -> {"absent", "live", "stale"}]
<1>1. CASE UNCHANGED graph
  BY <1>1 DEF graph, NothingTwice, TypeOK
<1>2. CASE /\ pc = "loadNodes" /\ UNCHANGED <<rels, index>>
           /\ \E X \in SUBSET Batch(NodeRows) : nodes' = NodesAfter(X)
  BY <1>2, SomeNodes DEF NothingTwice, TypeOK
<1>3. CASE /\ pc = "loadRels" /\ UNCHANGED <<nodes, index>>
           /\ \E X \in SUBSET Batch(RelRows) : rels' = RelsAfter(X)
  <2>1. First(RelRows, next + Size) \subseteq Rel
    BY Rows, SomeRows, SizeAssumption DEF Rel, TypeOK
  <2> QED
    BY <1>3, <2>1, SomeRels DEF NothingTwice, TypeOK
<1>4. CASE Effect /\ pc \notin {"loadNodes", "loadRels"}
  <2>1. nodes' \in {nodes, {}} /\ rels' \in {rels, {}}
    BY <1>4 DEF Effect
  <2>2. index' \in [Property -> {"absent", "live", "stale"}]
    BY <1>4 DEF Effect, TypeOK, Property
  <2> QED
    BY <2>1, <2>2 DEF NothingTwice
<1>5. CASE Effect /\ pc \in {"loadNodes", "loadRels"}
  BY <1>2, <1>3, <1>5 DEF Effect
<1> QED
  BY <1>1, <1>2, <1>3, <1>4, <1>5 DEF MaybeEffect

-----------------------------------------------------------------------------
(* The invariant.                                                          *)

LEMMA InitInv == Init => IInv
<1> SUFFICES ASSUME Init PROVE IInv
  OBVIOUS
<1>1. NothingTwice
  BY DEF Init, NothingTwice
<1>2. TypeOK
  <2>1. 0 \in 0..Len(NodeRows)
    BY Rows
  <2>2. nodes \subseteq Node \X (1..2) /\ rels \subseteq Rel \X (1..2)
    BY <1>1 DEF NothingTwice
  <2> QED
    BY <2>1, <2>2 DEF Init, TypeOK, Statement
<1> QED
  BY <1>1, <1>2 DEF Init, IInv, LoadedSoFar, Counted, NoVerdictYet, ReadyMeansCanonical,
     WithoutRels, WithoutNodes

\* A step executes the statement it is at, wholly, in part or not at all, and
\* a restart touches the indexes alone.
LEMMA StepOnGraph ==
    ASSUME Next
    PROVE  /\ UNCHANGED setting
           /\ UNCHANGED graph \/ Effect \/ MaybeEffect \/ Restart
<1>1. CASE \E c \in {"prepare", "preflight"} : Start(c)
  BY <1>1 DEF Start
<1>2. CASE ResetRels \/ ResetNodes \/ LoadNodes \/ LoadNodesFails \/ LoadRels \/ LoadRelsFails
  BY <1>2 DEF ResetRels, ResetNodes, LoadNodes, LoadNodesFails, LoadRels, LoadRelsFails, graph
<1>3. CASE DropIndex("id", "dropId", "dropBucket") \/ DropIndex("bucket", "dropBucket", "createId")
  BY <1>3 DEF DropIndex
<1>4. CASE \/ CreateIndex("id", "createId", "createBucket")
           \/ CreateIndex("bucket", "createBucket", "loadNodes")
  BY <1>4 DEF CreateIndex
<1>5. CASE CheckLoad \/ VerifyCounts \/ Validate
  BY <1>5 DEF CheckLoad, VerifyCounts, Validate, Refuse
<1>6. CASE Raise \/ Kill \/ Restart
  BY <1>6 DEF Raise, Kill, Restart
<1> QED
  BY <1>1, <1>2, <1>3, <1>4, <1>5, <1>6 DEF Next, CommandStep

LEMMA TwiceStep ==
    ASSUME TypeOK, NothingTwice, LoadedSoFar, Next
    PROVE  NothingTwice' /\ index' \in [Property -> {"absent", "live", "stale"}]
<1>1. CASE UNCHANGED graph \/ Effect \/ MaybeEffect
  BY <1>1, StatementKeeps DEF MaybeEffect
<1>2. CASE Restart
  BY <1>2 DEF Restart, NothingTwice, TypeOK
<1> QED
  BY <1>1, <1>2, StepOnGraph

LEMMA TypeStep ==
    ASSUME TypeOK, NothingTwice, LoadedSoFar, Next
    PROVE  TypeOK'
<1>1. /\ nodes' \subseteq Node \X (1..2) /\ rels' \subseteq Rel \X (1..2)
      /\ index' \in [Property -> {"absent", "live", "stale"}]
      /\ engine' \in Engines /\ faults' \in BOOLEAN
  BY TwiceStep, StepOnGraph DEF NothingTwice, TypeOK, setting
<1>2. /\ pc' \in Statement \cup {"off", "checkLoad", "verify", "validate"}
      /\ verdict' \in {"none", "ready", "raised"}
      /\ command' \in {"none", "prepare", "preflight"}
      /\ next' \in Nat /\ loaded' \in 0..Len(NodeRows) /\ errors' \in BOOLEAN
      /\ pc' = "loadNodes" => next' <= Len(NodeRows)
      /\ pc' \in {"loadRels", "checkLoad"} => next' <= Len(RelRows)
  <2> USE Rows, SizeAssumption DEF TypeOK, Statement
  <2>1. CASE \E c \in {"prepare", "preflight"} : Start(c)
    <3> PICK c \in {"prepare", "preflight"} : Start(c)
      BY <2>1
    <3>1. pc' \in {"resetRels", "verify"} /\ verdict' = "none" /\ command' = c
      BY DEF Start
    <3>2. next' = 0 /\ loaded' = 0 /\ errors' = FALSE
      BY DEF Start
    <3>3. 0 \in Nat /\ 0 \in 0..Len(NodeRows)
      BY Rows
    <3>4. command' \in {"none", "prepare", "preflight"}
      BY <3>1
    <3> QED
      BY ONLY <3>1, <3>2, <3>3, <3>4 DEF Statement
  <2>2. CASE ResetRels
    BY <2>2 DEF ResetRels
  <2>3. CASE ResetNodes
    BY <2>3 DEF ResetNodes
  <2>4. CASE DropIndex("id", "dropId", "dropBucket") \/ DropIndex("bucket", "dropBucket", "createId")
    BY <2>4 DEF DropIndex
  <2>5. CASE CreateIndex("id", "createId", "createBucket")
    BY <2>5 DEF CreateIndex
  <2>6. CASE CreateIndex("bucket", "createBucket", "loadNodes")
    <3>1. next' = 0
      BY <2>6 DEF CreateIndex, LoadedSoFar, WithoutNodes
    <3> QED
      BY <2>6, <3>1 DEF CreateIndex
  <2>7. CASE LoadNodes
    BY <2>7 DEF LoadNodes
  <2>8. CASE LoadNodesFails
    BY <2>8 DEF LoadNodesFails
  <2>9. CASE LoadRels
    BY <2>9 DEF LoadRels
  <2>10. CASE LoadRelsFails
    BY <2>10 DEF LoadRelsFails
  <2>11. CASE CheckLoad
    BY <2>11 DEF CheckLoad, Refuse
  <2>12. CASE VerifyCounts
    BY <2>12 DEF VerifyCounts, Refuse
  <2>13. CASE Validate
    BY <2>13 DEF Validate, Refuse
  <2>14. CASE Raise \/ Kill
    BY <2>14 DEF Raise, Kill
  <2>15. CASE Restart
    BY <2>15 DEF Restart
  <2> QED
    BY <2>1, <2>2, <2>3, <2>4, <2>5, <2>6, <2>7, <2>8, <2>9, <2>10, <2>11, <2>12, <2>13, <2>14,
       <2>15 DEF Next, CommandStep
<1> QED
  BY <1>1, <1>2 DEF TypeOK

LEMMA LoadedStep ==
    ASSUME TypeOK, NothingTwice, LoadedSoFar, Next
    PROVE  LoadedSoFar'
<1> USE DEF WithoutRels, WithoutNodes
<1>1. CASE \E c \in {"prepare", "preflight"} : Start(c)
  BY <1>1 DEF Start, LoadedSoFar
<1>2. CASE ResetRels
  <2>1. rels' = {} /\ pc' \in {"createId", "resetNodes"} /\ next' = next
    BY <1>2 DEF ResetRels, Effect
  <2>2. pc' = "createId" => engine' # "falkordb"
    BY <1>2 DEF ResetRels, setting
  <2>3. next = 0
    BY <1>2 DEF ResetRels, LoadedSoFar
  <2> QED
    BY <2>1, <2>2, <2>3 DEF LoadedSoFar
<1>3. CASE ResetNodes
  <2>1. nodes' = {} /\ rels' = rels /\ next' = next
    BY <1>3 DEF ResetNodes, Effect
  <2>2. pc = "resetNodes" /\ pc' \in {"dropId", "createId"}
    BY <1>3 DEF ResetNodes
  <2> QED
    BY <2>1, <2>2 DEF LoadedSoFar
<1>4. CASE DropIndex("id", "dropId", "dropBucket") \/ DropIndex("bucket", "dropBucket", "createId")
  <2>1. nodes' = nodes /\ rels' = rels /\ next' = next /\ engine' = engine
    BY <1>4 DEF DropIndex, Effect, graph, setting
  <2>2. pc \in {"dropId", "dropBucket"} /\ pc' \in {"dropBucket", "createId"}
    BY <1>4 DEF DropIndex
  <2> QED
    BY <2>1, <2>2 DEF LoadedSoFar
<1>5. CASE \/ CreateIndex("id", "createId", "createBucket")
           \/ CreateIndex("bucket", "createBucket", "loadNodes")
  <2>1. nodes' = nodes /\ rels' = rels /\ next' = next /\ engine' = engine
    BY <1>5 DEF CreateIndex, Effect, setting
  <2>2. pc \in {"createId", "createBucket"} /\ pc' \in {"createBucket", "loadNodes"}
    BY <1>5 DEF CreateIndex
  <2> QED
    BY <2>1, <2>2 DEF LoadedSoFar
<1>6. CASE LoadNodes /\ next < Len(NodeRows)
  <2>1. rels' = rels /\ nodes' = NodesAfter(Batch(NodeRows)) /\ pc = "loadNodes" /\ pc' = pc
    BY <1>6 DEF LoadNodes, Effect
  <2>2. engine' = engine
    BY <1>6 DEF LoadNodes, setting
  <2>3. engine = "falkordb" => nodes' \subseteq First(NodeRows, next + Size) \X {1}
    BY <2>1, SomeNodes
  <2>4. First(NodeRows, next + Size) \subseteq First(NodeRows, next')
    BY <1>6, Rows, SizeAssumption, SomeRows DEF LoadNodes, TypeOK
  <2> QED
    BY <2>1, <2>2, <2>3, <2>4 DEF LoadedSoFar
<1>7. CASE (LoadNodes /\ ~ (next < Len(NodeRows))) \/ LoadNodesFails
  <2>1. pc = "loadNodes" /\ pc' = "loadRels"
    BY <1>7 DEF LoadNodes, LoadNodesFails
  <2>2. rels' = rels
    BY <1>7, <2>1 DEF LoadNodes, LoadNodesFails, MaybeEffect, Effect, graph
  <2> QED
    BY <2>1, <2>2 DEF LoadedSoFar
<1>8. CASE LoadRels /\ next < Len(RelRows)
  <2>1. rels' = RelsAfter(Batch(RelRows)) /\ pc = "loadRels" /\ pc' = pc
    BY <1>8 DEF LoadRels, Effect
  <2>2. rels' \subseteq First(RelRows, next + Size) \X {1}
    BY <2>1, SomeRels
  <2>3. First(RelRows, next + Size) \subseteq First(RelRows, next')
    BY <1>8, Rows, SizeAssumption, SomeRows DEF LoadRels, TypeOK
  <2> QED
    BY <2>1, <2>2, <2>3 DEF LoadedSoFar
<1>9. CASE \/ LoadRels /\ ~ (next < Len(RelRows))
           \/ LoadRelsFails \/ CheckLoad \/ VerifyCounts \/ Validate \/ Raise \/ Kill \/ Restart
  <2>1. pc' \in {"off", "checkLoad", "verify", "validate"}
    BY <1>9 DEF LoadRels, LoadRelsFails, CheckLoad, VerifyCounts, Validate, Raise, Kill, Restart, Refuse
  <2> QED
    BY <2>1 DEF LoadedSoFar
<1> QED
  BY <1>1, <1>2, <1>3, <1>4, <1>5, <1>6, <1>7, <1>8, <1>9 DEF Next, CommandStep

LEMMA CountedStep ==
    ASSUME Next
    PROVE  Counted'
<1>1. CASE VerifyCounts
  BY <1>1 DEF VerifyCounts, Refuse, Counted, CountsMatch, graph
<1>2. CASE ~VerifyCounts
  <2>1. pc' # "validate"
    <3>1. CASE \E c \in {"prepare", "preflight"} : Start(c)
      BY <3>1 DEF Start
    <3>2. CASE ResetRels \/ ResetNodes \/ LoadNodesFails \/ LoadRelsFails \/ CheckLoad \/ Validate
               \/ Raise \/ Kill \/ Restart
      BY <3>2 DEF ResetRels, ResetNodes, LoadNodesFails, LoadRelsFails, CheckLoad, Validate, Raise,
         Kill, Restart, Refuse
    <3>3. CASE \/ DropIndex("id", "dropId", "dropBucket")
               \/ DropIndex("bucket", "dropBucket", "createId")
               \/ CreateIndex("id", "createId", "createBucket")
               \/ CreateIndex("bucket", "createBucket", "loadNodes")
      BY <3>3 DEF DropIndex, CreateIndex
    <3>4. CASE LoadNodes \/ LoadRels
      BY <3>4 DEF LoadNodes, LoadRels
    <3> QED
      BY <1>2, <3>1, <3>2, <3>3, <3>4 DEF Next, CommandStep
  <2> QED
    BY <2>1 DEF Counted
<1> QED
  BY <1>1, <1>2

LEMMA VerdictStep ==
    ASSUME NoVerdictYet, Next
    PROVE  NoVerdictYet'
<1> SUFFICES ASSUME pc' # "off" PROVE verdict' = "none"
  BY DEF NoVerdictYet
<1>1. CASE (\E c \in {"prepare", "preflight"} : Start(c)) \/ Restart \/ Kill
  BY <1>1 DEF Start, Restart, Kill
<1>2. CASE CommandStep
  <2>1. pc # "off"
    BY <1>2 DEF CommandStep, ResetRels, ResetNodes, DropIndex, CreateIndex, LoadNodes,
       LoadNodesFails, LoadRels, LoadRelsFails, CheckLoad, VerifyCounts, Validate, Raise
  <2>2. verdict' = verdict
    BY <1>2 DEF CommandStep, ResetRels, ResetNodes, DropIndex, CreateIndex, LoadNodes,
       LoadNodesFails, LoadRels, LoadRelsFails, CheckLoad, VerifyCounts, Validate, Raise, Refuse
  <2> QED
    BY <2>1, <2>2 DEF NoVerdictYet
<1> QED
  BY <1>1, <1>2 DEF Next

\* Only a validation that passes makes a database ready, and what touches the
\* graph or its indexes after it takes the verdict back.
LEMMA ReadyStep ==
    ASSUME IInv, Next
    PROVE  ReadyMeansCanonical'
<1> SUFFICES ASSUME verdict' = "ready" PROVE (Canonical /\ Served)'
  BY DEF ReadyMeansCanonical
<1>1. CASE Validate
  <2>1. pc = "validate" /\ Served /\ UNCHANGED graph
    BY <1>1 DEF Validate, Refuse, IInv, NoVerdictYet
  <2>2. Canonical
    BY <2>1, CountedIsCanonical DEF IInv, Counted
  <2> QED
    BY <2>1, <2>2 DEF Canonical, Served, graph
<1>2. CASE (\E c \in {"prepare", "preflight"} : Start(c)) \/ Restart \/ Kill
  BY <1>2 DEF Start, Restart, Kill
<1>3. CASE CommandStep /\ ~Validate
  <2>1. pc # "off"
    BY <1>3 DEF CommandStep, ResetRels, ResetNodes, DropIndex, CreateIndex, LoadNodes,
       LoadNodesFails, LoadRels, LoadRelsFails, CheckLoad, VerifyCounts, Raise
  <2>2. verdict' \in {verdict, "raised"}
    BY <1>3 DEF CommandStep, ResetRels, ResetNodes, DropIndex, CreateIndex, LoadNodes,
       LoadNodesFails, LoadRels, LoadRelsFails, CheckLoad, VerifyCounts, Raise, Refuse
  <2> QED
    BY <2>1, <2>2 DEF IInv, NoVerdictYet
<1> QED
  BY <1>1, <1>2, <1>3 DEF Next

\* The inductive invariant holds in every reachable state.
THEOREM Invariance == Spec => []IInv
<1>1. Init => IInv
  BY InitInv
<1>2. IInv /\ [Next]_vars => IInv'
  <2> SUFFICES ASSUME IInv, [Next]_vars PROVE IInv'
    OBVIOUS
  <2>1. CASE Next
    BY <2>1, TypeStep, TwiceStep, LoadedStep, CountedStep, VerdictStep, ReadyStep DEF IInv
  <2>2. CASE UNCHANGED vars
    BY <2>2 DEF vars, setting, graph, IInv, TypeOK, NothingTwice, LoadedSoFar, Counted, CountsMatch,
       NoVerdictYet, ReadyMeansCanonical, Canonical, Served
  <2> QED
    BY <2>1, <2>2
<1> QED
  BY <1>1, <1>2, PTL DEF Spec

\* Type correctness.
THEOREM TypeCorrect == Spec => []TypeOK
BY Invariance, PTL DEF IInv

\* No retry, restart or interrupted load puts a node or a relationship into
\* the graph a second time (workflows.py, prepare, with the adapters' batches).
THEOREM NoDuplicates == Spec => []NothingTwice
BY Invariance, PTL DEF IInv

\* A database that prepare or preflight has found ready holds exactly the
\* canonical graph, and no index without contents.
THEOREM ReadyIsCanonical == Spec => []ReadyMeansCanonical
BY Invariance, PTL DEF IInv

-----------------------------------------------------------------------------
(* A prepare in which nothing fails.                                       *)

Undisturbed == ~faults /\ command = "prepare"

\* From the first row on, and from the end of the loading on.
Checking == {"checkLoad", "verify", "validate"}
Loading  == {"loadNodes", "loadRels"} \cup Checking

\* Only falkordb's restart leaves an index without its contents.
OnlyRestored == engine # "falkordb" => Served

\* falkordb drops what it finds, whatever its contents, and creates both anew.
IndexesSoFar ==
    /\ engine = "falkordb" =>
          /\ pc \in {"dropBucket", "createId"} => index["id"] = "absent"
          /\ pc \in {"createId", "createBucket"} => index["bucket"] = "absent"
    /\ pc = "createBucket" => index["id"] = "live"
    /\ pc \in Loading => \A p \in Property : index[p] = "live"

\* Everything up to the next row is in the graph, and nothing else.
RowsSoFar ==
    /\ pc \in WithoutNodes => nodes = {}
    /\ pc = "loadNodes" => nodes = First(NodeRows, next) \X {1}
    /\ pc \in {"loadRels"} \cup Checking => nodes = Node \X {1}
    /\ pc = "loadRels" => rels = First(RelRows, next) \X {1}
    /\ pc \in Checking => rels = Rel \X {1}

CountsSoFar ==
    /\ ~errors
    /\ pc \in {"loadRels", "checkLoad"} => loaded = Len(NodeRows)
    /\ pc = "checkLoad" => next = Len(RelRows)

OnItsWay ==
    /\ OnlyRestored
    /\ Undisturbed /\ pc # "off" => IndexesSoFar /\ RowsSoFar /\ CountsSoFar

\* What has been loaded, with the next batch.
LEMMA NextBatch ==
    ASSUME NEW list, Len(list) \in Nat, Distinct(list), next \in Nat, Size \in Nat,
           NEW k \in Nat, k = IF next + Size < Len(list) THEN next + Size ELSE Len(list)
    PROVE  /\ First(list, next) \cup Batch(list) = First(list, k)
           /\ Created(Batch(list), First(list, next) \X {1}) = First(list, k) \X {1}
<1>1. First(list, next) \cup Batch(list) = First(list, k)
  BY DEF First, Batch
<1>2. First(list, next + Size) = First(list, k)
  BY DEF First
<1> DEFINE S == First(list, next) \X {1}
<1>3. Created(Batch(list), S) \subseteq First(list, k) \X {1}
  BY <1>2, CreatedInOrder
<1>4. S \cup {<<x, 1>> : x \in Batch(list)} \subseteq Created(Batch(list), S)
  BY DEF Created
<1>5. First(list, k) \X {1} = S \cup {<<x, 1>> : x \in Batch(list)}
  BY <1>1
<1> QED
  BY <1>1, <1>3, <1>4, <1>5

\* All the rows of a file.
LEMMA AllRows ==
    /\ First(NodeRows, Len(NodeRows)) = Node /\ First(RelRows, Len(RelRows)) = Rel
    /\ First(NodeRows, 0) = {} /\ First(RelRows, 0) = {}
BY Rows DEF First, Node, Rel

\* A batch of nodes.
LEMMA NodesOnTheWay ==
    ASSUME nodes = First(NodeRows, next) \X {1}, next \in Nat,
           NEW k \in Nat, k = IF next + Size < Len(NodeRows) THEN next + Size ELSE Len(NodeRows)
    PROVE  NodesAfter(Batch(NodeRows)) = First(NodeRows, k) \X {1}
<1>1. /\ First(NodeRows, next) \cup Batch(NodeRows) = First(NodeRows, k)
      /\ Created(Batch(NodeRows), First(NodeRows, next) \X {1}) = First(NodeRows, k) \X {1}
  BY NextBatch, Rows
<1>2. nodes \cup (Batch(NodeRows) \X {1}) = First(NodeRows, k) \X {1}
  BY <1>1
<1> QED
  BY <1>1, <1>2 DEF NodesAfter

\* A batch of relationships, none of which is skipped.
LEMMA RelsOnTheWay ==
    ASSUME nodes = Node \X {1}, index["id"] = "live",
           rels = First(RelRows, next) \X {1}, next \in Nat,
           NEW k \in Nat, k = IF next + Size < Len(RelRows) THEN next + Size ELSE Len(RelRows)
    PROVE  RelsAfter(Batch(RelRows)) = First(RelRows, k) \X {1}
<1>1. Created(Batch(RelRows), First(RelRows, next) \X {1}) = First(RelRows, k) \X {1}
  BY NextBatch, Rows
<1>2. \A n \in Node : Found(n)
  <2> SUFFICES ASSUME NEW n \in Node PROVE Copies(n, nodes) # {}
    BY DEF Found
  <2>1. 1 \in Copies(n, nodes)
    BY DEF Copies
  <2> QED
    BY <2>1
<1>3. \A r \in Batch(RelRows) : Source[r] \in Node /\ Target[r] \in Node
  BY Rows, RowsAssumption
<1>4. {r \in Batch(RelRows) : Found(Source[r]) /\ Found(Target[r])} = Batch(RelRows)
  BY <1>2, <1>3
<1> QED
  BY <1>1, <1>4 DEF RelsAfter

LEMMA RestoredStep ==
    ASSUME TypeOK, OnlyRestored, Next
    PROVE  OnlyRestored'
<1> SUFFICES ASSUME engine # "falkordb" PROVE Served'
  BY StepOnGraph DEF OnlyRestored, setting
<1>1. Served
  BY DEF OnlyRestored
<1>2. \A p \in Property : index'[p] \in {index[p], "absent", "live"}
  <2>1. CASE UNCHANGED index
    BY <2>1
  <2>2. CASE Effect /\ ~ UNCHANGED index
    BY <2>2 DEF Effect, TypeOK, Property
  <2>3. CASE Restart
    BY <2>3 DEF Restart
  <2>4. MaybeEffect => UNCHANGED index \/ Effect
    BY DEF MaybeEffect, graph
  <2>5. UNCHANGED graph => UNCHANGED index
    BY DEF graph
  <2> QED
    BY <2>1, <2>2, <2>3, <2>4, <2>5, StepOnGraph
<1> QED
  BY <1>1, <1>2 DEF Served

\* The checks find nothing, and no statement has a reason to fail.
LEMMA NothingFound ==
    ASSUME IInv, OnItsWay, Undisturbed, pc # "off"
    PROVE  /\ pc = "checkLoad" => ~errors /\ loaded = Len(NodeRows) /\ next = Len(RelRows)
           /\ pc = "verify" => CountsMatch /\ IndexesListed(TRUE)
           /\ pc = "validate" => Canonical /\ Served
           /\ ~AlreadyIndexed
<1> USE DEF OnItsWay, Checking, Loading
<1>1. pc = "checkLoad" => ~errors /\ loaded = Len(NodeRows) /\ next = Len(RelRows)
  BY DEF CountsSoFar
<1>2. pc \in {"verify", "validate"} => Canonical
  BY DEF RowsSoFar, Canonical
<1>3. Canonical => CountsMatch
  <2>1. Cardinality(Node \X {1}) = Len(NodeRows) /\ Cardinality(Rel \X {1}) = Len(RelRows)
    BY RowsAssumption, AsManyAsRows DEF Node, Rel
  <2> QED
    BY <2>1 DEF Canonical, CountsMatch
<1>4. pc \in {"verify", "validate"} => IndexesListed(TRUE) /\ Served
  BY DEF IndexesSoFar, IndexesListed, Served
<1>5. ~AlreadyIndexed
  BY DEF AlreadyIndexed, IndexesSoFar
<1> QED
  BY <1>1, <1>2, <1>3, <1>4, <1>5

LEMMA OnItsWayStep ==
    ASSUME IInv, OnItsWay, Next
    PROVE  OnItsWay'
<1>1. OnlyRestored'
  BY RestoredStep DEF OnItsWay, IInv
<1> SUFFICES ASSUME Undisturbed', pc' # "off" PROVE (IndexesSoFar /\ RowsSoFar /\ CountsSoFar)'
  BY <1>1 DEF OnItsWay
<1> USE DEF Checking, Loading, WithoutNodes
<1>2. CASE \E c \in {"prepare", "preflight"} : Start(c)
  <2>1. pc' = "resetRels" /\ ~errors'
    BY <1>2 DEF Start, Undisturbed
  <2> QED
    BY <2>1 DEF IndexesSoFar, RowsSoFar, CountsSoFar
<1>3. CASE Kill \/ Restart
  BY <1>3 DEF Kill, Restart
<1>4. CASE CommandStep
  <2>1. pc # "off" /\ command' = command /\ engine' = engine /\ faults' = faults
    BY <1>4 DEF CommandStep, ResetRels, ResetNodes, DropIndex, CreateIndex, LoadNodes,
       LoadNodesFails, LoadRels, LoadRelsFails, CheckLoad, VerifyCounts, Validate, Raise, setting
  <2>2. Undisturbed /\ IndexesSoFar /\ RowsSoFar /\ CountsSoFar
    BY <2>1 DEF OnItsWay, Undisturbed
  <2>3. TypeOK /\ LoadedSoFar /\ (engine # "falkordb" => Served)
    BY DEF IInv, OnItsWay, OnlyRestored
  <2>4. CASE ResetRels
    <3>1. pc' \in {"createId", "resetNodes"} /\ errors' = errors
      BY <2>4 DEF ResetRels
    <3>2. pc' = "createId" => engine = "cypher" /\ nodes' = {}
      BY <2>4 DEF ResetRels, Effect
    <3> QED
      BY <2>1, <2>2, <3>1, <3>2 DEF IndexesSoFar, RowsSoFar, CountsSoFar
  <2>5. CASE ResetNodes
    <3>1. /\ nodes' = {} /\ errors' = errors
          /\ pc' \in {"createId", "dropId"} /\ (pc' = "createId" => engine # "falkordb")
      BY <2>2, <2>5 DEF ResetNodes, Effect, Undisturbed
    <3> QED
      BY <2>1, <2>2, <3>1 DEF IndexesSoFar, RowsSoFar, CountsSoFar
  <2>6. CASE DropIndex("id", "dropId", "dropBucket")
    <3>1. pc = "dropId" /\ pc' = "dropBucket" /\ errors' = errors
      BY <2>6 DEF DropIndex
    <3>2. nodes' = nodes /\ index'["id"] = "absent"
      BY <2>3, <2>6, <3>1 DEF DropIndex, Effect, graph, TypeOK, Property
    <3> QED
      BY <2>1, <2>2, <3>1, <3>2 DEF IndexesSoFar, RowsSoFar, CountsSoFar
  <2>7. CASE DropIndex("bucket", "dropBucket", "createId")
    <3>1. pc = "dropBucket" /\ pc' = "createId" /\ errors' = errors
      BY <2>7 DEF DropIndex
    <3>2. nodes' = nodes /\ index'["bucket"] = "absent" /\ index'["id"] = index["id"]
      BY <2>3, <2>7, <3>1 DEF DropIndex, Effect, graph, TypeOK, Property
    <3> QED
      BY <2>1, <2>2, <3>1, <3>2 DEF IndexesSoFar, RowsSoFar, CountsSoFar
  <2>8. CASE CreateIndex("id", "createId", "createBucket")
    <3>1. pc = "createId" /\ pc' = "createBucket" /\ errors' = errors
      BY <2>8 DEF CreateIndex
    <3>2. /\ nodes' = nodes /\ index'["bucket"] = index["bucket"]
          /\ index'["id"] = IF index["id"] = "absent" THEN "live" ELSE index["id"]
      BY <2>3, <2>8, <3>1 DEF CreateIndex, Effect, TypeOK, Property
    <3>3. index["id"] \in {"absent", "live"}
      BY <2>2, <2>3, <3>1 DEF IndexesSoFar, Served, TypeOK, Property
    <3> QED
      BY <2>1, <2>2, <3>1, <3>2, <3>3 DEF IndexesSoFar, RowsSoFar, CountsSoFar
  <2>9. CASE CreateIndex("bucket", "createBucket", "loadNodes")
    <3>1. pc = "createBucket" /\ pc' = "loadNodes" /\ errors' = errors /\ next' = next
      BY <2>9 DEF CreateIndex
    <3>2. /\ nodes' = nodes /\ index'["id"] = index["id"]
          /\ index'["bucket"] = IF index["bucket"] = "absent" THEN "live" ELSE index["bucket"]
      BY <2>3, <2>9, <3>1 DEF CreateIndex, Effect, TypeOK, Property
    <3>3. index["bucket"] \in {"absent", "live"}
      BY <2>2, <2>3, <3>1 DEF IndexesSoFar, Served, TypeOK, Property
    <3>4. \A p \in Property : index'[p] = "live"
      BY <2>2, <3>1, <3>2, <3>3 DEF IndexesSoFar, Property
    <3>5. nodes = {} /\ next = 0
      BY <2>2, <2>3, <3>1 DEF RowsSoFar, LoadedSoFar
    <3> QED
      BY <2>1, <2>2, <3>1, <3>2, <3>4, <3>5, AllRows DEF IndexesSoFar, RowsSoFar, CountsSoFar
  <2>10. CASE LoadNodes /\ next < Len(NodeRows)
    <3>1. /\ pc = "loadNodes" /\ pc' = "loadNodes" /\ errors' = errors /\ index' = index
          /\ nodes' = NodesAfter(Batch(NodeRows))
          /\ next' = IF next + Size < Len(NodeRows) THEN next + Size ELSE Len(NodeRows)
      BY <2>10 DEF LoadNodes, Effect
    <3>2. next' \in Nat /\ next \in Nat /\ nodes = First(NodeRows, next) \X {1}
      BY <2>2, <2>3, <3>1, Rows DEF TypeOK, RowsSoFar
    <3>3. nodes' = First(NodeRows, next') \X {1}
      BY <3>1, <3>2, NodesOnTheWay
    <3> QED
      BY <2>1, <2>2, <3>1, <3>3 DEF IndexesSoFar, RowsSoFar, CountsSoFar
  <2>11. CASE LoadNodes /\ ~ (next < Len(NodeRows))
    <3>1. /\ pc = "loadNodes" /\ pc' = "loadRels" /\ errors' = errors /\ index' = index
          /\ nodes' = nodes /\ rels' = rels /\ loaded' = next /\ next' = 0
      BY <2>11 DEF LoadNodes, graph
    <3>2. next = Len(NodeRows)
      BY <2>3, <2>11, <3>1, Rows DEF TypeOK
    <3>3. nodes = Node \X {1} /\ rels = First(RelRows, 0) \X {1}
      BY <2>2, <2>3, <3>1, <3>2, AllRows DEF RowsSoFar, LoadedSoFar, WithoutRels
    <3> QED
      BY <2>1, <2>2, <3>1, <3>2, <3>3 DEF IndexesSoFar, RowsSoFar, CountsSoFar
  <2>12. CASE LoadRels /\ next < Len(RelRows)
    <3>1. /\ pc = "loadRels" /\ pc' = "loadRels" /\ errors' = errors /\ index' = index
          /\ rels' = RelsAfter(Batch(RelRows)) /\ nodes' = nodes /\ loaded' = loaded
          /\ next' = IF next + Size < Len(RelRows) THEN next + Size ELSE Len(RelRows)
      BY <2>12 DEF LoadRels, Effect
    <3>2. /\ next' \in Nat /\ next \in Nat /\ rels = First(RelRows, next) \X {1}
          /\ nodes = Node \X {1} /\ index["id"] = "live"
      BY <2>2, <2>3, <3>1, Rows DEF TypeOK, RowsSoFar, IndexesSoFar, Property
    <3>3. rels' = First(RelRows, next') \X {1}
      BY <3>1, <3>2, RelsOnTheWay
    <3> QED
      BY <2>1, <2>2, <3>1, <3>3 DEF IndexesSoFar, RowsSoFar, CountsSoFar
  <2>13. CASE LoadRels /\ ~ (next < Len(RelRows))
    <3>1. /\ pc = "loadRels" /\ pc' = "checkLoad" /\ errors' = errors /\ index' = index
          /\ nodes' = nodes /\ rels' = rels /\ loaded' = loaded /\ next' = next
      BY <2>13 DEF LoadRels, graph
    <3>2. next = Len(RelRows)
      BY <2>3, <2>13, <3>1, Rows DEF TypeOK
    <3>3. rels = Rel \X {1}
      BY <2>2, <3>1, <3>2, AllRows DEF RowsSoFar
    <3> QED
      BY <2>1, <2>2, <3>1, <3>2, <3>3 DEF IndexesSoFar, RowsSoFar, CountsSoFar
  <2>14. CASE LoadNodesFails \/ LoadRelsFails \/ Raise \/ Validate
    BY <2>2, <2>14 DEF LoadNodesFails, LoadRelsFails, Raise, Validate, Refuse, Undisturbed
  <2>15. CASE CheckLoad \/ VerifyCounts
    <3>1. /\ pc \in {"checkLoad", "verify"} /\ pc' \in {"verify", "validate"} /\ errors' = errors
          /\ index' = index /\ nodes' = nodes /\ rels' = rels
      BY <2>15 DEF CheckLoad, VerifyCounts, Refuse, graph
    <3> QED
      BY <2>1, <2>2, <3>1 DEF IndexesSoFar, RowsSoFar, CountsSoFar
  <2> QED
    BY <1>4, <2>4, <2>5, <2>6, <2>7, <2>8, <2>9, <2>10, <2>11, <2>12, <2>13, <2>14, <2>15
    DEF CommandStep
<1> QED
  BY <1>2, <1>3, <1>4 DEF Next

LEMMA OnItsWayInvariance == Spec => []OnItsWay
<1>1. Init => OnItsWay
  BY DEF Init, OnItsWay, OnlyRestored, Served, Undisturbed
<1>2. IInv /\ OnItsWay /\ [Next]_vars => OnItsWay'
  <2> SUFFICES ASSUME IInv, OnItsWay, UNCHANGED vars PROVE OnItsWay'
    BY OnItsWayStep
  <2> QED
    BY DEF vars, setting, graph, OnItsWay, OnlyRestored, Served, Undisturbed, IndexesSoFar, RowsSoFar,
       CountsSoFar
<1> QED
  BY <1>1, <1>2, Invariance, PTL DEF Spec

\* If no statement fails, prepare can end in one way only: with a database that
\* is ready.  No remains, no index restored without its contents and no row of
\* the files gives one of its checks a reason to refuse.
THEOREM PrepareEndsReady ==
    Spec => [][~faults /\ command = "prepare" /\ pc # "off" /\ pc' = "off" => verdict' = "ready"]_vars
<1>1. ASSUME IInv, OnItsWay, Next, ~faults, command = "prepare", pc # "off", pc' = "off"
      PROVE  verdict' = "ready"
  <2>1. Undisturbed
    BY <1>1 DEF Undisturbed
  <2>2. CASE CheckLoad \/ VerifyCounts \/ Validate
    BY <1>1, <2>1, <2>2, NothingFound DEF CheckLoad, VerifyCounts, Validate
  <2>3. CASE Raise \/ Kill
    BY <1>1, <2>1, <2>3, NothingFound DEF Raise, Kill
  <2>4. CASE Restart \/ \E c \in {"prepare", "preflight"} : Start(c)
    BY <1>1, <2>4 DEF Restart, Start
  <2>5. CASE ResetRels \/ ResetNodes \/ LoadNodes \/ LoadNodesFails \/ LoadRels \/ LoadRelsFails
    BY <1>1, <2>5 DEF ResetRels, ResetNodes, LoadNodes, LoadNodesFails, LoadRels, LoadRelsFails
  <2>6. CASE \/ DropIndex("id", "dropId", "dropBucket") \/ DropIndex("bucket", "dropBucket", "createId")
             \/ CreateIndex("id", "createId", "createBucket")
             \/ CreateIndex("bucket", "createBucket", "loadNodes")
    BY <1>1, <2>6 DEF DropIndex, CreateIndex
  <2> QED
    BY <1>1, <2>2, <2>3, <2>4, <2>5, <2>6 DEF Next, CommandStep
<1>2. IInv /\ OnItsWay /\ [Next]_vars =>
        [~faults /\ command = "prepare" /\ pc # "off" /\ pc' = "off" => verdict' = "ready"]_vars
  BY <1>1
<1> QED
  BY <1>2, Invariance, OnItsWayInvariance, PTL DEF Spec

-----------------------------------------------------------------------------
(* Why a command comes to its end.                                         *)

\* A batch takes at least one row.
StepsLeft ==
    CASE pc = "resetRels"    -> Len(NodeRows) + Len(RelRows) + 11
      [] pc = "resetNodes"   -> Len(NodeRows) + Len(RelRows) + 10
      [] pc = "dropId"       -> Len(NodeRows) + Len(RelRows) + 9
      [] pc = "dropBucket"   -> Len(NodeRows) + Len(RelRows) + 8
      [] pc = "createId"     -> Len(NodeRows) + Len(RelRows) + 7
      [] pc = "createBucket" -> Len(NodeRows) + Len(RelRows) + 6
      [] pc = "loadNodes"    -> (Len(NodeRows) - next) + Len(RelRows) + 5
      [] pc = "loadRels"     -> (Len(RelRows) - next) + 4
      [] pc = "checkLoad"    -> 3
      [] pc = "verify"       -> 2
      [] pc = "validate"     -> 1
      [] OTHER               -> 0

LEMMA LeftType == TypeOK => StepsLeft \in Nat /\ (pc # "off" => StepsLeft > 0)
<1> SUFFICES ASSUME TypeOK PROVE StepsLeft \in Nat /\ (pc # "off" => StepsLeft > 0)
  OBVIOUS
<1>1. CASE pc \in {"resetRels", "resetNodes", "dropId", "dropBucket", "createId", "createBucket"}
  <2>1. StepsLeft \in {(Len(NodeRows) + Len(RelRows)) + j : j \in 6..11}
    BY <1>1 DEF StepsLeft
  <2> QED
    BY <2>1, Rows
<1>2. CASE pc = "loadNodes"
  <2>1. next \in Nat /\ next <= Len(NodeRows)
    BY <1>2 DEF TypeOK
  <2>2. StepsLeft = (Len(NodeRows) - next) + Len(RelRows) + 5
    BY <1>2 DEF StepsLeft
  <2> QED
    BY <2>1, <2>2, Rows
<1>4. CASE pc = "loadRels"
  <2>1. next \in Nat /\ next <= Len(RelRows)
    BY <1>4 DEF TypeOK
  <2>2. StepsLeft = (Len(RelRows) - next) + 4
    BY <1>4 DEF StepsLeft
  <2> QED
    BY <2>1, <2>2, Rows
<1>3. CASE pc \in {"checkLoad", "verify", "validate", "off"}
  BY <1>3 DEF StepsLeft
<1> QED
  BY <1>1, <1>2, <1>3, <1>4 DEF TypeOK, Statement

LEMMA LeftStep ==
    ASSUME TypeOK, LoadedSoFar, Next, pc # "off"
    PROVE  StepsLeft' < StepsLeft
<1> USE Rows, SizeAssumption
<1>1. CASE Start("prepare") \/ Start("preflight") \/ Restart
  BY <1>1 DEF Start, Restart
<1>2. CASE pc' = "off"
  <2>1. StepsLeft' = 0
    BY <1>2 DEF StepsLeft
  <2> QED
    BY <2>1, LeftType
<1>3. CASE ResetRels
  BY <1>3 DEF ResetRels, StepsLeft
<1>4. CASE ResetNodes
  BY <1>4 DEF ResetNodes, StepsLeft
<1>5. CASE DropIndex("id", "dropId", "dropBucket") \/ DropIndex("bucket", "dropBucket", "createId")
  BY <1>5 DEF DropIndex, StepsLeft
<1>6. CASE CreateIndex("id", "createId", "createBucket")
  BY <1>6 DEF CreateIndex, StepsLeft
<1>7. CASE CreateIndex("bucket", "createBucket", "loadNodes")
  <2>1. pc = "createBucket" /\ pc' = "loadNodes" /\ next' = next /\ next \in Nat
    BY <1>7 DEF CreateIndex, TypeOK
  <2> QED
    BY <2>1 DEF StepsLeft
<1>8. CASE LoadNodes
  <2>1. pc = "loadNodes" /\ next \in Nat /\ next <= Len(NodeRows)
    BY <1>8 DEF LoadNodes, TypeOK
  <2>2. CASE next < Len(NodeRows)
    <3>1. pc' = "loadNodes" /\ next' > next /\ next' \in Nat
      BY <1>8, <2>1, <2>2 DEF LoadNodes
    <3> QED
      BY <2>1, <3>1 DEF StepsLeft
  <2>3. CASE ~ (next < Len(NodeRows))
    <3>1. pc' = "loadRels" /\ next' = 0
      BY <1>8, <2>3 DEF LoadNodes
    <3> QED
      BY <2>1, <3>1 DEF StepsLeft
  <2> QED
    BY <2>2, <2>3
<1>9. CASE LoadNodesFails
  <2>1. pc = "loadNodes" /\ next \in Nat /\ next <= Len(NodeRows) /\ pc' = "loadRels" /\ next' = 0
    BY <1>9 DEF LoadNodesFails, TypeOK
  <2> QED
    BY <2>1 DEF StepsLeft
<1>10. CASE LoadRels
  <2>1. pc = "loadRels" /\ next \in Nat /\ next <= Len(RelRows)
    BY <1>10 DEF LoadRels, TypeOK
  <2>2. CASE next < Len(RelRows)
    <3>1. pc' = "loadRels" /\ next' > next /\ next' \in Nat
      BY <1>10, <2>1, <2>2 DEF LoadRels
    <3> QED
      BY <2>1, <3>1 DEF StepsLeft
  <2>3. CASE ~ (next < Len(RelRows))
    <3>1. pc' = "checkLoad"
      BY <1>10, <2>3 DEF LoadRels
    <3> QED
      BY <2>1, <3>1 DEF StepsLeft
  <2> QED
    BY <2>2, <2>3
<1>11. CASE LoadRelsFails
  <2>1. pc = "loadRels" /\ next \in Nat /\ next <= Len(RelRows) /\ pc' = "checkLoad"
    BY <1>11 DEF LoadRelsFails, TypeOK
  <2> QED
    BY <2>1 DEF StepsLeft
<1>12. CASE CheckLoad
  BY <1>2, <1>12 DEF CheckLoad, Refuse, StepsLeft
<1>13. CASE VerifyCounts
  BY <1>2, <1>13 DEF VerifyCounts, Refuse, StepsLeft
<1>14. CASE Validate \/ Raise \/ Kill
  BY <1>2, <1>14 DEF Validate, Refuse, Raise, Kill
<1> QED
  BY <1>1, <1>3, <1>4, <1>5, <1>6, <1>7, <1>8, <1>9, <1>10, <1>11, <1>12, <1>13,
     <1>14 DEF Next, CommandStep

\* Every step of a command that is running, a failed one too, is one step nearer
\* to its end: a batch is not sent again and a database not reset twice.  With
\* PrepareEndsReady this is PrepareRepairs, but for the steps being taken.
THEOREM Advances ==
    Spec => /\ [](StepsLeft \in Nat)
            /\ [][pc # "off" => StepsLeft' < StepsLeft]_vars
<1>1. IInv => StepsLeft \in Nat
  BY LeftType DEF IInv
<1>2. IInv /\ [Next]_vars => [pc # "off" => StepsLeft' < StepsLeft]_vars
  BY LeftStep DEF IInv
<1> QED
  BY <1>1, <1>2, Invariance, PTL DEF Spec
=============================================================================
