--------------------------- MODULE PostValidation ---------------------------
(***************************************************************************)
(* The checks after the workload (graphbench/mixed.py,                     *)
(* validate_final_mixed_campaign; `graphbench mixed-validate`): one        *)
(* database after the other is started, compared with the oracle, and      *)
(* FalkorDB prepared again when its restored index lost its contents.      *)
(***************************************************************************)
EXTENDS Integers, Sequences, Containers

CONSTANTS
    Databases,      \* DATABASES
    Order,          \* in their order
    Falkor          \* the database whose restart may lose the contents of its indexes

ASSUME OrderAssumption ==
    /\ Order \in Seq(Databases) /\ {Order[i] : i \in DOMAIN Order} = Databases
    /\ \A i, j \in DOMAIN Order : Order[i] = Order[j] => i = j
ASSUME DatabasesAssumption == Local \subseteq Databases /\ Falkor \in Local

VARIABLES
    pc,         \* where the process is; "off": it is not running
    todo,       \* the databases still to do, the current one first
    adapter,    \* an adapter is connected
    retried,    \* the current database is checked in the handler of its first failure
    raising,    \* an exception is on its way out
    results,    \* results[d]
    repairs,    \* the databases in repairs
    graph,      \* graph[d]: whether database d holds the canonical graph
    empty,      \* the databases whose indexes have lost their contents
    prepared,   \* prepared[d]: how far this invocation's prepare of d got (history)
    document    \* mixed_post_correctness.json, {} before it is written

vars == <<pc, todo, adapter, retried, raising, results, repairs, graph, empty, prepared,
          document, running>>
rows  == <<results, repairs>>
store == <<graph, empty, prepared>>

current == Head(todo)
NoResult == [d \in Databases |-> "none"]
Unprepared == [d \in Databases |-> "no"]

Init ==
    /\ pc = "off" /\ todo = <<>> /\ adapter = FALSE /\ retried = FALSE /\ raising = FALSE
    /\ results = NoResult /\ repairs = {} /\ prepared = Unprepared /\ document = {}
    /\ running \in SUBSET Local
    /\ graph \in [Databases -> {"whole", "partial"}] /\ empty \in SUBSET {Falkor}

Invoke ==
    /\ pc = "off"
    /\ pc' = "stop" /\ todo' = Order /\ adapter' = FALSE /\ retried' = FALSE /\ raising' = FALSE
    /\ results' = NoResult /\ repairs' = {} /\ prepared' = Unprepared
    /\ UNCHANGED <<graph, empty, document, running>>

\* Before the try: what it raises ends the command.
StopFirst ==
    /\ pc = "stop"
    /\ \/ StopLocal /\ pc' = "next"
       \/ StopLocalFails /\ pc' = "off"
    /\ UNCHANGED <<todo, adapter, retried, raising, rows, store, document>>

NextDatabase ==
    /\ pc = "next"
    /\ pc' = IF todo = <<>> THEN "cleanup" ELSE IF current \in Local THEN "up" ELSE "connect"
    /\ retried' = FALSE
    /\ UNCHANGED <<todo, adapter, raising, rows, store, document, running>>

\* A container that starts restores its data; FalkorDB's indexes may come back
\* without their contents.
ComposeUp ==
    /\ pc = "up"
    /\ Up(current)
    /\ \/ UNCHANGED empty
       \/ current = Falkor /\ current \notin running /\ empty' = empty \cup {Falkor}
    /\ pc' = "wait"
    /\ UNCHANGED <<todo, adapter, retried, raising, rows, graph, prepared, document>>

ContainerReady ==
    /\ pc = "wait" /\ current \in running
    /\ pc' = "connect"
    /\ UNCHANGED <<todo, adapter, retried, raising, rows, store, document, running>>

Connect ==
    /\ pc = "connect"
    /\ adapter' = TRUE /\ pc' = "check"
    /\ UNCHANGED <<todo, retried, raising, rows, store, document, running>>

\* verify_counts, whose counts are recorded and not compared, and
\* validate_adapter on its samples: a graph that lacks relationships may pass,
\* an index without contents does not.
CheckPasses ==
    /\ pc = "check" /\ current \notin empty
    /\ results' = [results EXCEPT ![current] = "PASS"]
    /\ pc' = "close"
    /\ UNCHANGED <<todo, adapter, retried, raising, repairs, store, document, running>>

\* A mismatch of FalkorDB's filtered_lookup: of its index, or of its graph.
Mismatch == current = Falkor /\ (Falkor \in empty \/ graph[Falkor] = "partial")

\* Mutant: the second check is tried like the first.
RepairsAgain ==
    /\ pc = "check" /\ Mismatch
    /\ adapter' = FALSE /\ retried' = TRUE /\ pc' = "prepare"
    /\ prepared' = [prepared EXCEPT ![current] = "begun"]
    /\ UNCHANGED <<todo, raising, rows, graph, empty, document, running>>

\* The handler of the first failure; what fails inside it ends the database.
CheckRepairs ==
    /\ pc = "check" /\ Mismatch /\ ~retried
    /\ adapter' = FALSE /\ retried' = TRUE /\ pc' = "prepare"
    /\ prepared' = [prepared EXCEPT ![current] = "begun"]
    /\ UNCHANGED <<todo, raising, rows, graph, empty, document, running>>

\* Mutant: a repair is recorded with the result.
PrepareUnrecorded ==
    /\ pc = "prepare"
    /\ graph' = [graph EXCEPT ![current] = "whole"]
    /\ empty' \in {empty \ {current}, empty \cup {current}}
    /\ prepared' = [prepared EXCEPT ![current] = "done"]
    /\ pc' = "connect"
    /\ UNCHANGED <<todo, adapter, retried, raising, rows, document, running>>

\* prepare compares the counts (Prepare).  What the server's index holds when the
\* next connection asks it again is not for the code to say.
PrepareSucceeds ==
    /\ pc = "prepare"
    /\ graph' = [graph EXCEPT ![current] = "whole"]
    /\ empty' \in {empty \ {current}, empty \cup {current}}
    /\ prepared' = [prepared EXCEPT ![current] = "done"]
    /\ repairs' = repairs \cup {current}
    /\ pc' = "connect"
    /\ UNCHANGED <<todo, adapter, retried, raising, results, document, running>>

\* prepare deletes the graph first: cut short, it may have got anywhere.
CutShort ==
    IF pc = "prepare"
    THEN /\ \E g \in {"whole", "partial"} : graph' = [graph EXCEPT ![current] = g]
         /\ empty' \in {empty, empty \ {current}}
    ELSE UNCHANGED <<graph, empty>>

Working == {"up", "wait", "connect", "check", "prepare"}

\* Mutant: a repair that fails is left at that.
FailsUnlessRepairing ==
    /\ pc \in Working
    /\ IF pc = "up" THEN UpFails(current) ELSE UNCHANGED running
    /\ adapter' \in IF pc = "connect" THEN BOOLEAN ELSE {adapter}
    /\ CutShort
    /\ results' = [results EXCEPT ![current] = IF pc = "prepare" THEN "PASS" ELSE "FAILED"]
    /\ pc' = "close"
    /\ UNCHANGED <<todo, retried, raising, repairs, prepared, document>>

\* Any exception on the way.  A connect that raises leaves its adapter behind.
DatabaseFails ==
    /\ pc \in Working
    /\ IF pc = "up" THEN UpFails(current) ELSE UNCHANGED running
    /\ adapter' \in IF pc = "connect" THEN BOOLEAN ELSE {adapter}
    /\ CutShort
    /\ results' = [results EXCEPT ![current] = "FAILED"]
    /\ pc' = "close"
    /\ UNCHANGED <<todo, retried, raising, repairs, prepared, document>>

\* Ctrl-C is no Exception: only the finally clauses run.
Interrupt ==
    /\ pc \in Working
    /\ adapter' \in IF pc = "connect" THEN BOOLEAN ELSE {adapter}
    /\ CutShort
    /\ raising' = TRUE /\ pc' = "close"
    /\ UNCHANGED <<todo, retried, rows, prepared, document, running>>

\* finally: adapter.close(), and for a local database _compose(d, "down").
CloseDatabase ==
    /\ pc = "close"
    /\ adapter' = FALSE
    /\ IF current \in Local THEN Down(current) ELSE UNCHANGED running
    /\ todo' = Tail(todo) /\ pc' = IF raising THEN "cleanup" ELSE "next"
    /\ UNCHANGED <<retried, raising, rows, store, document>>

\* adapter.close() raises, before the container is asked to stop; or it does not
\* stop.
CloseRaises ==
    \/ adapter /\ UNCHANGED running
    \/ current \in Local /\ DownFails(current)

\* Mutant: what raises in the finally clause is passed over.
CloseFailureSwallowed ==
    /\ pc = "close" /\ CloseRaises
    /\ adapter' = FALSE /\ todo' = Tail(todo) /\ pc' = IF raising THEN "cleanup" ELSE "next"
    /\ UNCHANGED <<retried, raising, rows, store, document>>

\* The exception leaves the loop from its finally clause.
CloseFails ==
    /\ pc = "close" /\ CloseRaises
    /\ adapter' = FALSE /\ raising' = TRUE /\ pc' = "cleanup"
    /\ UNCHANGED <<todo, retried, rows, store, document>>

Cleanup ==
    /\ pc = "cleanup"
    /\ \/ StopLocal /\ pc' = IF raising THEN "off" ELSE "write"
       \/ StopLocalFails /\ pc' = "off"
    /\ UNCHANGED <<todo, adapter, retried, raising, rows, store, document>>

Write ==
    /\ pc = "write"
    /\ document' = {[results |-> results, repairs |-> repairs]}
    /\ pc' = "off"
    /\ UNCHANGED <<todo, adapter, retried, raising, rows, store, running>>

Kill ==
    /\ pc # "off"
    /\ CutShort
    /\ pc' = "off" /\ adapter' = FALSE
    /\ UNCHANGED <<todo, retried, raising, rows, prepared, document, running>>

Step ==
    \/ StopFirst \/ NextDatabase \/ ComposeUp \/ ContainerReady \/ Connect
    \/ CheckPasses \/ CheckRepairs \/ PrepareSucceeds \/ DatabaseFails
    \/ CloseDatabase \/ CloseFails \/ Cleanup \/ Write

Next == Invoke \/ Step \/ Interrupt \/ Kill

Spec     == Init /\ [][Next]_vars
FairSpec == Spec /\ WF_vars(Step)

-----------------------------------------------------------------------------
(* Properties                                                              *)

TypeOK ==
    /\ pc \in {"off", "stop", "next", "close", "cleanup", "write"} \cup Working
    /\ todo \in Seq(Databases)
    /\ pc \in Working \cup {"close"} => todo # <<>>
    /\ adapter \in BOOLEAN /\ retried \in BOOLEAN /\ raising \in BOOLEAN
    /\ adapter => pc \in {"check", "close"}
    /\ results \in [Databases -> {"none", "PASS", "FAILED"}]
    /\ repairs \subseteq Databases
    /\ prepared \in [Databases -> {"no", "begun", "done"}]
    /\ graph \in [Databases -> {"whole", "partial"}] /\ empty \subseteq {Falkor}
    /\ running \subseteq Local

\* While a database is compared or repaired no container of another one runs:
\* _stop_local_databases before, and an invocation that cannot stop one ends.
CompetitorsStopped == pc \in {"check", "prepare"} => running \subseteq {current}

\* A repair deletes the graph it repairs.  A database that this invocation began
\* to load again is written down as passed only if it then held the canonical
\* graph, whatever was cut short, failed or was compared again on the way.
PassedAfterRepair ==
    pc = "write" => \A d \in Databases :
        results[d] = "PASS" /\ prepared[d] # "no" => graph[d] = "whole"

\* What is written is about every database, and every database that was
\* loaded again is named in it, whether it passed then or not.
WrittenIsComplete ==
    pc = "write" => /\ \A d \in Databases : results[d] # "none"
                    /\ \A d \in Databases : prepared[d] = "done" => d \in repairs

\* Every invocation comes to its end, also when FalkorDB's index is found empty
\* again after every repair.
InvocationEnds == pc # "off" ~> pc = "off"

=============================================================================
