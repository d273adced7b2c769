------------------------ MODULE PostValidationProofs ------------------------
(***************************************************************************)
(* Proofs about PostValidation: for any databases in any order, local or   *)
(* remote, and any graphs and containers to begin with.                    *)
(***************************************************************************)
EXTENDS PostValidation, TLAPS

\* While a database is worked on, only its container may run; between two
\* databases none does.
Isolated ==
    ~InspectFails =>
        /\ pc = "next" => running = {}
        /\ pc \in Working \cup {"close"} => running \subseteq {current}

\* Only a local database is composed up.
LocalAtUp == pc = "up" => current \in Local

\* The databases of a sequence.
Members(s) == {s[i] : i \in DOMAIN s}

\* The loop has a result for every database it has passed, and an invocation
\* that comes to its cleanup without an exception has passed them all.
ResultsSoFar ==
    ~raising =>
        /\ pc \in {"next", "close"} \cup Working =>
               \A d \in Databases : results[d] # "none" \/ d \in Members(todo)
        /\ pc = "close" => results[current] # "none"
        /\ pc = "stop" => todo = Order
        /\ pc \in {"cleanup", "write"} => \A d \in Databases : results[d] # "none"

\* Every database prepared here is among the repairs.
RepairsNamed == \A d \in Databases : prepared[d] = "done" => d \in repairs

\* prepare is called from the handler only, and that is FalkorDB's.
InHandler == (pc = "prepare" => retried) /\ (pc \in {"up", "wait"} => ~retried)
AtFalkor  == pc = "prepare" => current = Falkor

\* No database is taken twice: no list has it twice, and those still to come
\* have not been passed, nor loaded again.
Distinct(s) == \A i, j \in DOMAIN s : s[i] = s[j] => i = j
Untouched(d) == results[d] # "PASS" /\ prepared[d] = "no"
EachOnce ==
    /\ Distinct(todo)
    /\ pc \in {"stop", "next"} => \A d \in Members(todo) : Untouched(d)
    /\ pc \in Working \cup {"close"} => \A d \in Members(Tail(todo)) : Untouched(d)
    /\ pc \in Working => results[current] # "PASS" /\ (~retried => prepared[current] = "no")

\* Unless an exception is on its way out, what has passed after a repair is whole,
\* and what is compared again after a repair is.
WholeAfterRepair ==
    pc # "off" /\ ~raising =>
        /\ \A d \in Databases : results[d] = "PASS" /\ prepared[d] # "no" => graph[d] = "whole"
        /\ pc \in {"connect", "check"} /\ retried => graph[current] = "whole"

\* An exception on its way out reaches no document.
Raising == raising => pc \in {"off", "close", "cleanup"}

\* The inductive invariant.
IInv ==
    /\ TypeOK /\ LocalAtUp /\ Isolated /\ ResultsSoFar /\ RepairsNamed
    /\ InHandler /\ AtFalkor /\ EachOnce /\ WholeAfterRepair /\ Raising

-----------------------------------------------------------------------------
\* The first database of the list, and the rest.
LEMMA FirstOfTodo ==
    ASSUME NEW s \in Seq(Databases), s # <<>>
    PROVE  /\ Head(s) \in Databases /\ Tail(s) \in Seq(Databases)
           /\ Members(s) = {Head(s)} \cup Members(Tail(s))
           /\ Distinct(s) => Distinct(Tail(s)) /\ Head(s) \notin Members(Tail(s))
<1>1. Head(s) \in Databases /\ Tail(s) \in Seq(Databases)
  OBVIOUS
<1>2. /\ Head(s) = s[1] /\ 1 \in DOMAIN s
      /\ \A i \in DOMAIN Tail(s) : i \in Nat \ {0} /\ i + 1 \in DOMAIN s /\ Tail(s)[i] = s[i + 1]
  OBVIOUS
<1>3. Members(s) \subseteq {Head(s)} \cup Members(Tail(s))
  <2> SUFFICES ASSUME NEW i \in DOMAIN s, i # 1 PROVE s[i] \in Members(Tail(s))
    BY DEF Members
  <2>1. i - 1 \in DOMAIN Tail(s) /\ Tail(s)[i - 1] = s[i]
    OBVIOUS
  <2> QED
    BY <2>1 DEF Members
<1>4. {Head(s)} \cup Members(Tail(s)) \subseteq Members(s)
  BY <1>2 DEF Members
<1>5. ASSUME Distinct(s) PROVE Distinct(Tail(s)) /\ Head(s) \notin Members(Tail(s))
  <2>1. ASSUME NEW i \in DOMAIN Tail(s) PROVE Tail(s)[i] # Head(s)
    <3>1. i + 1 # 1
      BY <1>2
    <3> QED
      BY <1>2, <1>5, <3>1 DEF Distinct
  <2>2. ASSUME NEW i \in DOMAIN Tail(s), NEW j \in DOMAIN Tail(s), Tail(s)[i] = Tail(s)[j] PROVE i = j
    <3>1. i + 1 = j + 1
      BY <1>2, <1>5, <2>2 DEF Distinct
    <3>2. i \in Nat /\ j \in Nat
      BY <1>2
    <3> QED
      BY <3>1, <3>2
  <2> QED
    BY <2>1, <2>2 DEF Distinct, Members
<1> QED
  BY <1>1, <1>3, <1>4, <1>5

\* The invariant holds at the start.
LEMMA InitInv == Init => IInv
<1> SUFFICES ASSUME Init PROVE IInv
  OBVIOUS
<1> USE DEF Init
<1>1. TypeOK
  <2>1. todo \in Seq(Databases) /\ pc = "off"
    OBVIOUS
  <2>2. /\ results \in [Databases -> {"none", "PASS", "FAILED"}]
        /\ prepared \in [Databases -> {"no", "begun", "done"}]
    BY DEF NoResult, Unprepared
  <2> QED
    BY <2>1, <2>2 DEF TypeOK, Working
<1>2. RepairsNamed
  BY DEF RepairsNamed, Unprepared
<1>3. Distinct(todo)
  <2>1. DOMAIN todo = {}
    OBVIOUS
  <2> QED
    BY <2>1 DEF Distinct
<1> QED
  BY <1>1, <1>2, <1>3 DEF IInv, LocalAtUp, Isolated, ResultsSoFar, InHandler, AtFalkor, EachOnce,
     WholeAfterRepair, Raising, Working

\* A step keeps the types.
LEMMA TypeStep ==
    ASSUME TypeOK, LocalAtUp, AtFalkor, Next
    PROVE  TypeOK'
<1> USE DEF TypeOK, Working, rows, store
<1>1. CASE Invoke
  BY <1>1, OrderAssumption DEF Invoke, NoResult, Unprepared
<1>2. CASE StopFirst
  BY <1>2 DEF StopFirst, StopLocal, StopLocalFails
<1>3. CASE NextDatabase
  BY <1>3 DEF NextDatabase
<1>4. CASE ComposeUp
  <2>1. running' \subseteq Local /\ empty' \subseteq {Falkor}
    BY <1>4 DEF ComposeUp, Up, LocalAtUp
  <2> QED
    BY <1>4, <2>1 DEF ComposeUp
<1>5. CASE ContainerReady \/ Connect
  <2>1. CASE ContainerReady
    BY <2>1 DEF ContainerReady
  <2>2. CASE Connect
    BY <2>2 DEF Connect
  <2> QED
    BY <1>5, <2>1, <2>2
<1>6. CASE CheckPasses \/ CheckRepairs
  BY <1>6 DEF CheckPasses, CheckRepairs
<1>7. CASE PrepareSucceeds
  <2>1. current \in Databases /\ current = Falkor
    BY <1>7, FirstOfTodo DEF PrepareSucceeds, current, AtFalkor
  <2> QED
    BY <1>7, <2>1 DEF PrepareSucceeds
<1>8. CASE DatabaseFails
  <2>1. CutShort => graph' \in [Databases -> {"whole", "partial"}] /\ empty' \subseteq {Falkor}
    BY DEF CutShort
  <2> QED
    BY <1>8, <2>1 DEF DatabaseFails, UpFails
<1>9. CASE CloseDatabase
  BY <1>9, FirstOfTodo DEF CloseDatabase, Down
<1>10. CASE CloseFails \/ Cleanup \/ Write
  <2>1. CASE CloseFails
    BY <2>1 DEF CloseFails, CloseRaises, DownFails
  <2>2. CASE Cleanup
    BY <2>2 DEF Cleanup, StopLocal, StopLocalFails
  <2>3. CASE Write
    BY <2>3 DEF Write
  <2> QED
    BY <1>10, <2>1, <2>2, <2>3
<1>11. CASE Interrupt \/ Kill
  <2>1. CutShort => graph' \in [Databases -> {"whole", "partial"}] /\ empty' \subseteq {Falkor}
    BY DEF CutShort
  <2> QED
    BY <1>11, <2>1 DEF Interrupt, Kill
<1> QED
  BY <1>1, <1>2, <1>3, <1>4, <1>5, <1>6, <1>7, <1>8, <1>9, <1>10, <1>11 DEF Next, Step

\* A step goes to "up" with a local database only.
LEMMA UpStep ==
    ASSUME LocalAtUp, Next
    PROVE  LocalAtUp'
<1>1. CASE NextDatabase
  BY <1>1 DEF NextDatabase, LocalAtUp, current
<1>2. CASE ~NextDatabase
  <2>1. pc' # "up"
    BY <1>2 DEF Next, Step, Invoke, StopFirst, ComposeUp, ContainerReady, Connect, CheckPasses,
       CheckRepairs, PrepareSucceeds, DatabaseFails, Interrupt, CloseDatabase, CloseFails, Cleanup,
       Write, Kill
  <2> QED
    BY <2>1 DEF LocalAtUp
<1> QED
  BY <1>1, <1>2

\* A step keeps the competitors stopped.
LEMMA IsolationStep ==
    ASSUME TypeOK, Isolated, Next
    PROVE  Isolated'
<1> SUFFICES ASSUME ~InspectFails
             PROVE  /\ pc' = "next" => running' = {}
                    /\ pc' \in Working \cup {"close"} => running' \subseteq {current'}
  BY DEF Isolated
<1> USE DEF Isolated, Working
<1>1. CASE pc' \notin Working \cup {"close", "next"}
  BY <1>1
<1>2. CASE StopFirst
  BY <1>2 DEF StopFirst, StopLocal, StopLocalFails
<1>3. CASE NextDatabase
  BY <1>3 DEF NextDatabase
<1>4. CASE ComposeUp
  BY <1>4 DEF ComposeUp, Up, current
<1>5. CASE ContainerReady \/ Connect \/ CheckPasses \/ CheckRepairs \/ PrepareSucceeds
  BY <1>5 DEF ContainerReady, Connect, CheckPasses, CheckRepairs, PrepareSucceeds, current
<1>6. CASE DatabaseFails \/ Interrupt
  BY <1>6 DEF DatabaseFails, UpFails, Interrupt, current
<1>7. CASE CloseDatabase
  <2>1. running \subseteq {current} /\ running \subseteq Local
    BY <1>7 DEF CloseDatabase, TypeOK
  <2>2. running' = {} /\ pc' \in {"next", "cleanup"}
    BY <1>7, <2>1 DEF CloseDatabase, Down
  <2> QED
    BY <2>2
<1>8. CASE Invoke \/ CloseFails \/ Cleanup \/ Write \/ Kill
  BY <1>1, <1>8 DEF Invoke, CloseFails, Cleanup, Write, Kill
<1> QED
  BY <1>2, <1>3, <1>4, <1>5, <1>6, <1>7, <1>8 DEF Next, Step

\* A step keeps the results complete.
LEMMA ResultsStep ==
    ASSUME TypeOK, ResultsSoFar, Raising, Next
    PROVE  ResultsSoFar'
<1> USE DEF ResultsSoFar, Raising, Working
<1>1. CASE Invoke
  BY <1>1 DEF Invoke
<1>2. CASE StopFirst
  <2>1. pc = "stop" /\ pc' \in {"next", "off"} /\ todo' = todo
    BY <1>2 DEF StopFirst
  <2>2. \A d \in Databases : d \in Members(Order)
    BY OrderAssumption DEF Members
  <2> QED
    BY <2>1, <2>2
<1>3. CASE NextDatabase
  <2>1. CASE todo = <<>>
    <3>1. Members(todo) = {}
      BY <2>1 DEF Members
    <3> QED
      BY <1>3, <2>1, <3>1 DEF NextDatabase, rows
  <2>2. CASE todo # <<>>
    BY <1>3, <2>2 DEF NextDatabase, rows
  <2> QED
    BY <2>1, <2>2
<1>4. CASE ComposeUp \/ ContainerReady \/ Connect \/ CheckRepairs \/ PrepareSucceeds
  BY <1>4 DEF ComposeUp, ContainerReady, Connect, CheckRepairs, PrepareSucceeds, rows
<1>5. CASE CheckPasses \/ DatabaseFails
  <2>1. PICK r \in {"PASS", "FAILED"} : results' = [results EXCEPT ![current] = r]
    BY <1>5 DEF CheckPasses, DatabaseFails
  <2>2. pc \in Working /\ pc' = "close" /\ todo' = todo /\ current' = current
    BY <1>5 DEF CheckPasses, DatabaseFails, current
  <2>3. current \in Databases
    BY <2>2, FirstOfTodo DEF TypeOK, current
  <2>4. results'[current] # "none" /\ \A d \in Databases : results[d] # "none" => results'[d] # "none"
    BY <2>1, <2>3 DEF TypeOK
  <2> QED
    BY <2>2, <2>3, <2>4
<1>6. CASE CloseDatabase
  <2>1. todo # <<>> /\ todo \in Seq(Databases)
    BY <1>6 DEF CloseDatabase, TypeOK
  <2>2. Members(todo) = {current} \cup Members(todo')
    BY <1>6, <2>1, FirstOfTodo DEF CloseDatabase, current
  <2> QED
    BY <1>6, <2>2 DEF CloseDatabase, rows
<1>7. CASE CloseFails \/ Cleanup \/ Write
  BY <1>7 DEF CloseFails, Cleanup, Write, rows
<1>8. CASE Interrupt \/ Kill
  BY <1>8 DEF Interrupt, Kill
<1> QED
  BY <1>1, <1>2, <1>3, <1>4, <1>5, <1>6, <1>7, <1>8 DEF Next, Step

\* A step names every repair.
LEMMA RepairsStep ==
    ASSUME TypeOK, RepairsNamed, Next
    PROVE  RepairsNamed'
<1> USE DEF RepairsNamed, TypeOK, rows, store
<1>1. CASE Invoke
  BY <1>1 DEF Invoke, Unprepared
<1>2. CASE CheckRepairs \/ PrepareSucceeds
  BY <1>2 DEF CheckRepairs, PrepareSucceeds
<1>3. CASE ~Invoke /\ ~CheckRepairs /\ ~PrepareSucceeds
  <2>1. prepared' = prepared /\ repairs' = repairs
    BY <1>3 DEF Next, Step, StopFirst, NextDatabase, ComposeUp, ContainerReady, Connect, CheckPasses,
       DatabaseFails, Interrupt, CloseDatabase, CloseFails, Cleanup, Write, Kill
  <2> QED
    BY <2>1
<1> QED
  BY <1>1, <1>2, <1>3

\* A step is in the handler, and an exception on its way out, where they are.
LEMMA HandlerStep ==
    ASSUME TypeOK, InHandler, AtFalkor, Raising, Next
    PROVE  InHandler' /\ AtFalkor' /\ Raising'
BY DEF InHandler, AtFalkor, Raising, TypeOK, Working, Next, Step, Invoke, StopFirst, NextDatabase, ComposeUp,
   ContainerReady, Connect, CheckPasses, CheckRepairs, Mismatch, PrepareSucceeds, DatabaseFails,
   Interrupt, CloseDatabase, CloseFails, Cleanup, Write, Kill, current

\* A step takes each database once.
LEMMA OnceStep ==
    ASSUME TypeOK, InHandler, EachOnce, Next
    PROVE  EachOnce'
<1> USE DEF EachOnce, Untouched, Working, rows, store
<1>1. CASE Invoke
  <2>1. Distinct(Order) /\ Members(Order) \subseteq Databases
    BY OrderAssumption DEF Distinct, Members
  <2> QED
    BY <1>1, <2>1 DEF Invoke, NoResult, Unprepared
<1>2. CASE StopFirst
  BY <1>2 DEF StopFirst
<1>3. CASE NextDatabase
  <2>1. CASE todo = <<>>
    BY <1>3, <2>1 DEF NextDatabase
  <2>2. CASE todo # <<>>
    <3>1. Members(todo) = {current} \cup Members(Tail(todo)) /\ todo' = todo /\ current' = current
      BY <1>3, <2>2, FirstOfTodo DEF NextDatabase, TypeOK, current
    <3>2. pc = "next" /\ pc' \in Working /\ results' = results /\ prepared' = prepared
      BY <1>3, <2>2 DEF NextDatabase
    <3> QED
      BY <3>1, <3>2
  <2> QED
    BY <2>1, <2>2
<1>4. CASE ComposeUp \/ ContainerReady \/ Connect
  BY <1>4 DEF ComposeUp, ContainerReady, Connect, current
<1>5. CASE CheckPasses \/ CheckRepairs \/ PrepareSucceeds \/ DatabaseFails \/ Interrupt
  <2>1. pc \in Working /\ pc' \in Working \cup {"close"} /\ todo' = todo /\ current' = current
    BY <1>5 DEF CheckPasses, CheckRepairs, PrepareSucceeds, DatabaseFails, Interrupt, current
  <2>2. current \in Databases /\ current \notin Members(Tail(todo))
    BY <2>1, FirstOfTodo DEF TypeOK, current
  <2>3. /\ \A d \in Databases \ {current} : results'[d] = results[d] /\ prepared'[d] = prepared[d]
        /\ pc' \in Working => results'[current] = results[current] /\ retried'
    BY <1>5, <2>2 DEF CheckPasses, CheckRepairs, PrepareSucceeds, DatabaseFails, Interrupt, TypeOK,
       InHandler
  <2>4. Members(Tail(todo)) \subseteq Databases \ {current}
    <3>1. Members(todo) \subseteq Databases
      BY DEF TypeOK, Members
    <3> QED
      BY <2>1, <2>2, <3>1, FirstOfTodo DEF TypeOK, current
  <2> QED
    BY <2>1, <2>3, <2>4
<1>6. CASE CloseDatabase
  <2>1. pc = "close" /\ pc' \in {"next", "cleanup"} /\ todo' = Tail(todo) /\ Distinct(Tail(todo))
    BY <1>6, FirstOfTodo DEF CloseDatabase, TypeOK
  <2> QED
    BY <1>6, <2>1 DEF CloseDatabase
<1>7. CASE CloseFails \/ Cleanup \/ Write \/ Kill
  BY <1>7 DEF CloseFails, Cleanup, Write, Kill
<1> QED
  BY <1>1, <1>2, <1>3, <1>4, <1>5, <1>6, <1>7 DEF Next, Step

\* A step keeps what has passed after a repair whole.
LEMMA WholeStep ==
    ASSUME TypeOK, InHandler, EachOnce, Raising, WholeAfterRepair, Next
    PROVE  WholeAfterRepair'
<1> USE DEF WholeAfterRepair, Raising, Working, rows, store
<1>1. CASE Invoke
  BY <1>1 DEF Invoke, NoResult
<1>2. CASE StopFirst \/ NextDatabase
  BY <1>2 DEF StopFirst, NextDatabase
<1>3. CASE ComposeUp \/ ContainerReady \/ Connect
  BY <1>3 DEF ComposeUp, ContainerReady, Connect, InHandler, current
<1>4. CASE CheckPasses
  <2>1. current \in Databases /\ current' = current
    BY <1>4, FirstOfTodo DEF CheckPasses, TypeOK, current
  <2>2. prepared[current] # "no" => graph[current] = "whole" \/ raising
    BY <1>4 DEF CheckPasses, EachOnce
  <2> QED
    BY <1>4, <2>1, <2>2 DEF CheckPasses, TypeOK
<1>5. CASE CheckRepairs
  <2>1. current \in Databases
    BY <1>5, FirstOfTodo DEF CheckRepairs, TypeOK, current
  <2>2. results[current] # "PASS"
    BY <1>5 DEF CheckRepairs, EachOnce
  <2> QED
    BY <1>5, <2>1, <2>2 DEF CheckRepairs, TypeOK
<1>6. CASE PrepareSucceeds
  <2>1. current \in Databases /\ current' = current
    BY <1>6, FirstOfTodo DEF PrepareSucceeds, TypeOK, current
  <2>2. results[current] # "PASS"
    BY <1>6 DEF PrepareSucceeds, EachOnce
  <2> QED
    BY <1>6, <2>1, <2>2 DEF PrepareSucceeds, TypeOK
<1>7. CASE DatabaseFails
  <2>1. current \in Databases
    BY <1>7, FirstOfTodo DEF DatabaseFails, TypeOK, current
  <2>2. \A d \in Databases \ {current} : graph'[d] = graph[d]
    BY <1>7 DEF DatabaseFails, CutShort, TypeOK
  <2>3. results' = [results EXCEPT ![current] = "FAILED"] /\ prepared' = prepared /\ pc' = "close"
    BY <1>7 DEF DatabaseFails
  <2> QED
    BY <1>7, <2>1, <2>2, <2>3 DEF DatabaseFails, TypeOK
<1>8. CASE Interrupt \/ CloseDatabase \/ CloseFails \/ Cleanup \/ Write \/ Kill
  BY <1>8 DEF Interrupt, CloseDatabase, CloseFails, Cleanup, Write, Kill
<1> QED
  BY <1>1, <1>2, <1>3, <1>4, <1>5, <1>6, <1>7, <1>8 DEF Next, Step

\* The inductive invariant holds in every reachable state.
THEOREM Invariance == Spec => []IInv
<1>1. Init => IInv
  BY InitInv
<1>2. IInv /\ [Next]_vars => IInv'
  <2> SUFFICES ASSUME IInv, [Next]_vars PROVE IInv'
    OBVIOUS
  <2>1. CASE Next
    BY <2>1, TypeStep, UpStep, IsolationStep, ResultsStep, RepairsStep, HandlerStep, OnceStep,
       WholeStep DEF IInv
  <2>2. CASE UNCHANGED vars
    BY <2>2 DEF vars, IInv, TypeOK, LocalAtUp, Isolated, ResultsSoFar, RepairsNamed, InHandler,
       AtFalkor, EachOnce, Untouched, WholeAfterRepair, Raising, current
  <2> QED
    BY <2>1, <2>2
<1> QED
  BY <1>1, <1>2, PTL DEF Spec

\* Type correctness.
THEOREM TypeCorrect == Spec => []TypeOK
BY Invariance, PTL DEF IInv

\* If docker inspect tells the truth, no database is compared or repaired
\* beside the container of another one (mixed.py, validate_final_mixed_campaign).
THEOREM NoCompetitor ==
  ASSUME InspectFails = FALSE
  PROVE  Spec => []CompetitorsStopped
<1>1. IInv => CompetitorsStopped
  BY DEF IInv, Isolated, CompetitorsStopped, Working
<1> QED
  BY <1>1, Invariance, PTL

\* What is written down as passed and was loaded again for it holds the canonical
\* graph: a repair that is cut short, fails or is interrupted is never reported as
\* one that succeeded.
THEOREM RepairedIsCanonical == Spec => []PassedAfterRepair
<1>1. IInv => PassedAfterRepair
  BY DEF IInv, WholeAfterRepair, Raising, PassedAfterRepair
<1> QED
  BY <1>1, Invariance, PTL

\* What is written is about every database and names every one that was
\* loaded again.
THEOREM CompleteDocument == Spec => []WrittenIsComplete
<1>1. IInv => WrittenIsComplete
  BY DEF IInv, ResultsSoFar, RepairsNamed, Raising, WrittenIsComplete
<1> QED
  BY <1>1, Invariance, PTL

-----------------------------------------------------------------------------
(* Why an invocation comes to its end.                                     *)

\* How many steps it has left, at most: nine for each database still to do,
\* and those of the current one, with the repair that is tried once.
StepsLeft ==
    9 * Len(todo) + CASE pc = "stop"                -> 12
                      [] pc = "next"                -> 11
                      [] pc = "up"                  -> 10
                      [] pc = "wait"                -> 9
                      [] pc = "connect" /\ ~retried -> 8
                      [] pc = "check" /\ ~retried   -> 7
                      [] pc = "prepare"             -> 6
                      [] pc = "connect" /\ retried  -> 5
                      [] pc = "check" /\ retried    -> 4
                      [] pc = "close"               -> 3
                      [] pc = "cleanup"             -> 2
                      [] pc = "write"               -> 1
                      [] OTHER                      -> 0

LEMMA StepsLeftType ==
    ASSUME TypeOK
    PROVE  StepsLeft \in Nat /\ Len(todo) \in Nat
<1>1. Len(todo) \in Nat
  BY DEF TypeOK
<1> QED
  BY <1>1 DEF StepsLeft

LEMMA StepsLeftStep ==
    ASSUME TypeOK, TypeOK', InHandler, pc # "off", Next
    PROVE  StepsLeft' < StepsLeft \/ pc' = "off"
<1>1. Len(todo) \in Nat /\ Len(todo') \in Nat /\ retried \in BOOLEAN /\ retried' \in BOOLEAN
  BY DEF TypeOK
<1> USE <1>1 DEF StepsLeft
<1>2. CASE StopFirst
  BY <1>2 DEF StopFirst
<1>3. CASE NextDatabase
  BY <1>3 DEF NextDatabase
<1>4. CASE ComposeUp \/ ContainerReady \/ Connect
  BY <1>4 DEF ComposeUp, ContainerReady, Connect
<1>5. CASE CheckPasses \/ CheckRepairs \/ PrepareSucceeds
  BY <1>5 DEF CheckPasses, CheckRepairs, PrepareSucceeds, InHandler
<1>6. CASE DatabaseFails \/ Interrupt
  BY <1>6 DEF DatabaseFails, Interrupt, Working
<1>7. CASE CloseDatabase
  <2>1. todo # <<>> /\ todo \in Seq(Databases) /\ todo' = Tail(todo)
    BY <1>7 DEF CloseDatabase, TypeOK
  <2>2. Len(todo') = Len(todo) - 1
    BY <2>1
  <2>3. pc = "close" /\ pc' \in {"next", "cleanup"}
    BY <1>7 DEF CloseDatabase
  <2>4. StepsLeft = 9 * Len(todo) + 3 /\ StepsLeft' <= 9 * (Len(todo) - 1) + 11
    BY <2>2, <2>3
  <2> QED
    BY <2>4
<1>8. CASE CloseFails \/ Cleanup \/ Write
  BY <1>8 DEF CloseFails, Cleanup, Write
<1>9. CASE Invoke \/ Kill
  BY <1>9 DEF Invoke, Kill
<1> QED
  BY <1>2, <1>3, <1>4, <1>5, <1>6, <1>7, <1>8, <1>9 DEF Next, Step

\* A step of an invocation that is running ends it or leaves it fewer steps: no
\* repair is tried twice for a database, no database is taken twice, and a
\* command for n databases ends within 9 n + 12 steps.  What is left of
\* InvocationEnds is that the process takes its steps.
THEOREM Advances ==
    Spec => /\ [](StepsLeft \in Nat)
            /\ [][pc # "off" => StepsLeft' < StepsLeft \/ pc' = "off"]_vars
<1>0. TypeOK => StepsLeft \in Nat
  BY StepsLeftType
<1>1. TypeOK /\ TypeOK' /\ InHandler /\ [Next]_vars =>
          [pc # "off" => StepsLeft' < StepsLeft \/ pc' = "off"]_vars
  BY StepsLeftStep
<1>2. IInv => InHandler
  BY DEF IInv
<1> QED
  BY <1>0, <1>1, <1>2, TypeCorrect, Invariance, PTL DEF Spec
=============================================================================
