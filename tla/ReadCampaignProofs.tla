------------------------- MODULE ReadCampaignProofs -------------------------
(***************************************************************************)
(* Proofs about ReadCampaign: for any databases, workloads, rounds and     *)
(* attempts, and any number of invocations cut short anywhere.             *)
(***************************************************************************)
EXTENDS ReadCampaign, FiniteSetTheorems, TLAPS

\* The databases of a list.
Members(s) == {s[i] : i \in DOMAIN s}

DistinctList(s) == \A i, j \in 1..Len(s) : s[i] = s[j] => i = j

\* The order in which an invocation measures one database.
RoundBefore(p, q) == p.w < q.w \/ (p.w = q.w /\ p.round < q.round)
Before(p, q)      == RoundBefore(p, q) \/ (p.w = q.w /\ p.round = q.round /\ p.i < q.i)

\* Sample p of database d was measured by invocation r.
Has(d, p, r) == \E x \in raw : x.db = d /\ x.at = p /\ x.run = r

Preparing == {"up", "wait", "prepare", "preflight"}

\* There is a current database where there has to be one, and an invocation is
\* given each of its databases once.
AtDatabase ==
    /\ pc \in Working \cup {"close"} => todo # <<>>
    /\ pc = "up" => current \in Local
    /\ pc \notin {"off", "returned"} => run # 0
    /\ DistinctList(todo)

\* Where the loop stands in the measurements of the current database, and that
\* this invocation has measured all up to there and nothing behind it.
MeasuredSoFar ==
    /\ pc \in Preparing => at = First
    /\ pc \in {"drift", "summarise"} => at.i = Attempts
    /\ pc = "summarise" => at.round = Rounds
    /\ pc \in Measuring =>
          /\ \A p \in Position : Before(p, at) => Has(current, p, run)
          /\ pc # "measure" => Has(current, at, run)
          /\ \A x \in raw : x.db = current /\ x.run = run =>
                Before(x.at, at) \/ (pc # "measure" /\ x.at = at)

\* Nothing is in the raw file of the databases that are still to come.
NothingAhead ==
    /\ \A x \in raw : x.run <= run
    /\ pc \in {"begin", "stop", "next"} \cup Preparing =>
          \A x \in raw : x.run = run => x.db \notin Members(todo)
    /\ pc \in Working \cup {"close"} =>
          \A x \in raw : x.run = run => x.db \notin Members(Tail(todo))

\* What an invocation has measured of a database it has measured from the start.
Prefixes == \A x \in raw : \A p \in Position : Before(p, x.at) => Has(x.db, p, x.run)

\* A round with a wrong answer was the last of its invocation and database.
WrongIsLast ==
    /\ \A s, x \in raw :
          s.db = x.db /\ s.run = x.run /\ RoundBefore(s.at, x.at) /\ s.at.w # Workloads =>
             s.result # "wrong"
    /\ pc \in Measuring =>
          \A s \in raw : s.db = current /\ s.run = run /\ s.at.w # Workloads /\ s.result = "wrong" =>
             pc # "summarise" /\ ~ RoundBefore(s.at, at)

\* The rows, in memory and on disk, stand on raw records of their invocation.
Backed ==
    /\ \A s \in summaries \cup files.summaries : \A p \in Position :
          p.w = s.w => Has(s.db, p, s.run)
    /\ \A s \in rounds \cup files.rounds : \E x \in raw : x.db = s.db /\ x.run = s.run

\* The manifest of a campaign that has returned is true of the raw file.
TrueManifest ==
    pc = "returned" =>
        /\ files.manifest.valid => Valid
        /\ files.manifest.status = "complete" => Valid

\* A container that runs beside the current database has its error.
Recorded ==
    ~InspectFails =>
        /\ pc = "next" => \A d \in running : ErrorOf("stop", d) \in errors
        /\ pc \in Working \cup {"close"} =>
              \A d \in running \ {current} : ErrorOf("stop", d) \in errors

\* The failed operations behind these summaries are in these errors.
ListedIn(sums, errs) ==
    \A s \in sums : s.fails => [kind |-> "sample", db |-> s.db, run |-> s.run] \in errs

\* Failed samples are in the errors at once, those behind summaries when the
\* errors are written.
Listed ==
    ~Kills =>
        /\ pc \in Measuring =>
              \A x \in raw : x.db = current /\ x.run = run /\ x.result = "failed" =>
                 ErrorOf("sample", current) \in errors
        /\ pc \notin {"off", "begin"} => ListedIn(summaries, errors)
        /\ pc \in {"writeRounds", "writeErrors"} => files.summaries = summaries
        /\ pc \notin {"writeRounds", "writeErrors"} => ListedIn(files.summaries, files.errors)

\* The inductive invariant.
IInv ==
    /\ TypeOK /\ AtDatabase /\ IsFiniteSet(raw)
    /\ MeasuredSoFar /\ NothingAhead /\ Prefixes /\ WrongIsLast
    /\ Backed /\ TrueManifest /\ Recorded /\ Listed

-----------------------------------------------------------------------------
(* Lists and positions.                                                    *)

LEMMA FirstIsPosition ==
    First \in Position /\ \A p \in Position : ~ Before(p, First)
BY ShapeAssumption DEF First, Position, Workload, Round, Before, RoundBefore

\* The first database of the list, and the rest.
LEMMA FirstOfList ==
    ASSUME NEW s \in Seq(Databases), s # <<>>
    PROVE  /\ Head(s) \in Databases /\ Tail(s) \in Seq(Databases)
           /\ Members(s) = {Head(s)} \cup Members(Tail(s))
           /\ DistinctList(s) => DistinctList(Tail(s)) /\ Head(s) \notin Members(Tail(s))
<1>1. Head(s) = s[1] /\ 1 \in DOMAIN s /\ Tail(s) \in Seq(Databases) /\ Head(s) \in Databases
  OBVIOUS
<1>2. \A i \in DOMAIN Tail(s) : i + 1 \in DOMAIN s /\ Tail(s)[i] = s[i + 1] /\ i # 0
  OBVIOUS
<1>3. \A i \in DOMAIN s : i # 1 => i - 1 \in DOMAIN Tail(s) /\ Tail(s)[i - 1] = s[i]
  OBVIOUS
<1>4. Members(s) = {Head(s)} \cup Members(Tail(s))
  <2>1. Members(s) \subseteq {Head(s)} \cup Members(Tail(s))
    BY <1>1, <1>3 DEF Members
  <2>2. {Head(s)} \cup Members(Tail(s)) \subseteq Members(s)
    BY <1>1, <1>2 DEF Members
  <2> QED
    BY <2>1, <2>2
<1>5. ASSUME DistinctList(s) PROVE DistinctList(Tail(s))
  <2>1. DOMAIN s = 1..Len(s) /\ DOMAIN Tail(s) = 1..Len(Tail(s)) /\ Len(Tail(s)) \in Nat
    OBVIOUS
  <2> SUFFICES ASSUME NEW i \in 1..Len(Tail(s)), NEW j \in 1..Len(Tail(s)), Tail(s)[i] = Tail(s)[j]
               PROVE  i = j
    BY DEF DistinctList
  <2>2. i + 1 = j + 1
    BY <1>2, <1>5, <2>1 DEF DistinctList
  <2> QED
    BY <2>1, <2>2
<1>6. ASSUME DistinctList(s) PROVE Head(s) \notin Members(Tail(s))
  <2> SUFFICES ASSUME NEW i \in DOMAIN Tail(s), Tail(s)[i] = Head(s) PROVE FALSE
    BY DEF Members
  <2>1. i + 1 = 1
    BY <1>1, <1>2, <1>6 DEF DistinctList
  <2>2. i \in Nat
    OBVIOUS
  <2> QED
    BY <1>2, <2>1, <2>2
<1> QED
  BY <1>1, <1>4, <1>5, <1>6

LEMMA CurrentIsDatabase ==
    ASSUME TypeOK, todo # <<>>
    PROVE  current \in Databases /\ Tail(todo) \in Seq(Databases)
BY FirstOfList DEF TypeOK, current

-----------------------------------------------------------------------------
(* Types.                                                                  *)

\* What a process leaves behind when it goes is typed.
LEMMA GoneTypes ==
    ASSUME Gone
    PROVE  /\ pc' = "off" /\ todo' \in Seq(Databases) /\ at' \in Position
           /\ adapter' \in BOOLEAN /\ raising' \in BOOLEAN
           /\ ingest' \subseteq IngestRow /\ rounds' \subseteq RoundRow
           /\ summaries' \subseteq Summary /\ errors' \subseteq Error
           /\ failures' \subseteq Databases \cup {"fairness"}
<1>1. todo' \in Seq(Databases) /\ at' \in Position
  BY FirstIsPosition DEF Gone
<1> QED
  BY <1>1 DEF Gone

\* An error of this invocation.
LEMMA ErrorType ==
    ASSUME TypeOK, AtDatabase, pc \notin {"off", "returned"}, NEW d \in Databases,
           NEW kind \in {"sample", "platform", "stop"}
    PROVE  ErrorOf(kind, d) \in Error /\ run \in 1..MaxRuns
<1>1. run \in 1..MaxRuns
  BY BoundsAssumption DEF TypeOK, AtDatabase
<1> QED
  BY <1>1 DEF ErrorOf, Error

LEMMA TypeInit == Init => TypeOK
<1> SUFFICES ASSUME Init PROVE TypeOK
  OBVIOUS
<1>1. todo \in Seq(Databases) /\ at \in Position /\ run \in 0..MaxRuns
  BY FirstIsPosition, BoundsAssumption DEF Init
<1>2. files \in [ingest : SUBSET IngestRow, rounds : SUBSET RoundRow,
                 summaries : SUBSET Summary, errors : SUBSET Error,
                 manifest : [status : {"running", "complete",
                                       "complete_with_measured_failures", "incomplete"},
                             valid : BOOLEAN]]
  BY DEF Init
<1> QED
  BY <1>1, <1>2 DEF Init, TypeOK

LEMMA TypeStep ==
    ASSUME TypeOK, AtDatabase, Next
    PROVE  TypeOK'
<1> USE DEF TypeOK, Working, Measuring
<1>1. CASE \E dbs \in Requests : Invoke(dbs)
  <2> PICK dbs \in Requests : Invoke(dbs)
    BY <1>1
  <2>1. run' \in 0..MaxRuns /\ todo' \in Seq(Databases) /\ at' \in Position
    BY BoundsAssumption, RequestsAssumption, FirstIsPosition DEF Invoke
  <2> QED
    BY <2>1 DEF Invoke, disk
<1>2. CASE Begin
  <2>1. files' \in [ingest : SUBSET IngestRow, rounds : SUBSET RoundRow,
                    summaries : SUBSET Summary, errors : SUBSET Error,
                    manifest : [status : {"running", "complete",
                                          "complete_with_measured_failures", "incomplete"},
                                valid : BOOLEAN]]
    <3>1. [status |-> "running", valid |-> FALSE] \in
             [status : {"running", "complete", "complete_with_measured_failures", "incomplete"},
              valid : BOOLEAN]
      OBVIOUS
    <3> QED
      BY <1>2, <3>1 DEF Begin
  <2>2. CASE torn \cap FileName = {}
    BY <1>2, <2>1, <2>2 DEF Begin
  <2>3. CASE torn \cap FileName # {}
    <3>1. Gone
      BY <1>2, <2>3 DEF Begin
    <3> QED
      BY <1>2, <2>1, <3>1, GoneTypes DEF Begin
  <2> QED
    BY <2>2, <2>3
<1>3. CASE StopFirst
  BY <1>3 DEF StopFirst, StopLocal, StopLocalFails, memory, disk
<1>4. CASE NextDatabase
  BY <1>4, FirstIsPosition DEF NextDatabase, memory, disk
<1>5. CASE ComposeUp
  BY <1>5 DEF ComposeUp, Up, AtDatabase, memory, disk
<1>6. CASE ContainerReady \/ PreflightPasses
  BY <1>6 DEF ContainerReady, PreflightPasses, memory, disk
<1>7. CASE PrepareSucceeds
  <2>1. [db |-> current, run |-> run] \in IngestRow
    BY <1>7, CurrentIsDatabase, ErrorType DEF PrepareSucceeds, IngestRow, AtDatabase
  <2> QED
    BY <1>7, <2>1 DEF PrepareSucceeds, disk
<1>8. CASE MeasureSample
  <2>1. current \in Databases
    BY <1>8, CurrentIsDatabase DEF MeasureSample, AtDatabase
  <2>2. run \in 1..MaxRuns /\ ErrorOf("sample", current) \in Error
    BY <1>8, <2>1, ErrorType DEF MeasureSample
  <2>3. \A result \in Results :
           [db |-> current, at |-> at, run |-> run, result |-> result] \in Sample
    BY <2>1, <2>2 DEF Sample
  <2>4. at' \in Position
    BY <1>8, ShapeAssumption DEF MeasureSample, Position
  <2> QED
    BY <1>8, <2>2, <2>3, <2>4 DEF MeasureSample
<1>9. CASE EndRound
  <2>1. current \in Databases /\ run \in 1..MaxRuns
    BY <1>9, CurrentIsDatabase, ErrorType DEF EndRound, AtDatabase
  <2>2. at' \in Position /\ at.w \in Workload /\ at.round \in Round
    <3>1. at.w \in Workload /\ at.round \in Round /\ 1 \in 1..Attempts
      BY ShapeAssumption DEF Position
    <3>2. CASE at.round < Rounds
      <4>1. at.round + 1 \in Round
        BY <3>1, <3>2, ShapeAssumption DEF Round
      <4> QED
        BY <1>9, <3>1, <3>2, <4>1 DEF EndRound, Position
    <3>3. CASE ~ (at.round < Rounds)
      BY <1>9, <3>1, <3>3 DEF EndRound
    <3> QED
      BY <3>1, <3>2, <3>3
  <2>3. [db |-> current, w |-> at.w, round |-> at.round, run |-> run] \in RoundRow
    BY <2>1, <2>2 DEF RoundRow
  <2> QED
    BY <1>9, <2>2, <2>3 DEF EndRound, disk
<1>10. CASE Summarise
  <2>1. current \in Databases /\ run \in 1..MaxRuns
    BY <1>10, CurrentIsDatabase, ErrorType DEF Summarise, AtDatabase
  <2>2. at' \in Position /\ at.w \in Workload
    BY <1>10, ShapeAssumption DEF Summarise, Position, Round, Workload
  <2>3. \A b \in BOOLEAN : [db |-> current, w |-> at.w, run |-> run, fails |-> b] \in Summary
    BY <2>1, <2>2 DEF Summary
  <2>4. summaries' \subseteq Summary
    BY <1>10, <2>3 DEF Summarise
  <2> QED
    BY <1>10, <2>2, <2>4 DEF Summarise, disk
<1>11. CASE DatabaseFails
  <2>1. current \in Databases /\ ErrorOf("platform", current) \in Error
    BY <1>11, CurrentIsDatabase, ErrorType DEF DatabaseFails, AtDatabase
  <2> QED
    BY <1>11, <2>1 DEF DatabaseFails, UpFails, disk
<1>12. CASE CloseDatabase
  <2>1. current \in Databases /\ Tail(todo) \in Seq(Databases) /\ ErrorOf("stop", current) \in Error
    BY <1>12, CurrentIsDatabase, ErrorType DEF CloseDatabase, AtDatabase
  <2> QED
    BY <1>12, <2>1 DEF CloseDatabase, Down, DownFails, disk
<1>13. CASE CloseFails \/ Interrupt
  BY <1>13 DEF CloseFails, Interrupt, memory, disk
<1>14. CASE Cleanup
  <2>1. CASE raising
    <3>1. Gone
      BY <1>14, <2>1 DEF Cleanup
    <3> QED
      BY <1>14, <2>1, <3>1, GoneTypes DEF Cleanup, StopLocal, StopLocalFails, disk
  <2>2. CASE ~raising
    <3>1. running' \subseteq Local
      BY <1>14, <2>2 DEF Cleanup, StopLocal, StopLocalFails
    <3>2. \A d \in running' : ErrorOf("stop", d) \in Error
      BY <1>14, <3>1, ErrorType, DatabasesAssumption DEF Cleanup
    <3> QED
      BY <1>14, <2>2, <3>1, <3>2 DEF Cleanup, disk
  <2> QED
    BY <2>1, <2>2
<1>15. CASE WriteIngest
  BY <1>15 DEF WriteIngest, Write, memory
<1>16. CASE WriteSummaries
  BY <1>16 DEF WriteSummaries, Write, memory
<1>17. CASE WriteRounds
  BY <1>17 DEF WriteRounds, Write, memory
<1>18. CASE WriteErrors
  BY <1>18 DEF WriteErrors, Write, memory
<1>19. CASE Fairness
  BY <1>19 DEF Fairness, disk
<1>20. CASE WriteManifest
  <2>1. [status |-> Status, valid |-> Valid] \in
           [status : {"running", "complete", "complete_with_measured_failures", "incomplete"},
            valid : BOOLEAN]
    BY DEF Status, Valid
  <2> HIDE DEF Valid, Status
  <2> QED
    BY <1>20, <2>1 DEF WriteManifest, Write, memory
<1>21. CASE ValidateFails
  BY <1>21, GoneTypes DEF ValidateFails, disk
<1>22. CASE Kill
  <2>1. BeingWritten \subseteq FileName \cup {"raw"}
    BY DEF BeingWritten, FileName
  <2> QED
    BY <1>22, <2>1, GoneTypes DEF Kill
<1>23. CASE Over
  BY <1>23 DEF Over, vars, memory, disk
<1> QED
  BY <1>1, <1>2, <1>3, <1>4, <1>5, <1>6, <1>7, <1>8, <1>9, <1>10, <1>11, <1>12, <1>13, <1>14, <1>15,
     <1>16, <1>17, <1>18, <1>19, <1>20, <1>21, <1>22, <1>23 DEF Next, ProcessStep

-----------------------------------------------------------------------------
(* Where the process stands.                                               *)

LEMMA AtDatabaseStep ==
    ASSUME TypeOK, AtDatabase, Next
    PROVE  AtDatabase'
<1> USE DEF AtDatabase, Working, Measuring
<1>1. CASE \E dbs \in Requests : Invoke(dbs)
  <2> PICK dbs \in Requests : Invoke(dbs)
    BY <1>1
  <2>1. run' # 0
    BY BoundsAssumption DEF Invoke, TypeOK
  <2>2. DistinctList(todo')
    BY RequestsAssumption DEF Invoke, DistinctList
  <2> QED
    BY <2>1, <2>2 DEF Invoke
<1>2. CASE Gone
  <2>1. DistinctList(<<>>)
    BY DEF DistinctList
  <2> QED
    BY <1>2, <2>1 DEF Gone
<1>3. CASE NextDatabase
  BY <1>3 DEF NextDatabase, current
<1>4. CASE CloseDatabase
  <2>1. DistinctList(Tail(todo))
    BY <1>4, FirstOfList DEF CloseDatabase, TypeOK
  <2> QED
    BY <1>4, <2>1 DEF CloseDatabase
<1>5. CASE todo' = todo /\ run' = run /\ ~ NextDatabase /\ pc # "off" /\ pc # "returned"
  <2>1. pc' # "up"
    BY <1>5 DEF Next, ProcessStep, Begin, StopFirst, ComposeUp, ContainerReady, PrepareSucceeds,
       PreflightPasses, MeasureSample, EndRound, Summarise, DatabaseFails, CloseDatabase, CloseFails,
       Cleanup, WriteIngest, WriteSummaries, WriteRounds, WriteErrors, Fairness, WriteManifest,
       ValidateFails, Interrupt, Kill, Over, Gone, Invoke
  <2>2. pc' \in Working \cup {"close"} => pc \in Working
    BY <1>5 DEF Next, ProcessStep, Begin, StopFirst, ComposeUp, ContainerReady, PrepareSucceeds,
       PreflightPasses, MeasureSample, EndRound, Summarise, DatabaseFails, CloseDatabase, CloseFails,
       Cleanup, WriteIngest, WriteSummaries, WriteRounds, WriteErrors, Fairness, WriteManifest,
       ValidateFails, Interrupt, Kill, Over, Gone, Invoke
  <2> QED
    BY <1>5, <2>1, <2>2
<1>6. CASE Over
  BY <1>6 DEF Over, vars, current
<1>7. CASE Next /\ ~ Gone /\ ~ (\E dbs \in Requests : Invoke(dbs)) /\ ~ CloseDatabase /\ ~ Over
  <2>1. todo' = todo /\ run' = run /\ pc # "off" /\ pc # "returned"
    BY <1>7 DEF Next, ProcessStep, Begin, StopFirst, NextDatabase, ComposeUp, ContainerReady,
       PrepareSucceeds, PreflightPasses, MeasureSample, EndRound, Summarise, DatabaseFails,
       CloseFails, Cleanup, WriteIngest, WriteSummaries, WriteRounds, WriteErrors, Fairness,
       WriteManifest, ValidateFails, Interrupt, Kill, Write
  <2> QED
    BY <1>3, <1>5, <2>1
<1> QED
  BY <1>1, <1>2, <1>4, <1>6, <1>7

\* The raw file only grows, by samples, and it is finite.
LEMMA RawGrows ==
    ASSUME Next
    PROVE  \/ MeasureSample
           \/ raw' = raw
<1>1. CASE \E dbs \in Requests : Invoke(dbs)
  BY <1>1 DEF Invoke, disk
<1>2. CASE ProcessStep
  BY <1>2 DEF ProcessStep, Begin, StopFirst, NextDatabase, ComposeUp, ContainerReady,
     PrepareSucceeds, PreflightPasses, EndRound, Summarise, DatabaseFails, CloseDatabase,
     CloseFails, Cleanup, WriteIngest, WriteSummaries, WriteRounds, WriteErrors, Fairness,
     WriteManifest, ValidateFails, Write, disk
<1>3. CASE Interrupt \/ Kill \/ Over
  BY <1>3 DEF Interrupt, Kill, Over, vars, disk
<1> QED
  BY <1>1, <1>2, <1>3 DEF Next

\* A sample that is measured.
LEMMA NewSample ==
    ASSUME TypeOK, AtDatabase, MeasureSample
    PROVE  \E new : /\ raw' = raw \cup {new}
                    /\ new.db = current /\ new.at = at /\ new.run = run
                    /\ errors \subseteq errors'
                    /\ new.result = "failed" => ErrorOf("sample", current) \in errors'
<1>1. PICK result \in Results :
         /\ raw' = raw \cup {[db |-> current, at |-> at, run |-> run, result |-> result]}
         /\ errors' = IF result = "failed" THEN errors \cup {ErrorOf("sample", current)}
                      ELSE errors
  BY DEF MeasureSample
<1> DEFINE new == [db |-> current, at |-> at, run |-> run, result |-> result]
<1>2. new.db = current /\ new.at = at /\ new.run = run /\ new.result = result
  OBVIOUS
<1>3. errors \subseteq errors' /\ (result = "failed" => ErrorOf("sample", current) \in errors')
  BY <1>1
<1>4. raw' = raw \cup {new}
  BY <1>1
<1> HIDE DEF new
<1> QED
  BY <1>2, <1>3, <1>4

LEMMA FiniteStep ==
    ASSUME TypeOK, AtDatabase, IsFiniteSet(raw), Next
    PROVE  IsFiniteSet(raw')
<1>1. CASE MeasureSample
  BY <1>1, NewSample, FS_AddElement
<1> QED
  BY <1>1, RawGrows

\* What was measured stays measured.
LEMMA HasStays ==
    ASSUME TypeOK, AtDatabase, Next, NEW d, NEW p, NEW r, Has(d, p, r)
    PROVE  Has(d, p, r)'
<1>1. raw \subseteq raw'
  <2>1. CASE MeasureSample
    BY <2>1, NewSample
  <2> QED
    BY <2>1, RawGrows
<1> QED
  BY <1>1 DEF Has

\* The order of the samples: the next of a round, of the next round, of the
\* next workload.
LEMMA Successor ==
    ASSUME NEW a \in Position, NEW b,
           \/ b.w = a.w /\ b.round = a.round /\ b.i = a.i + 1
           \/ a.i = Attempts /\ b.w = a.w /\ b.round = a.round + 1 /\ b.i = 1
           \/ a.i = Attempts /\ a.round = Rounds /\ b.w = a.w + 1 /\ b.round = 1 /\ b.i = 1
    PROVE  \A p \in Position : Before(p, b) <=> Before(p, a) \/ p = a
<1> SUFFICES ASSUME NEW p \in Position PROVE Before(p, b) <=> Before(p, a) \/ p = a
  OBVIOUS
<1>1. /\ a.w \in Nat /\ a.round \in 1..Rounds /\ a.i \in 1..Attempts
      /\ p.w \in Nat /\ p.round \in 1..Rounds /\ p.i \in 1..Attempts
  BY ShapeAssumption DEF Position, Workload, Round
<1>2. p = a <=> p.w = a.w /\ p.round = a.round /\ p.i = a.i
  BY DEF Position
<1> QED
  BY <1>1, <1>2, ShapeAssumption DEF Before, RoundBefore

\* All there is of the current workload comes before its last sample, or is it.
LEMMA LastOfWorkload ==
    ASSUME NEW a \in Position, NEW p \in Position, a.i = Attempts, a.round = Rounds, p.w = a.w
    PROVE  Before(p, a) \/ p = a
<1>1. /\ a.w \in Nat /\ p.round \in 1..Rounds /\ p.i \in 1..Attempts
  BY ShapeAssumption DEF Position, Workload, Round
<1>2. p = a <=> p.w = a.w /\ p.round = a.round /\ p.i = a.i
  BY DEF Position
<1> QED
  BY <1>1, <1>2, ShapeAssumption DEF Before, RoundBefore

-----------------------------------------------------------------------------
(* What has been measured.                                                 *)

\* Where a step leaves the process in the middle of a database.
LEMMA StaysAt ==
    ASSUME Next, pc' \in Preparing \cup Measuring
    PROVE  \/ NextDatabase \/ PreflightPasses \/ MeasureSample \/ EndRound \/ Summarise
           \/ /\ pc \in Preparing /\ pc' \in Preparing
              /\ UNCHANGED <<run, todo, at, raw>>
           \/ Over
<1> USE DEF Preparing, Measuring
<1>1. CASE \E dbs \in Requests : Invoke(dbs)
  BY <1>1 DEF Invoke
<1>2. CASE ComposeUp \/ ContainerReady \/ PrepareSucceeds
  BY <1>2 DEF ComposeUp, ContainerReady, PrepareSucceeds, disk
<1>3. CASE Interrupt \/ Kill
  BY <1>3 DEF Interrupt, Kill, Gone
<1>4. CASE \/ Begin \/ StopFirst \/ DatabaseFails \/ CloseDatabase \/ CloseFails \/ Cleanup
           \/ WriteIngest \/ WriteSummaries \/ WriteRounds \/ WriteErrors \/ Fairness
           \/ WriteManifest \/ ValidateFails
  BY <1>4 DEF Begin, StopFirst, DatabaseFails, CloseDatabase, CloseFails, Cleanup, WriteIngest,
     WriteSummaries, WriteRounds, WriteErrors, Fairness, WriteManifest, ValidateFails, Gone
<1> QED
  BY <1>1, <1>2, <1>3, <1>4 DEF Next, ProcessStep

LEMMA MeasuredStep ==
    ASSUME TypeOK, AtDatabase, MeasuredSoFar, NothingAhead, Next
    PROVE  MeasuredSoFar'
<1> USE DEF Preparing, Measuring
<1>1. CASE pc' \notin Preparing \cup Measuring
  BY <1>1 DEF MeasuredSoFar
<1>2. CASE NextDatabase
  BY <1>2 DEF NextDatabase, MeasuredSoFar
<1>3. CASE PreflightPasses
  <2>1. /\ pc' = "measure" /\ at' = at /\ run' = run /\ raw' = raw /\ current' = current
        /\ at = First
    BY <1>3 DEF PreflightPasses, MeasuredSoFar, current, disk
  <2>2. current \in Members(todo)
    BY <1>3, FirstOfList DEF PreflightPasses, AtDatabase, Working, TypeOK, current
  <2>3. \A x \in raw : ~ (x.db = current /\ x.run = run)
    BY <1>3, <2>2 DEF PreflightPasses, NothingAhead
  <2> QED
    BY <2>1, <2>3, FirstIsPosition DEF MeasuredSoFar
<1>4. CASE MeasureSample
  <2>1. PICK new : raw' = raw \cup {new} /\ new.db = current /\ new.at = at /\ new.run = run
    BY <1>4, NewSample
  <2>2. pc = "measure" /\ run' = run /\ current' = current
    BY <1>4 DEF MeasureSample, current
  <2>3. \E x \in raw' : x.db = current /\ x.at = at /\ x.run = run
    BY <2>1
  <2>4. \A p \in Position : Before(p, at) => Has(current, p, run)'
    BY <2>1, <2>2 DEF Has, MeasuredSoFar
  <2>5. CASE at.i < Attempts
    <3>1. at' = [at EXCEPT !.i = @ + 1] /\ pc' = "measure"
      BY <1>4, <2>2, <2>5 DEF MeasureSample
    <3>2. \A p \in Position : Before(p, at') <=> Before(p, at) \/ p = at
      <4>1. at \in Position
        BY DEF TypeOK
      <4>2. at'.w = at.w /\ at'.round = at.round /\ at'.i = at.i + 1
        BY <3>1, <4>1 DEF Position
      <4> QED
        BY <4>1, <4>2, Successor
    <3>3. \A x \in raw : x.at \in Position
      BY DEF TypeOK, Sample
    <3>4. \A x \in raw' : x.db = current /\ x.run = run => Before(x.at, at')
      BY <2>1, <2>2, <3>2, <3>3 DEF MeasuredSoFar, TypeOK
    <3>5. \A p \in Position : Before(p, at') => Has(current, p, run)'
      BY <2>2, <2>3, <2>4, <3>2 DEF Has
    <3> QED
      BY <2>2, <3>1, <3>4, <3>5 DEF MeasuredSoFar
  <2>6. CASE ~ (at.i < Attempts)
    <3>1. at' = at /\ pc' = "drift" /\ at.i = Attempts
      BY <1>4, <2>2, <2>6, ShapeAssumption DEF MeasureSample, TypeOK, Position
    <3>2. \A x \in raw' : x.db = current /\ x.run = run => Before(x.at, at) \/ x.at = at
      BY <2>1, <2>2 DEF MeasuredSoFar
    <3> QED
      BY <2>2, <2>3, <2>4, <3>1, <3>2 DEF MeasuredSoFar, Has
  <2> QED
    BY <2>5, <2>6
<1>5. CASE EndRound \/ Summarise
  <2>1. run' = run /\ raw' = raw /\ current' = current /\ at.i = Attempts
    BY <1>5 DEF EndRound, Summarise, MeasuredSoFar, current, disk
  <2>2. /\ \A p \in Position : Before(p, at) => Has(current, p, run)
        /\ Has(current, at, run)
        /\ \A x \in raw : x.db = current /\ x.run = run => Before(x.at, at) \/ x.at = at
    BY <1>5 DEF EndRound, Summarise, MeasuredSoFar
  <2>3. CASE pc' = "measure"
    <3>1. \/ at' = [at EXCEPT !.round = @ + 1, !.i = 1]
          \/ at.round = Rounds /\ at' = [w |-> at.w + 1, round |-> 1, i |-> 1]
      BY <1>5, <2>3 DEF EndRound, Summarise, MeasuredSoFar
    <3>2. \A p \in Position : Before(p, at') <=> Before(p, at) \/ p = at
      <4>1. at \in Position
        BY DEF TypeOK
      <4>2. CASE at' = [at EXCEPT !.round = @ + 1, !.i = 1]
        <5>1. at'.w = at.w /\ at'.round = at.round + 1 /\ at'.i = 1
          BY <4>1, <4>2 DEF Position
        <5> QED
          BY <2>1, <4>1, <5>1, Successor
      <4>3. CASE at.round = Rounds /\ at' = [w |-> at.w + 1, round |-> 1, i |-> 1]
        <5>1. at'.w = at.w + 1 /\ at'.round = 1 /\ at'.i = 1
          BY <4>3
        <5> QED
          BY <2>1, <4>1, <4>3, <5>1, Successor
      <4> QED
        BY <3>1, <4>2, <4>3
    <3>3. \A x \in raw : x.at \in Position
      BY DEF TypeOK, Sample
    <3>4. \A p \in Position : Has(current, p, run)' <=> Has(current, p, run)
      BY <2>1 DEF Has
    <3> QED
      BY <2>1, <2>2, <2>3, <3>2, <3>3, <3>4 DEF MeasuredSoFar
  <2>4. CASE pc' = "summarise"
    <3>1. at' = at /\ at.round = Rounds
      BY <1>5, <2>4, ShapeAssumption DEF EndRound, Summarise, TypeOK, Position, Round
    <3>2. \A p : Has(current, p, run)' <=> Has(current, p, run)
      BY <2>1 DEF Has
    <3> QED
      BY <2>1, <2>2, <2>4, <3>1, <3>2 DEF MeasuredSoFar
  <2> QED
    BY <1>1, <1>5, <2>3, <2>4 DEF EndRound, Summarise
<1>6. CASE pc \in Preparing /\ pc' \in Preparing /\ UNCHANGED <<run, todo, at, raw>>
  BY <1>6 DEF MeasuredSoFar
<1>7. CASE Over
  BY <1>7 DEF Over, vars, disk, MeasuredSoFar
<1> QED
  BY <1>1, <1>2, <1>3, <1>4, <1>5, <1>6, <1>7, StaysAt

LEMMA AheadStep ==
    ASSUME TypeOK, AtDatabase, NothingAhead, Next
    PROVE  NothingAhead'
<1> USE DEF Preparing, Working, Measuring
<1>1. CASE \E dbs \in Requests : Invoke(dbs)
  <2>1. pc' = "begin" /\ run' = run + 1 /\ raw' = raw /\ run \in Nat
    BY <1>1, BoundsAssumption DEF Invoke, disk, TypeOK
  <2>2. \A x \in raw : x.run \in Nat /\ x.run <= run
    BY DEF TypeOK, Sample, NothingAhead
  <2> QED
    BY <2>1, <2>2 DEF NothingAhead
<1>2. CASE MeasureSample
  <2>1. PICK new : raw' = raw \cup {new} /\ new.db = current /\ new.at = at /\ new.run = run
    BY <1>2, NewSample
  <2>2. pc = "measure" /\ run' = run /\ todo' = todo /\ pc' \in {"measure", "drift"}
    BY <1>2 DEF MeasureSample
  <2>3. current \notin Members(Tail(todo))
    BY <2>2, FirstOfList DEF AtDatabase, TypeOK, current
  <2>4. run \in Nat
    BY BoundsAssumption DEF TypeOK
  <2> QED
    BY <2>1, <2>2, <2>3, <2>4 DEF NothingAhead
<1>3. CASE NextDatabase
  <2>1. pc = "next" /\ run' = run /\ todo' = todo /\ raw' = raw
        /\ pc' \in {"cleanup", "up", "prepare"} /\ (todo = <<>> => pc' = "cleanup")
    BY <1>3 DEF NextDatabase, disk
  <2>2. todo # <<>> => Members(Tail(todo)) \subseteq Members(todo)
    BY FirstOfList DEF TypeOK
  <2> QED
    BY <2>1, <2>2 DEF NothingAhead
<1>4. CASE CloseDatabase
  BY <1>4 DEF CloseDatabase, NothingAhead, disk
<1>5. CASE Gone /\ raw' = raw /\ run' = run
  BY <1>5 DEF Gone, NothingAhead
<1>6. CASE \/ StopFirst \/ ComposeUp \/ ContainerReady \/ PrepareSucceeds
           \/ PreflightPasses \/ EndRound \/ Summarise \/ DatabaseFails \/ CloseFails \/ Interrupt
  <2>1. UNCHANGED <<run, todo, raw>>
    BY <1>6 DEF StopFirst, ComposeUp, ContainerReady, PrepareSucceeds,
       PreflightPasses, EndRound, Summarise, DatabaseFails, CloseFails, Interrupt, disk
  <2>2. /\ pc' \in {"begin", "stop", "next"} \cup Preparing =>
              pc \in {"begin", "stop", "next"} \cup Preparing
        /\ pc' \in Working \cup {"close"} => pc \in Working \cup {"close"}
    BY <1>6 DEF StopFirst, ComposeUp, ContainerReady, PrepareSucceeds,
       PreflightPasses, EndRound, Summarise, DatabaseFails, CloseFails, Interrupt
  <2> QED
    BY <2>1, <2>2 DEF NothingAhead
<1>7. CASE Begin
  BY <1>5, <1>7 DEF Begin, NothingAhead
<1>8. CASE \/ Cleanup \/ WriteIngest \/ WriteSummaries \/ WriteRounds \/ WriteErrors \/ Fairness
           \/ WriteManifest \/ ValidateFails \/ Kill
  <2>1. UNCHANGED <<run, raw>>
    BY <1>8 DEF Cleanup, WriteIngest, WriteSummaries, WriteRounds, WriteErrors, Fairness,
       WriteManifest, ValidateFails, Kill, Write, disk
  <2>2. pc' \notin {"begin", "stop", "next", "close"} \cup Working
    BY <1>8 DEF Cleanup, WriteIngest, WriteSummaries, WriteRounds, WriteErrors, Fairness,
       WriteManifest, ValidateFails, Kill, Gone
  <2> QED
    BY <2>1, <2>2 DEF NothingAhead
<1>9. CASE Over
  BY <1>9 DEF Over, vars, disk, NothingAhead
<1> QED
  BY <1>1, <1>2, <1>3, <1>4, <1>6, <1>7, <1>8, <1>9 DEF Next, ProcessStep

LEMMA PrefixStep ==
    ASSUME TypeOK, AtDatabase, MeasuredSoFar, Prefixes, Next
    PROVE  Prefixes'
<1> SUFFICES ASSUME NEW x \in raw', NEW p \in Position, Before(p, x.at)
             PROVE  Has(x.db, p, x.run)'
  BY DEF Prefixes
<1>1. CASE x \in raw
  BY <1>1, HasStays DEF Prefixes
<1>2. CASE x \notin raw
  <2>1. MeasureSample
    BY <1>2, RawGrows
  <2>2. x.db = current /\ x.at = at /\ x.run = run /\ pc = "measure"
    BY <1>2, <2>1, NewSample DEF MeasureSample
  <2>3. Has(x.db, p, x.run)
    BY <2>2 DEF MeasuredSoFar, Measuring
  <2> QED
    BY <2>3, HasStays
<1> QED
  BY <1>1, <1>2

\* Of two samples one is not before itself.
LEMMA Irreflexive ==
    ASSUME NEW a \in Position, NEW b \in Position
    PROVE  /\ ~ RoundBefore(a, a) /\ ~ Before(a, a)
           /\ RoundBefore(a, b) => ~ Before(b, a) /\ b # a
           /\ Before(a, b) => RoundBefore(a, b) \/ (a.w = b.w /\ a.round = b.round)
BY ShapeAssumption DEF Before, RoundBefore, Position, Workload, Round

LEMMA WrongStep ==
    ASSUME TypeOK, AtDatabase, MeasuredSoFar, NothingAhead, WrongIsLast, Next
    PROVE  WrongIsLast'
<1> USE DEF Measuring
<1>a. at \in Position /\ \A x \in raw : x.at \in Position
  BY DEF TypeOK, Sample
<1>1. \A s, x \in raw' :
         s.db = x.db /\ s.run = x.run /\ RoundBefore(s.at, x.at) /\ s.at.w # Workloads =>
            s.result # "wrong"
  <2>1. CASE raw' = raw
    BY <2>1 DEF WrongIsLast
  <2>2. CASE MeasureSample
    <3>1. PICK new : raw' = raw \cup {new} /\ new.db = current /\ new.at = at /\ new.run = run
      BY <2>2, NewSample
    <3>2. pc = "measure"
      BY <2>2 DEF MeasureSample
    <3>3. \A s \in raw : s.db = current /\ s.run = run /\ s.at.w # Workloads /\ s.result = "wrong" =>
             ~ RoundBefore(s.at, at)
      BY <3>2 DEF WrongIsLast
    <3>4. \A x \in raw : x.db = current /\ x.run = run => ~ RoundBefore(at, x.at)
      BY <1>a, <3>2, Irreflexive DEF MeasuredSoFar
    <3>5. ~ RoundBefore(at, at)
      BY <1>a, Irreflexive
    <3> QED
      BY <3>1, <3>3, <3>4, <3>5 DEF WrongIsLast
  <2> QED
    BY <2>1, <2>2, RawGrows
<1>2. pc' \in Measuring =>
         \A s \in raw' : s.db = current' /\ s.run = run' /\ s.at.w # Workloads /\ s.result = "wrong" =>
            pc' # "summarise" /\ ~ RoundBefore(s.at, at')
  <2>1. CASE PreflightPasses
    <3>1. current \in Members(todo)
      BY <2>1, FirstOfList DEF PreflightPasses, AtDatabase, Working, TypeOK, current
    <3>2. \A x \in raw : ~ (x.db = current /\ x.run = run)
      BY <2>1, <3>1 DEF PreflightPasses, NothingAhead, Preparing
    <3> QED
      BY <2>1, <3>2 DEF PreflightPasses, current, disk
  <2>2. CASE MeasureSample
    <3>1. PICK new : raw' = raw \cup {new} /\ new.db = current /\ new.at = at /\ new.run = run
      BY <2>2, NewSample
    <3>2. /\ pc = "measure" /\ pc' \in {"measure", "drift"} /\ run' = run /\ current' = current
          /\ at' \in {at, [at EXCEPT !.i = @ + 1]}
      BY <2>2 DEF MeasureSample, current
    <3>3. at'.w = at.w /\ at'.round = at.round
      BY <1>a, <3>2 DEF Position
    <3>4. \A s \in raw : s.db = current /\ s.run = run /\ s.at.w # Workloads /\ s.result = "wrong" =>
             ~ RoundBefore(s.at, at)
      BY <3>2 DEF WrongIsLast
    <3>5. \A p : RoundBefore(p, at') <=> RoundBefore(p, at)
      BY <3>3 DEF RoundBefore
    <3>6. ~ RoundBefore(at, at)
      BY <1>a, Irreflexive
    <3> QED
      BY <3>1, <3>2, <3>4, <3>5, <3>6
  <2>3. CASE EndRound
    <3>1. pc = "drift" /\ NoDrift /\ run' = run /\ current' = current /\ raw' = raw
      BY <2>3 DEF EndRound, current, disk
    <3>2. \A s \in raw : s.db = current /\ s.run = run /\ s.at.w # Workloads => s.result # "wrong"
      <4> SUFFICES ASSUME NEW s \in raw, s.db = current, s.run = run, s.at.w # Workloads,
                          s.result = "wrong"
                   PROVE  FALSE
        OBVIOUS
      <4>1. ~ RoundBefore(s.at, at)
        BY <3>1 DEF WrongIsLast
      <4>2. Before(s.at, at) \/ s.at = at
        BY <3>1 DEF MeasuredSoFar
      <4>3. s.at.w = at.w /\ s.at.round = at.round
        BY <1>a, <4>1, <4>2, Irreflexive
      <4>4. s \in RoundSamples
        BY <4>3 DEF RoundSamples, SamplesOf
      <4> QED
        BY <3>1, <4>3, <4>4 DEF NoDrift
    <3> QED
      BY <3>1, <3>2
  <2>4. CASE Summarise
    <3>1. pc = "summarise" /\ run' = run /\ current' = current /\ raw' = raw
      BY <2>4 DEF Summarise, current, disk
    <3>2. \A s \in raw : s.db = current /\ s.run = run /\ s.at.w # Workloads => s.result # "wrong"
      BY <3>1 DEF WrongIsLast
    <3> QED
      BY <3>1, <3>2
  <2>5. CASE Over
    BY <2>5 DEF Over, vars, disk, WrongIsLast
  <2>6. CASE pc' \in Preparing \/ NextDatabase
    BY <2>6 DEF Preparing, NextDatabase
  <2> QED
    BY <2>1, <2>2, <2>3, <2>4, <2>5, <2>6, StaysAt
<1> QED
  BY <1>1, <1>2 DEF WrongIsLast

-----------------------------------------------------------------------------
(* What is written about it.                                               *)

\* Where the rows after a step come from.
LEMMA RowsStep ==
    ASSUME TypeOK, Next
    PROVE  /\ \/ Summarise
              \/ summaries' \cup files'.summaries \subseteq summaries \cup files.summaries
           /\ \/ EndRound
              \/ rounds' \cup files'.rounds \subseteq rounds \cup files.rounds
<1>1. CASE \E dbs \in Requests : Invoke(dbs)
  BY <1>1 DEF Invoke, disk
<1>2. CASE Begin
  <2>1. files'.summaries = files.summaries /\ files'.rounds = files.rounds
    BY <1>2 DEF Begin, TypeOK
  <2> QED
    BY <1>2, <2>1 DEF Begin, Gone
<1>3. CASE \/ StopFirst \/ NextDatabase \/ ComposeUp \/ ContainerReady \/ PrepareSucceeds
           \/ PreflightPasses \/ MeasureSample \/ DatabaseFails \/ CloseDatabase \/ CloseFails
           \/ Fairness \/ Interrupt
  BY <1>3 DEF StopFirst, NextDatabase, ComposeUp, ContainerReady, PrepareSucceeds,
     PreflightPasses, MeasureSample, DatabaseFails, CloseDatabase, CloseFails,
     Fairness, Interrupt, memory, disk
<1>4. CASE EndRound \/ Summarise
  BY <1>4 DEF EndRound, Summarise, disk
<1>5. CASE Cleanup \/ ValidateFails \/ Kill
  BY <1>5 DEF Cleanup, ValidateFails, Kill, Gone, disk
<1>6. CASE WriteSummaries \/ WriteRounds
  BY <1>6 DEF WriteSummaries, WriteRounds, Write, memory, TypeOK
<1>7. CASE WriteIngest \/ WriteErrors \/ WriteManifest
  BY <1>7 DEF WriteIngest, WriteErrors, WriteManifest, Write, memory, TypeOK
<1>8. CASE Over
  BY <1>8 DEF Over, vars, memory, disk
<1> QED
  BY <1>1, <1>2, <1>3, <1>4, <1>5, <1>6, <1>7, <1>8 DEF Next, ProcessStep

LEMMA BackedStep ==
    ASSUME TypeOK, AtDatabase, MeasuredSoFar, Backed, Next
    PROVE  Backed'
<1> USE DEF Measuring
<1>1. ASSUME NEW s \in summaries' \cup files'.summaries, NEW p \in Position, p.w = s.w
      PROVE  Has(s.db, p, s.run)'
  <2>1. CASE s \in summaries \cup files.summaries
    BY <1>1, <2>1, HasStays DEF Backed
  <2>2. CASE s \notin summaries \cup files.summaries
    <3>1. Summarise
      BY <2>2, RowsStep
    <3>2. s.db = current /\ s.w = at.w /\ s.run = run
      BY <2>2, <3>1 DEF Summarise, disk
    <3>3. at.i = Attempts /\ at.round = Rounds /\ at \in Position
      BY <3>1 DEF Summarise, MeasuredSoFar, TypeOK
    <3>4. Before(p, at) \/ p = at
      BY <1>1, <3>2, <3>3, LastOfWorkload
    <3>5. Has(current, p, run)
      BY <3>1, <3>4 DEF Summarise, MeasuredSoFar
    <3> QED
      BY <3>2, <3>5, HasStays
  <2> QED
    BY <2>1, <2>2
<1>2. ASSUME NEW s \in rounds' \cup files'.rounds
      PROVE  \E x \in raw' : x.db = s.db /\ x.run = s.run
  <2>1. PICK p : Has(s.db, p, s.run)
    <3>1. CASE s \in rounds \cup files.rounds
      BY <3>1 DEF Backed, Has
    <3>2. CASE s \notin rounds \cup files.rounds
      <4>1. EndRound
        BY <3>2, RowsStep
      <4>2. s.db = current /\ s.run = run
        BY <3>2, <4>1 DEF EndRound, disk
      <4>3. Has(current, at, run)
        BY <4>1 DEF EndRound, MeasuredSoFar
      <4> QED
        BY <4>2, <4>3
    <3> QED
      BY <3>1, <3>2
  <2>2. Has(s.db, p, s.run)'
    BY <2>1, HasStays
  <2> QED
    BY <2>2 DEF Has
<1> QED
  BY <1>1, <1>2 DEF Backed

LEMMA ManifestStep ==
    ASSUME TypeOK, TrueManifest, Next
    PROVE  TrueManifest'
<1>1. CASE WriteManifest
  <2>1. files'.manifest = [status |-> Status, valid |-> Valid]
    BY <1>1 DEF WriteManifest, Write, TypeOK
  <2>2. raw' = raw /\ summaries' = summaries
    BY <1>1 DEF WriteManifest, Write, memory
  <2>3. Valid' <=> Valid
    BY <2>2 DEF Valid, SamplesOf
  <2>4. Status = "complete" => Valid
    BY DEF Status
  <2>5. files'.manifest.valid = Valid /\ files'.manifest.status = Status
    BY <2>1
  <2> QED
    BY <2>3, <2>4, <2>5 DEF TrueManifest
<1>2. CASE Over
  <2>1. UNCHANGED <<pc, files, raw, summaries>>
    BY <1>2 DEF Over, vars, memory, disk
  <2>2. Valid' <=> Valid
    BY <2>1 DEF Valid, SamplesOf
  <2> QED
    BY <2>1, <2>2 DEF TrueManifest
<1>3. CASE ~ WriteManifest /\ ~ Over
  <2>1. pc' # "returned"
    BY <1>3 DEF Next, ProcessStep, Invoke, Begin, StopFirst, NextDatabase, ComposeUp,
       ContainerReady, PrepareSucceeds, PreflightPasses, MeasureSample, EndRound, Summarise,
       DatabaseFails, CloseDatabase, CloseFails, Cleanup, WriteIngest, WriteSummaries, WriteRounds,
       WriteErrors, Fairness, ValidateFails, Interrupt, Kill, Gone
  <2> QED
    BY <2>1 DEF TrueManifest
<1> QED
  BY <1>1, <1>2, <1>3

LEMMA RecordedStep ==
    ASSUME TypeOK, AtDatabase, Recorded, Next
    PROVE  Recorded'
<1> SUFFICES ASSUME ~InspectFails
             PROVE  /\ pc' = "next" => \A d \in running' : ErrorOf("stop", d)' \in errors'
                    /\ pc' \in Working \cup {"close"} =>
                          \A d \in running' \ {current'} : ErrorOf("stop", d)' \in errors'
  BY DEF Recorded
<1> USE DEF Recorded, Working, Measuring
<1>1. CASE pc' \notin Working \cup {"close", "next"}
  BY <1>1
<1>2. CASE StopFirst
  BY <1>2 DEF StopFirst, StopLocal, StopLocalFails
<1>3. CASE NextDatabase
  <2>1. pc = "next" /\ UNCHANGED <<run, errors, running, todo>> /\ current' = current
    BY <1>3 DEF NextDatabase, memory, current
  <2>2. pc' # "next" /\ \A d : ErrorOf("stop", d)' = ErrorOf("stop", d)
    BY <1>3, <2>1 DEF ErrorOf, NextDatabase
  <2> QED
    BY <2>1, <2>2
<1>4. CASE /\ pc \in Working /\ pc' \in Working \cup {"close"} /\ UNCHANGED <<run, todo>>
           /\ errors \subseteq errors' /\ running' \subseteq running \cup {current}
  <2>1. current' = current /\ \A d : ErrorOf("stop", d)' = ErrorOf("stop", d)
    BY <1>4 DEF current, ErrorOf
  <2> QED
    BY <1>4, <2>1
<1>5. CASE CloseDatabase
  <2>1. \A d : ErrorOf("stop", d)' = ErrorOf("stop", d)
    BY <1>5 DEF CloseDatabase, ErrorOf
  <2>2. running' \subseteq running /\ errors \subseteq errors'
    BY <1>5 DEF CloseDatabase, Down, DownFails
  <2>3. current \in running' => ErrorOf("stop", current) \in errors'
    BY <1>5 DEF CloseDatabase, Down, DownFails, TypeOK
  <2>4. pc = "close" /\ pc' \in {"cleanup", "next"}
    BY <1>5 DEF CloseDatabase
  <2> QED
    BY <2>1, <2>2, <2>3, <2>4
<1>6. CASE ComposeUp \/ ContainerReady \/ PrepareSucceeds \/ PreflightPasses \/ EndRound \/ Summarise
  BY <1>4, <1>6 DEF ComposeUp, Up, ContainerReady, PrepareSucceeds, PreflightPasses, EndRound,
     Summarise, memory
<1>7. CASE MeasureSample
  <2>1. errors \subseteq errors'
    BY <1>7 DEF MeasureSample
  <2> QED
    BY <1>4, <1>7, <2>1 DEF MeasureSample
<1>8. CASE DatabaseFails \/ Interrupt
  BY <1>4, <1>8 DEF DatabaseFails, UpFails, Interrupt, memory
<1>9. CASE \/ Begin \/ CloseFails \/ Cleanup \/ WriteIngest \/ WriteSummaries
           \/ WriteRounds \/ WriteErrors \/ Fairness \/ WriteManifest \/ ValidateFails \/ Kill \/ Over
           \/ \E dbs \in Requests : Invoke(dbs)
  <2>1. pc' \notin Working \cup {"close", "next"}
    BY <1>9 DEF Begin, CloseFails, Cleanup, WriteIngest, WriteSummaries, WriteRounds, WriteErrors,
       Fairness, WriteManifest, ValidateFails, Kill, Over, Invoke, Gone, vars
  <2> QED
    BY <1>1, <2>1
<1> QED
  BY <1>2, <1>3, <1>5, <1>6, <1>7, <1>8, <1>9 DEF Next, ProcessStep

\* Without kills: the errors of the failed samples are there before their
\* summaries, and both come to the disk.
LEMMA ListedStep ==
    ASSUME TypeOK, AtDatabase, NothingAhead, Listed, Next
    PROVE  Listed'
<1> SUFFICES ASSUME ~Kills
             PROVE  /\ pc' \in Measuring =>
                          \A x \in raw' : x.db = current' /\ x.run = run' /\ x.result = "failed" =>
                             ErrorOf("sample", current)' \in errors'
                    /\ pc' \notin {"off", "begin"} => ListedIn(summaries', errors')
                    /\ pc' \in {"writeRounds", "writeErrors"} => files'.summaries = summaries'
                    /\ pc' \notin {"writeRounds", "writeErrors"} =>
                          ListedIn(files'.summaries, files'.errors)
  BY DEF Listed, ListedIn
<1> USE DEF Measuring
<1>1. pc' \in Measuring =>
         \A x \in raw' : x.db = current' /\ x.run = run' /\ x.result = "failed" =>
            ErrorOf("sample", current)' \in errors'
  <2>1. CASE PreflightPasses
    <3>1. current \in Members(todo)
      BY <2>1, FirstOfList DEF PreflightPasses, AtDatabase, Working, TypeOK, current
    <3>2. \A x \in raw : ~ (x.db = current /\ x.run = run)
      BY <2>1, <3>1 DEF PreflightPasses, NothingAhead, Preparing
    <3> QED
      BY <2>1, <3>2 DEF PreflightPasses, current, disk
  <2>2. CASE MeasureSample
    <3>1. PICK new : /\ raw' = raw \cup {new} /\ errors \subseteq errors'
                     /\ new.db = current /\ new.run = run
                     /\ new.result = "failed" => ErrorOf("sample", current) \in errors'
      BY <2>2, NewSample
    <3>2. pc = "measure" /\ run' = run /\ current' = current
      BY <2>2 DEF MeasureSample, current
    <3>3. ErrorOf("sample", current)' = ErrorOf("sample", current)
      BY <3>2 DEF ErrorOf
    <3>4. \A x \in raw : x.db = current /\ x.run = run /\ x.result = "failed" =>
             ErrorOf("sample", current) \in errors
      BY <3>2 DEF Listed
    <3> QED
      BY <3>1, <3>2, <3>3, <3>4
  <2>3. CASE EndRound \/ Summarise
    <3>1. pc \in Measuring /\ UNCHANGED <<run, raw, errors, todo>>
      BY <2>3 DEF EndRound, Summarise, disk
    <3>2. current' = current /\ ErrorOf("sample", current)' = ErrorOf("sample", current)
      BY <3>1 DEF current, ErrorOf
    <3> QED
      BY <3>1, <3>2 DEF Listed
  <2>4. CASE Over \/ NextDatabase \/ pc' \in Preparing
    BY <2>4 DEF Over, vars, NextDatabase, Preparing
  <2> QED
    BY <2>1, <2>2, <2>3, <2>4, StaysAt
<1>2. pc' \notin {"off", "begin"} => ListedIn(summaries', errors')
  <2>1. CASE Begin
    <3>1. ListedIn(files.summaries, files.errors)
      BY <2>1 DEF Begin, Listed
    <3> QED
      BY <2>1, <3>1 DEF Begin, Gone
  <2>2. CASE Summarise
    <3> SUFFICES ASSUME NEW s \in summaries', s.fails
                 PROVE  [kind |-> "sample", db |-> s.db, run |-> s.run] \in errors'
      BY DEF ListedIn
    <3>1. pc = "summarise" /\ errors' = errors /\ ListedIn(summaries, errors)
      BY <2>2 DEF Summarise, Listed
    <3>2. CASE s \in summaries
      BY <3>1, <3>2 DEF ListedIn
    <3>3. CASE s \notin summaries
      <4>1. /\ s.db = current /\ s.run = run
            /\ \E x \in raw : x.db = current /\ x.run = run /\ x.result = "failed"
        BY <2>2, <3>3 DEF Summarise
      <4>2. ErrorOf("sample", current) \in errors
        BY <3>1, <4>1 DEF Listed
      <4> QED
        BY <3>1, <4>1, <4>2 DEF ErrorOf
    <3> QED
      BY <3>2, <3>3
  <2>3. CASE /\ pc \notin {"off", "begin"} /\ summaries' = summaries /\ errors \subseteq errors'
    BY <2>3 DEF Listed, ListedIn
  <2>4. CASE \/ StopFirst \/ NextDatabase \/ ComposeUp \/ ContainerReady \/ PrepareSucceeds
             \/ PreflightPasses \/ MeasureSample \/ EndRound \/ DatabaseFails \/ CloseDatabase
             \/ CloseFails \/ Interrupt \/ Fairness
    <3>1. pc \notin {"off", "begin"}
      BY <2>4 DEF StopFirst, NextDatabase, ComposeUp, ContainerReady, PrepareSucceeds,
         PreflightPasses, MeasureSample, EndRound, DatabaseFails, CloseDatabase, CloseFails,
         Interrupt, Fairness, Working
    <3>2. summaries' = summaries /\ errors \subseteq errors'
      BY <2>4 DEF StopFirst, NextDatabase, ComposeUp, ContainerReady, PrepareSucceeds,
         PreflightPasses, MeasureSample, EndRound, DatabaseFails, CloseDatabase, CloseFails,
         Interrupt, Fairness, memory
    <3> QED
      BY <2>3, <3>1, <3>2
  <2>5. CASE Cleanup
    <3>1. Gone \/ (pc = "cleanup" /\ summaries' = summaries /\ errors \subseteq errors')
      BY <2>5 DEF Cleanup
    <3> QED
      BY <2>3, <3>1 DEF Gone
  <2>6. CASE WriteIngest \/ WriteSummaries \/ WriteRounds \/ WriteErrors \/ WriteManifest
    BY <2>3, <2>6 DEF WriteIngest, WriteSummaries, WriteRounds, WriteErrors, WriteManifest, Write,
       memory
  <2>7. CASE ValidateFails \/ Kill \/ \E dbs \in Requests : Invoke(dbs)
    BY <2>7 DEF ValidateFails, Kill, Gone, Invoke
  <2>8. CASE Over
    BY <2>8 DEF Over, vars, memory, Listed
  <2> QED
    BY <2>1, <2>2, <2>4, <2>5, <2>6, <2>7, <2>8 DEF Next, ProcessStep
<1>3. CASE WriteSummaries
  <2>1. files'.summaries = summaries /\ summaries' = summaries /\ pc' = "writeRounds"
    BY <1>3 DEF WriteSummaries, Write, memory, TypeOK
  <2> QED
    BY <1>1, <1>2, <2>1
<1>4. CASE WriteRounds
  <2>1. /\ files'.summaries = files.summaries /\ summaries' = summaries
        /\ pc = "writeRounds" /\ pc' = "writeErrors"
    BY <1>4 DEF WriteRounds, Write, memory, TypeOK
  <2> QED
    BY <1>1, <1>2, <2>1 DEF Listed
<1>5. CASE WriteErrors
  <2>1. /\ files'.summaries = files.summaries /\ files'.errors = errors
        /\ pc = "writeErrors" /\ pc' = "fairness"
    BY <1>5 DEF WriteErrors, Write, memory, TypeOK
  <2>2. ListedIn(files'.summaries, files'.errors)
    BY <2>1 DEF Listed
  <2> QED
    BY <1>1, <1>2, <2>1, <2>2
<1>6. CASE /\ files'.summaries = files.summaries /\ files'.errors = files.errors
           /\ pc \notin {"writeRounds", "writeErrors"} /\ pc' \notin {"writeRounds", "writeErrors"}
  BY <1>1, <1>2, <1>6 DEF Listed
<1>7. CASE ~ WriteSummaries /\ ~ WriteRounds /\ ~ WriteErrors
  <2>1. files'.summaries = files.summaries /\ files'.errors = files.errors
    <3>1. CASE Begin \/ WriteIngest \/ WriteManifest
      BY <3>1 DEF Begin, WriteIngest, WriteManifest, Write, TypeOK
    <3>2. CASE files' = files
      BY <3>2
    <3>3. CASE ~ (Begin \/ WriteIngest \/ WriteManifest)
      <4>1. files' = files
        BY <1>7, <3>3 DEF Next, ProcessStep, Invoke, StopFirst, NextDatabase, ComposeUp,
           ContainerReady, PrepareSucceeds, PreflightPasses, MeasureSample, EndRound, Summarise,
           DatabaseFails, CloseDatabase, CloseFails, Cleanup, Fairness, ValidateFails, Interrupt,
           Kill, Over, vars, disk
      <4> QED
        BY <4>1
    <3> QED
      BY <3>1, <3>3
  <2>2. pc \notin {"writeRounds", "writeErrors"} /\ pc' \notin {"writeRounds", "writeErrors"}
    BY <1>7 DEF Next, ProcessStep, Invoke, Begin, StopFirst, NextDatabase, ComposeUp,
       ContainerReady, PrepareSucceeds, PreflightPasses, MeasureSample, EndRound, Summarise,
       DatabaseFails, CloseDatabase, CloseFails, Cleanup, WriteIngest, WriteManifest, Fairness,
       ValidateFails, Interrupt, Kill, Over, vars, Gone, Working
  <2> QED
    BY <1>6, <2>1, <2>2
<1> QED
  BY <1>3, <1>4, <1>5, <1>7

-----------------------------------------------------------------------------
(* The theorems.                                                           *)

LEMMA InitInv == Init => IInv
<1> SUFFICES ASSUME Init PROVE IInv
  OBVIOUS
<1>1. DistinctList(<<>>) /\ IsFiniteSet({})
  BY FS_EmptySet DEF DistinctList
<1>2. files.summaries = {} /\ files.rounds = {}
  BY DEF Init
<1>3. AtDatabase /\ MeasuredSoFar /\ NothingAhead /\ Prefixes /\ WrongIsLast
  BY <1>1 DEF Init, AtDatabase, MeasuredSoFar, NothingAhead, Prefixes, WrongIsLast, Working,
     Measuring, Preparing
<1>4. Backed /\ TrueManifest /\ Recorded /\ Listed
  BY <1>2 DEF Init, Backed, TrueManifest, Recorded, Listed, ListedIn, Working, Measuring
<1> QED
  BY <1>1, <1>3, <1>4, TypeInit DEF Init, IInv

\* The inductive invariant holds in every reachable state.
THEOREM Invariance == Spec => []IInv
<1>1. Init => IInv
  BY InitInv
<1>2. IInv /\ [Next]_vars => IInv'
  <2> SUFFICES ASSUME IInv, [Next]_vars PROVE IInv'
    OBVIOUS
  <2>1. CASE Next
    <3>1. TypeOK' /\ AtDatabase' /\ IsFiniteSet(raw')
      BY <2>1, TypeStep, AtDatabaseStep, FiniteStep DEF IInv
    <3>2. MeasuredSoFar' /\ NothingAhead' /\ Prefixes' /\ WrongIsLast'
      BY <2>1, MeasuredStep, AheadStep, PrefixStep, WrongStep DEF IInv
    <3>3. Backed' /\ TrueManifest' /\ Recorded' /\ Listed'
      BY <2>1, BackedStep, ManifestStep, RecordedStep, ListedStep DEF IInv
    <3> QED
      BY <3>1, <3>2, <3>3 DEF IInv
  <2>2. CASE UNCHANGED vars
    <3>1. UNCHANGED <<pc, run, todo, at, adapter, raising, ingest, rounds, summaries, errors,
                      failures, raw, files, torn, running>>
      BY <2>2 DEF vars, memory, disk
    <3>2. TypeOK' /\ AtDatabase' /\ IsFiniteSet(raw')
      BY <3>1 DEF IInv, TypeOK, AtDatabase, current
    <3>3. MeasuredSoFar' /\ NothingAhead' /\ Prefixes' /\ WrongIsLast'
      BY <3>1 DEF IInv, MeasuredSoFar, NothingAhead, Prefixes, WrongIsLast, Has, current
    <3>4. Backed' /\ TrueManifest' /\ Recorded' /\ Listed'
      BY <3>1 DEF IInv, Backed, TrueManifest, Valid, SamplesOf, Recorded, Listed, ListedIn, ErrorOf,
         Has, current
    <3> QED
      BY <3>2, <3>3, <3>4 DEF IInv
  <2> QED
    BY <2>1, <2>2
<1> QED
  BY <1>1, <1>2, PTL DEF Spec

\* Type correctness.
THEOREM TypeCorrect == Spec => []TypeOK
BY Invariance, PTL DEF IInv

\* A round of one invocation that got further is full: one more record makes
\* it too many.
LEMMA OneTooMany ==
    ASSUME IInv, NEW d \in Databases, NEW r,
           \A i \in 1..Attempts : Has(d, [w |-> 1, round |-> 1, i |-> i], r),
           NEW q \in SamplesOf(d, 1, 1), q.run # r
    PROVE  Cardinality(SamplesOf(d, 1, 1)) # Attempts
<1> DEFINE S == SamplesOf(d, 1, 1)
           f == [i \in 1..Attempts |->
                   CHOOSE x \in raw : x.db = d /\ x.at = [w |-> 1, round |-> 1, i |-> i] /\ x.run = r]
<1>1. \A i \in 1..Attempts :
         f[i] \in raw /\ f[i].db = d /\ f[i].at = [w |-> 1, round |-> 1, i |-> i] /\ f[i].run = r
  <2> SUFFICES ASSUME NEW i \in 1..Attempts
               PROVE  /\ f[i] \in raw /\ f[i].db = d /\ f[i].run = r
                      /\ f[i].at = [w |-> 1, round |-> 1, i |-> i]
    OBVIOUS
  <2>1. \E x \in raw : x.db = d /\ x.at = [w |-> 1, round |-> 1, i |-> i] /\ x.run = r
    BY DEF Has
  <2> QED
    BY <2>1
<1>2. \A i \in 1..Attempts : f[i] \in S \ {q} /\ f[i].at.i = i
  <2> SUFFICES ASSUME NEW i \in 1..Attempts PROVE f[i] \in S \ {q} /\ f[i].at.i = i
    OBVIOUS
  <2>0. f[i].at = [w |-> 1, round |-> 1, i |-> i]
    BY <1>1
  <2> HIDE DEF f
  <2>1. f[i].at.w = 1 /\ f[i].at.round = 1 /\ f[i].at.i = i
    BY <2>0
  <2> QED
    BY <1>1, <2>1 DEF SamplesOf
<1>3. f \in [1..Attempts -> S \ {q}]
  BY <1>2
<1>4. \A i, j \in 1..Attempts : f[i] = f[j] => i = j
  BY <1>2
<1> HIDE DEF f
<1>5. f \in Injection(1..Attempts, S \ {q})
  BY <1>3, <1>4 DEF Injection, IsInjective
<1>6. IsFiniteSet(S)
  BY FS_Subset DEF IInv, SamplesOf
<1>7. q \in S
  OBVIOUS
<1> HIDE DEF S
<1>8. IsFiniteSet(S \ {q}) /\ Cardinality(S \ {q}) = Cardinality(S) - 1 /\ Cardinality(S) \in Nat
  BY <1>6, <1>7, FS_RemoveElement, FS_CardinalityType
<1>9. Cardinality(1..Attempts) <= Cardinality(S \ {q})
  BY <1>5, <1>8, FS_Injection
<1>10. Cardinality(1..Attempts) = Attempts
  BY FS_Interval, ShapeAssumption
<1>11. Cardinality(S) # Attempts
  BY <1>8, <1>9, <1>10, ShapeAssumption
<1> QED
  BY <1>11 DEF S

\* The attempts of two invocations do not add up.
LEMMA OneRunWhenValid ==
    ASSUME IInv, Valid
    PROVE  \A s, t \in raw : s.db = t.db => s.run = t.run
<1> SUFFICES ASSUME NEW s \in raw, NEW t \in raw, s.db = t.db, s.run # t.run PROVE FALSE
  OBVIOUS
<1> DEFINE d == s.db
<1>1. d \in Databases
  BY DEF IInv, TypeOK, Sample
<1>2. PICK y \in raw : y.db = d /\ y.at.w = 1 /\ y.at.round = 2
  <2>1. Cardinality(SamplesOf(d, 1, 2)) = Attempts
    BY <1>1, ShapeAssumption DEF Valid, Workload, Round
  <2>2. SamplesOf(d, 1, 2) # {}
    BY <2>1, FS_EmptySet, ShapeAssumption
  <2> QED
    BY <2>2 DEF SamplesOf
<1>3. \A i \in 1..Attempts : Has(d, [w |-> 1, round |-> 1, i |-> i], y.run)
  <2> SUFFICES ASSUME NEW i \in 1..Attempts PROVE Has(d, [w |-> 1, round |-> 1, i |-> i], y.run)
    OBVIOUS
  <2> DEFINE p == [w |-> 1, round |-> 1, i |-> i]
  <2>1. p \in Position
    BY ShapeAssumption DEF Position, Workload, Round
  <2>2. Before(p, y.at)
    BY <1>2 DEF Before, RoundBefore
  <2> HIDE DEF p
  <2>3. Has(d, p, y.run)
    BY <1>2, <2>1, <2>2 DEF IInv, Prefixes
  <2> QED
    BY <2>3 DEF p
<1>4. PICK z \in {s, t} : z.run # y.run
  OBVIOUS
<1>5. Has(d, First, z.run)
  <2>1. z \in raw /\ z.db = d /\ z.at \in Position
    BY DEF IInv, TypeOK, Sample
  <2>2. z.at = First \/ Before(First, z.at)
    <3>1. z.at = First <=> z.at.w = 1 /\ z.at.round = 1 /\ z.at.i = 1
      BY <2>1 DEF Position, First
    <3> QED
      BY <2>1, <3>1, ShapeAssumption DEF Before, RoundBefore, First, Position, Workload, Round
  <2> QED
    BY <2>1, <2>2, FirstIsPosition DEF IInv, Prefixes, Has
<1>6. PICK q \in SamplesOf(d, 1, 1) : q.run # y.run
  BY <1>4, <1>5 DEF Has, SamplesOf, First
<1>7. Cardinality(SamplesOf(d, 1, 1)) = Attempts
  BY <1>1, ShapeAssumption DEF Valid, Workload, Round
<1> HIDE DEF d
<1> QED
  BY <1>1, <1>3, <1>6, <1>7, OneTooMany

\* What a published valid campaign holds of one database, one invocation has
\* measured (finalization.py, validate_final_campaign counts attempts only).
THEOREM ValidIsMeasuredOnce == Spec => []ValidMeansMeasuredOnce
<1>1. IInv => ValidMeansMeasuredOnce
  BY OneRunWhenValid DEF IInv, TrueManifest, ValidMeansMeasuredOnce, Published
<1> QED
  BY <1>1, Invariance, PTL

\* The rows of a complete campaign stand on its raw records, all of one
\* invocation for each database.
THEOREM RowsStandOnRaw == Spec => []CompleteRowsStandOnRaw
<1>1. IInv => CompleteRowsStandOnRaw
  <2> SUFFICES ASSUME IInv, Published, files.manifest.status = "complete",
                      NEW s \in files.summaries
               PROVE  /\ \A p \in Position : p.w = s.w =>
                            \E x \in raw : x.db = s.db /\ x.at = p /\ x.run = s.run
                      /\ \A x \in files.summaries \cup files.rounds :
                            x.db = s.db /\ x.w = s.w => x.run = s.run
    BY DEF CompleteRowsStandOnRaw
  <2>1. Valid
    BY DEF IInv, TrueManifest, Published
  <2>2. \A p \in Position : p.w = s.w => Has(s.db, p, s.run)
    BY DEF IInv, Backed
  <2>3. \A x \in files.summaries \cup files.rounds : \E y \in raw : y.db = x.db /\ y.run = x.run
    <3>1. ASSUME NEW x \in files.summaries PROVE \E y \in raw : y.db = x.db /\ y.run = x.run
      <4> DEFINE p == [w |-> x.w, round |-> 1, i |-> 1]
      <4>1. x.w \in Workload
        BY DEF IInv, TypeOK, Summary
      <4>2. p \in Position /\ p.w = x.w
        BY <4>1, ShapeAssumption DEF Position, Round
      <4> HIDE DEF p
      <4>3. Has(x.db, p, x.run)
        BY <4>2 DEF IInv, Backed
      <4> QED
        BY <4>3 DEF Has
    <3> QED
      BY <3>1 DEF IInv, Backed
  <2>4. \A x \in files.summaries \cup files.rounds : x.db = s.db => x.run = s.run
    BY <2>1, <2>3, OneRunWhenValid
  <2> QED
    BY <2>2, <2>4 DEF Has
<1> QED
  BY <1>1, Invariance, PTL

\* If docker inspect tells the truth, a database measured beside another one's
\* container has it in the errors (finalization.py, _stop_local_databases).
THEOREM SharedHost ==
  ASSUME InspectFails = FALSE
  PROVE  Spec => []SharedHostIsRecorded
<1>1. IInv => SharedHostIsRecorded
  BY DEF IInv, Recorded, SharedHostIsRecorded, Working
<1> QED
  BY <1>1, Invariance, PTL

\* If no process is killed, the failures behind the published summaries are
\* among the published errors.
THEOREM FailuresListed ==
  ASSUME Kills = FALSE
  PROVE  Spec => []SummarisedFailuresAreListed
<1>1. IInv => SummarisedFailuresAreListed
  BY DEF IInv, Listed, ListedIn, SummarisedFailuresAreListed, Published
<1> QED
  BY <1>1, Invariance, PTL

\* A complete campaign has no wrong lookup or hop.
THEOREM HopsCorrect == Spec => []CompleteHopsAreCorrect
<1>1. IInv => CompleteHopsAreCorrect
  <2> SUFFICES ASSUME IInv, Published, files.manifest.status = "complete",
                      NEW s \in raw, s.at.w # Workloads, s.result = "wrong"
               PROVE  FALSE
    BY DEF CompleteHopsAreCorrect
  <2>1. Valid
    BY DEF IInv, TrueManifest, Published
  <2>2. s.at \in Position /\ s.db \in Databases
    BY DEF IInv, TypeOK, Sample
  <2>3. Cardinality(SamplesOf(s.db, s.at.w + 1, 1)) = Attempts
    <3>1. s.at.w + 1 \in Workload /\ 1 \in Round
      BY <2>2, ShapeAssumption DEF Position, Workload, Round
    <3> QED
      BY <2>1, <2>2, <3>1 DEF Valid
  <2>4. SamplesOf(s.db, s.at.w + 1, 1) # {}
    BY <2>3, FS_EmptySet, ShapeAssumption
  <2>5. PICK x \in raw : x.db = s.db /\ x.at.w = s.at.w + 1
    BY <2>4 DEF SamplesOf
  <2>6. x.run = s.run
    BY <2>1, <2>5, OneRunWhenValid
  <2>7. RoundBefore(s.at, x.at)
    BY <2>2, <2>5, ShapeAssumption DEF RoundBefore, Position, Workload
  <2> QED
    BY <2>5, <2>6, <2>7 DEF IInv, WrongIsLast
<1> QED
  BY <1>1, Invariance, PTL

-----------------------------------------------------------------------------
(* Why an invocation comes to its end.                                     *)

Ended == pc \in {"off", "returned"}

\* A round is its samples and the drift check, a workload its rounds and a summary.
PerRound    == Attempts + 1
PerWorkload == Rounds * PerRound + 1
PerDatabase == Workloads * PerWorkload

\* The steps of the workloads behind p, and of the rounds of this one behind p.
WorkloadsBehind(p) == (Workloads - p.w) * PerWorkload
RoundsBehind(p)    == (Rounds - p.round) * PerRound

\* How many steps the process has left at most until the current database is
\* done; what an invocation does when it is not at a database comes after.
StepsHere ==
    CASE pc = "begin"          -> PerDatabase + 15
      [] pc = "stop"           -> PerDatabase + 14
      [] pc = "next"           -> PerDatabase + 13
      [] pc = "up"             -> PerDatabase + 12
      [] pc = "wait"           -> PerDatabase + 11
      [] pc = "prepare"        -> PerDatabase + 10
      [] pc = "preflight"      -> PerDatabase + 9
      [] pc = "measure"        -> WorkloadsBehind(at) + RoundsBehind(at) + (Attempts - at.i) + 11
      [] pc = "drift"          -> WorkloadsBehind(at) + RoundsBehind(at) + 10
      [] pc = "summarise"      -> WorkloadsBehind(at) + 9
      [] pc = "close"          -> 8
      [] pc = "cleanup"        -> 7
      [] pc = "writeIngest"    -> 6
      [] pc = "writeSummaries" -> 5
      [] pc = "writeRounds"    -> 4
      [] pc = "writeErrors"    -> 3
      [] pc = "fairness"       -> 2
      [] pc = "manifest"       -> 1
      [] OTHER                 -> 0

StepsPerDatabase == PerDatabase + 6

StepsLeft == StepsPerDatabase * Len(todo) + StepsHere

LEMMA BehindType ==
  /\ PerRound \in Nat /\ PerWorkload \in Nat /\ PerDatabase \in Nat
  /\ \A p \in Position : WorkloadsBehind(p) \in Nat /\ RoundsBehind(p) \in Nat
<1>1. PerRound \in Nat
  BY ShapeAssumption DEF PerRound
<1>2. PerWorkload \in Nat
  BY <1>1, ShapeAssumption DEF PerWorkload
<1>3. PerDatabase \in Nat
  BY <1>2, ShapeAssumption DEF PerDatabase
<1>4. ASSUME NEW p \in Position PROVE WorkloadsBehind(p) \in Nat /\ RoundsBehind(p) \in Nat
  <2>1. Workloads - p.w \in Nat /\ Rounds - p.round \in Nat
    BY ShapeAssumption DEF Position, Workload, Round
  <2> QED
    BY <1>1, <1>2, <2>1 DEF WorkloadsBehind, RoundsBehind
<1> QED
  BY <1>1, <1>2, <1>3, <1>4

LEMMA NextProduct ==
  ASSUME NEW n \in Int, NEW m \in Int, NEW k \in Int
  PROVE  (n - (m + 1)) * k = (n - m) * k - k
OBVIOUS

\* One round further.
LEMMA NextRound ==
  ASSUME NEW p \in Position, NEW q, q.w = p.w, q.round = p.round + 1
  PROVE  /\ WorkloadsBehind(q) = WorkloadsBehind(p)
         /\ RoundsBehind(q) = RoundsBehind(p) - (Attempts + 1)
<1>1. p.round \in Int
  BY ShapeAssumption DEF Position, Round
<1>2. RoundsBehind(q) = (Rounds - (p.round + 1)) * PerRound
  BY <1>1 DEF RoundsBehind
<1>3. (Rounds - (p.round + 1)) * PerRound = (Rounds - p.round) * PerRound - PerRound
  BY <1>1, NextProduct, BehindType, ShapeAssumption
<1> QED
  BY <1>1, <1>2, <1>3 DEF RoundsBehind, WorkloadsBehind, PerRound

\* The start of the next workload, which is that of the first one after none.
LEMMA NextWorkload ==
  ASSUME NEW w \in 0..(Workloads - 1)
  PROVE  LET q == [w |-> w + 1, round |-> 1, i |-> 1]
         IN  WorkloadsBehind(q) + RoundsBehind(q) + (Attempts - 1) =
                (Workloads - w) * PerWorkload - 3
<1> DEFINE q == [w |-> w + 1, round |-> 1, i |-> 1]
           a == (Workloads - w) * PerWorkload
           r == Rounds * PerRound
<1>1. w \in Int /\ Workloads \in Int /\ Rounds \in Int /\ Attempts \in Int /\ PerRound \in Int
      /\ PerWorkload \in Int
  BY ShapeAssumption, BehindType
<1>2. WorkloadsBehind(q) = (Workloads - (w + 1)) * PerWorkload
  BY DEF WorkloadsBehind
<1>3. (Workloads - (w + 1)) * PerWorkload = a - PerWorkload
  BY <1>1, NextProduct
<1>4. RoundsBehind(q) = (Rounds - 1) * PerRound
  BY DEF RoundsBehind
<1>5. (Rounds - 1) * PerRound = r - PerRound
  BY <1>1
<1>6. PerWorkload = r + 1 /\ PerRound = Attempts + 1 /\ a \in Int /\ r \in Int
  BY <1>1 DEF PerWorkload, PerRound
<1> HIDE DEF a, r
<1>7. WorkloadsBehind(q) = a - (r + 1) /\ RoundsBehind(q) = r - (Attempts + 1)
  BY <1>2, <1>3, <1>4, <1>5, <1>6
<1>8. WorkloadsBehind(q) + RoundsBehind(q) + (Attempts - 1) = a - 3
  <2> HIDE DEF q
  <2> QED
    BY <1>1, <1>6, <1>7
<1> QED
  BY <1>8 DEF a

LEMMA SumOfSteps ==
  ASSUME NEW a \in Nat, NEW b \in Nat, NEW k \in Nat
  PROVE  a + b + k + 11 \in Nat /\ a + b + k + 11 >= 9
OBVIOUS

\* One sample, one round further.
LEMMA FewerSteps ==
  ASSUME NEW a \in Nat, NEW b \in Nat, NEW n \in Nat, NEW i \in 1..n
  PROVE  /\ a + b + (n - (i + 1)) + 11 < a + b + (n - i) + 11
         /\ a + b + 10 < a + b + (n - i) + 11
         /\ a + (b - (n + 1)) + (n - 1) + 11 < a + b + 10
OBVIOUS

LEMMA StepsHereType ==
  TypeOK =>
    /\ StepsHere \in Nat /\ StepsPerDatabase \in Nat /\ Len(todo) \in Nat
    /\ pc \in Working => StepsHere >= 9
<1> SUFFICES ASSUME TypeOK
             PROVE  /\ StepsHere \in Nat /\ StepsPerDatabase \in Nat /\ Len(todo) \in Nat
                    /\ pc \in Working => StepsHere >= 9
  OBVIOUS
<1>1. PerDatabase \in Nat /\ WorkloadsBehind(at) \in Nat /\ RoundsBehind(at) \in Nat
  BY BehindType DEF TypeOK
<1>2. Attempts - at.i \in Nat
  BY ShapeAssumption DEF TypeOK, Position
<1> HIDE DEF WorkloadsBehind, RoundsBehind
<1>3. Len(todo) \in Nat /\ StepsPerDatabase \in Nat
  BY <1>1 DEF TypeOK, StepsPerDatabase
<1>4. CASE pc \in {"up", "wait", "prepare", "preflight", "begin", "stop", "next"}
  <2>1. StepsHere \in {PerDatabase + j : j \in 9..15}
    BY <1>4 DEF StepsHere
  <2> QED
    BY <1>1, <1>3, <2>1
<1>5. CASE pc \in Measuring
  <2>1. \/ StepsHere = WorkloadsBehind(at) + RoundsBehind(at) + (Attempts - at.i) + 11
        \/ StepsHere = WorkloadsBehind(at) + RoundsBehind(at) + 10
        \/ StepsHere = WorkloadsBehind(at) + 9
    BY <1>5 DEF StepsHere, Measuring
  <2> QED
    BY <1>1, <1>2, <1>3, <2>1, SumOfSteps
<1>6. CASE pc \notin Working \cup {"begin", "stop", "next"}
  BY <1>3, <1>6 DEF StepsHere, TypeOK, Working, Measuring
<1> QED
  BY <1>4, <1>5, <1>6 DEF Working

\* A step of the process is one step nearer to the end of the current database,
\* or to the next one.
LEMMA HereStep ==
  ASSUME IInv, Next, ~Ended, ~Ended'
  PROVE  \/ todo' = todo /\ StepsHere' < StepsHere
         \/ todo # <<>> /\ todo' = Tail(todo) /\ StepsHere' < StepsHere + StepsPerDatabase
<1>1. PerDatabase \in Nat /\ WorkloadsBehind(at) \in Nat /\ RoundsBehind(at) \in Nat
  BY BehindType DEF IInv, TypeOK
<1>2. at \in Position /\ at.i \in 1..Attempts /\ at.round \in 1..Rounds /\ at.w \in 1..Workloads
  BY DEF IInv, TypeOK, Position, Workload, Round
<1>3. Attempts \in Nat /\ Rounds \in Nat /\ Workloads \in Nat
  BY ShapeAssumption
<1>4. pc \in Working \cup {"close"} => todo # <<>>
  BY DEF IInv, AtDatabase
<1> HIDE DEF WorkloadsBehind, RoundsBehind
<1>5. CASE \E dbs \in Requests : Invoke(dbs)
  BY <1>5 DEF Invoke, Ended
<1>6. CASE Gone
  BY <1>6 DEF Gone, Ended
<1>7. CASE Begin /\ ~Gone
  BY <1>1, <1>7 DEF Begin, StepsHere
<1>8. CASE StopFirst \/ ContainerReady \/ PrepareSucceeds
  BY <1>1, <1>8 DEF StopFirst, ContainerReady, PrepareSucceeds, StepsHere
<1>20. CASE NextDatabase
  BY <1>1, <1>20 DEF NextDatabase, StepsHere
<1>21. CASE ComposeUp
  BY <1>1, <1>21 DEF ComposeUp, StepsHere
<1>9. CASE PreflightPasses
  <2>1. /\ pc = "preflight" /\ pc' = "measure" /\ todo' = todo /\ at' = First
    BY <1>9 DEF PreflightPasses, IInv, MeasuredSoFar, Preparing
  <2>2. StepsHere = PerDatabase + 9
    BY <2>1 DEF StepsHere
  <2>3. StepsHere' = WorkloadsBehind(First) + RoundsBehind(First) + (Attempts - 1) + 11
    BY <2>1 DEF StepsHere, WorkloadsBehind, RoundsBehind, First
  <2>4. WorkloadsBehind(First) + RoundsBehind(First) + (Attempts - 1) = PerDatabase - 3
    <3>1. 0 \in 0..(Workloads - 1) /\ Workloads - 0 = Workloads
      BY ShapeAssumption
    <3>2. First = [w |-> 0 + 1, round |-> 1, i |-> 1]
      BY DEF First
    <3> QED
      BY <3>1, <3>2, NextWorkload DEF PerDatabase
  <2>5. StepsHere' = PerDatabase + 8
    BY <1>1, <2>3, <2>4
  <2> QED
    BY <1>1, <2>1, <2>2, <2>5
<1>10. CASE MeasureSample
  <2>1. pc = "measure" /\ todo' = todo
    BY <1>10 DEF MeasureSample
  <2>2. StepsHere = WorkloadsBehind(at) + RoundsBehind(at) + (Attempts - at.i) + 11
    BY <2>1 DEF StepsHere
  <2>3. CASE at.i < Attempts
    <3>1. pc' = "measure" /\ at' = [at EXCEPT !.i = @ + 1]
      BY <1>10, <2>3 DEF MeasureSample
    <3>2. at'.w = at.w /\ at'.round = at.round /\ at'.i = at.i + 1
      BY <1>2, <3>1 DEF Position
    <3>3. WorkloadsBehind(at') = WorkloadsBehind(at) /\ RoundsBehind(at') = RoundsBehind(at)
      BY <3>2 DEF WorkloadsBehind, RoundsBehind
    <3>4. StepsHere' = WorkloadsBehind(at') + RoundsBehind(at') + (Attempts - at'.i) + 11
      BY <3>1 DEF StepsHere, WorkloadsBehind, RoundsBehind
    <3> QED
      BY <1>1, <1>2, <1>3, <2>1, <2>2, <3>2, <3>3, <3>4, FewerSteps
  <2>4. CASE ~ (at.i < Attempts)
    <3>1. pc' = "drift" /\ at' = at
      BY <1>10, <2>4 DEF MeasureSample
    <3>2. StepsHere' = WorkloadsBehind(at) + RoundsBehind(at) + 10
      BY <3>1 DEF StepsHere, WorkloadsBehind, RoundsBehind
    <3> QED
      BY <1>1, <1>2, <1>3, <2>1, <2>2, <3>2, FewerSteps
  <2> QED
    BY <2>3, <2>4
<1>11. CASE EndRound
  <2>1. pc = "drift" /\ todo' = todo
    BY <1>11 DEF EndRound
  <2>2. StepsHere = WorkloadsBehind(at) + RoundsBehind(at) + 10
    BY <2>1 DEF StepsHere
  <2>3. CASE at.round < Rounds
    <3> DEFINE q == [at EXCEPT !.round = @ + 1, !.i = 1]
    <3>1. pc' = "measure" /\ at' = q /\ q.i = 1 /\ q.w = at.w /\ q.round = at.round + 1
      BY <1>2, <1>11, <2>3 DEF EndRound, Position
    <3> HIDE DEF q
    <3>2. /\ WorkloadsBehind(q) = WorkloadsBehind(at)
          /\ RoundsBehind(q) = RoundsBehind(at) - (Attempts + 1)
      BY <1>2, <3>1, NextRound
    <3>3. StepsHere' = WorkloadsBehind(q) + RoundsBehind(q) + (Attempts - 1) + 11
      BY <3>1 DEF StepsHere, WorkloadsBehind, RoundsBehind
    <3> QED
      BY <1>1, <1>2, <1>3, <2>1, <2>2, <3>2, <3>3, FewerSteps
  <2>4. CASE ~ (at.round < Rounds)
    <3>1. pc' = "summarise" /\ at' = at
      BY <1>11, <2>4 DEF EndRound
    <3>2. StepsHere' = WorkloadsBehind(at) + 9
      BY <3>1 DEF StepsHere, WorkloadsBehind
    <3> QED
      BY <1>1, <2>1, <2>2, <3>2
  <2> QED
    BY <2>3, <2>4
<1>12. CASE Summarise
  <2>1. pc = "summarise" /\ todo' = todo
    BY <1>12 DEF Summarise
  <2>2. StepsHere = WorkloadsBehind(at) + 9
    BY <2>1 DEF StepsHere
  <2>3. CASE at.w < Workloads
    <3> DEFINE q == [w |-> at.w + 1, round |-> 1, i |-> 1]
    <3>1. pc' = "measure" /\ at' = q /\ q.i = 1
      BY <1>12, <2>3 DEF Summarise
    <3>2. at.w \in 0..(Workloads - 1)
      BY <1>2, <1>3, <2>3
    <3>3. WorkloadsBehind(q) + RoundsBehind(q) + (Attempts - 1) = WorkloadsBehind(at) - 3
      BY <3>2, NextWorkload DEF WorkloadsBehind
    <3> HIDE DEF q
    <3>4. StepsHere' = WorkloadsBehind(q) + RoundsBehind(q) + (Attempts - 1) + 11
      BY <3>1 DEF StepsHere, WorkloadsBehind, RoundsBehind
    <3>5. StepsHere' = WorkloadsBehind(at) + 8
      BY <1>1, <3>3, <3>4
    <3> QED
      BY <1>1, <2>1, <2>2, <3>5
  <2>4. CASE ~ (at.w < Workloads)
    <3>1. StepsHere' = 8
      BY <1>12, <2>4 DEF Summarise, StepsHere
    <3> QED
      BY <1>1, <2>1, <2>2, <3>1
  <2> QED
    BY <2>3, <2>4
<1>13. CASE DatabaseFails \/ Interrupt
  <2>1. pc \in Working /\ pc' = "close" /\ todo' = todo
    BY <1>13 DEF DatabaseFails, Interrupt
  <2>2. StepsHere >= 9 /\ StepsHere \in Nat
    BY <2>1, StepsHereType DEF IInv
  <2>3. StepsHere' = 8
    BY <2>1 DEF StepsHere
  <2> QED
    BY <2>1, <2>2, <2>3
<1>14. CASE CloseDatabase
  BY <1>1, <1>4, <1>14 DEF CloseDatabase, StepsPerDatabase, StepsHere
<1>15. CASE CloseFails \/ (Cleanup /\ ~Gone)
  BY <1>15 DEF CloseFails, Cleanup, StepsHere
<1>16. CASE WriteIngest \/ WriteSummaries \/ WriteRounds
  BY <1>16 DEF WriteIngest, WriteSummaries, WriteRounds, Write, StepsHere
<1>17. CASE WriteErrors \/ Fairness
  BY <1>17 DEF WriteErrors, Fairness, Write, StepsHere
<1>18. CASE WriteManifest \/ ValidateFails
  BY <1>18 DEF WriteManifest, ValidateFails, Gone, Ended
<1>19. CASE Kill \/ Over
  BY <1>19 DEF Kill, Gone, Over, Ended
<1> QED
  BY <1>5, <1>6, <1>7, <1>8, <1>9, <1>10, <1>11, <1>12, <1>13, <1>14, <1>15, <1>16, <1>17, <1>18,
     <1>19, <1>20, <1>21 DEF Next, ProcessStep

LEMMA Less ==
  ASSUME NEW x \in Int, NEW y \in Int, NEW k \in Nat, NEW h \in Nat, NEW g \in Nat,
         (y = x /\ g < h) \/ (y = x - k /\ g < h + k)
  PROVE  y + g < x + h
OBVIOUS

LEMMA LeftStep ==
  ASSUME IInv, IInv', Next, ~Ended, ~Ended'
  PROVE  StepsLeft' < StepsLeft
<1> DEFINE k == StepsPerDatabase
           n == Len(todo)
           h == StepsHere
<1>1. k \in Nat /\ n \in Nat /\ h \in Nat /\ n' \in Nat /\ h' \in Nat
  <2>1. (TypeOK => /\ StepsHere \in Nat /\ StepsPerDatabase \in Nat /\ Len(todo) \in Nat
                   /\ pc \in Working => StepsHere >= 9)'
    BY StepsHereType, PTL
  <2> QED
    BY <2>1, StepsHereType DEF IInv
<1>2. StepsLeft = k * n + h /\ StepsLeft' = k * n' + h'
  BY DEF StepsLeft, StepsPerDatabase, PerDatabase, PerWorkload, PerRound
<1>3. \/ n' = n /\ h' < h
      \/ n' = n - 1 /\ h' < h + k
  <2>1. todo # <<>> /\ todo' = Tail(todo) => Len(todo') = Len(todo) - 1
    BY DEF IInv, TypeOK
  <2> HIDE DEF h, k
  <2> QED
    BY <2>1, HereStep DEF h, k
<1> HIDE DEF k, n, h
<1>4. n' = n - 1 => k * n' = k * n - k
  <2>1. k * (n - 1) = k * n - k
    BY <1>1
  <2> QED
    BY <2>1
<1> DEFINE x == k * n
           y == k * n'
<1>5. x \in Int /\ y \in Int
  BY <1>1
<1>6. n' = n => y = x
  OBVIOUS
<1>7. StepsLeft = x + h /\ StepsLeft' = y + h'
  BY <1>2
<1>8. n' = n - 1 => y = x - k
  BY <1>4
<1> HIDE DEF x, y
<1>9. \/ y = x /\ h' < h
      \/ y = x - k /\ h' < h + k
  BY <1>3, <1>6, <1>8
<1> QED
  BY <1>1, <1>5, <1>7, <1>9, Less

\* A step of an invocation that is running ends it or leaves it fewer steps: a
\* sample is measured once, a workload summarised once, and a database is not
\* taken again, whatever the invocation found in its directory.
THEOREM Advances ==
    Spec => /\ [](StepsLeft \in Nat)
            /\ [][~Ended => StepsLeft' < StepsLeft \/ Ended']_vars
<1>1. IInv => StepsLeft \in Nat
  <2> SUFFICES ASSUME IInv PROVE StepsLeft \in Nat
    OBVIOUS
  <2>1. StepsHere \in Nat /\ StepsPerDatabase \in Nat /\ Len(todo) \in Nat
    BY StepsHereType DEF IInv
  <2>2. StepsPerDatabase * Len(todo) \in Nat
    BY <2>1
  <2> QED
    BY <2>1, <2>2 DEF StepsLeft
<1>2. IInv /\ IInv' /\ [Next]_vars => [~Ended => StepsLeft' < StepsLeft \/ Ended']_vars
  BY LeftStep
<1> QED
  BY <1>1, <1>2, Invariance, PTL DEF Spec
=============================================================================
