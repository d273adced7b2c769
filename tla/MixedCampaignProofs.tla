------------------------- MODULE MixedCampaignProofs ------------------------
(***************************************************************************)
(* Proofs about MixedCampaign, for any databases, levels, requests and any *)
(* number of invocations.  One lemma for each part of the inductive        *)
(* invariant, with a step for each action; the theorems are at the end.    *)
(***************************************************************************)
EXTENDS MixedCampaignInvariant, TLAPS

\* The levels of some rows and one more.
LEMMA OfUnion ==
  ASSUME NEW S, NEW x
  PROVE  {r.of : r \in S \cup {x}} = {r.of : r \in S} \cup {x.of}
OBVIOUS

\* The head of a list of databases is one of them.
LEMMA CurrentIsDatabase ==
  ASSUME TypeOK, todo # <<>>
  PROVE  current \in Databases /\ Tail(todo) \in Seq(Databases)
BY DEF TypeOK, current

\* Only a local database is composed up.
LEMMA UpIsLocal ==
  ASSUME TypeOK, AtDatabase, LocalAtUp, ComposeUp
  PROVE  running' \subseteq Local
BY DEF ComposeUp, Up, TypeOK, LocalAtUp

\* What a level gives the writer is evidence of this invocation.
LEMMA Measured ==
  ASSUME TypeOK, AtDatabase, pc = "measure"
  PROVE  Measurement \subseteq Evidence
<1>1. current \in Databases /\ level \in Level /\ run \in 1..MaxRuns
  BY CurrentIsDatabase, BoundsAssumption DEF TypeOK, AtDatabase, Working
<1> QED
  BY <1>1 DEF Measurement, Evidence

\* A step keeps the types.
LEMMA TypeStep ==
  ASSUME TypeOK, AtDatabase, LocalAtUp, Next
  PROVE  TypeOK'
<1>1. CASE \E dbs \in Requests : Invoke(dbs)
  <2>. PICK dbs \in Requests : Invoke(dbs)
    BY <1>1
  <2>1. run' \in 0..MaxRuns /\ level' \in 0..(NumLevels + 1)
    BY RequestsAssumption, BoundsAssumption DEF Invoke, TypeOK
  <2>2. todo' \in Seq(Databases)
    <3>1. dbs \in Seq(Databases) /\ <<>> \in Seq(Databases)
      BY RequestsAssumption
    <3> QED
      BY <3>1 DEF Invoke
  <2>3. rows' \subseteq Row /\ opRows' \subseteq Evidence
    BY DEF Invoke, TypeOK
  <2> QED
    BY <2>1, <2>2, <2>3 DEF Invoke, TypeOK, disk
<1>2. CASE StopFirst
  BY <1>2 DEF StopFirst, StopLocal, StopLocalFails, TypeOK, Working, FileName,
     memory, disk
<1>3. CASE NextDatabase
  <2>1. pc' \in Working \cup {"cleanup"} /\ level' \in 0..(NumLevels + 1)
    BY <1>3, RequestsAssumption DEF NextDatabase, Working
  <2>2. rows' \subseteq Row /\ opRows' \subseteq Evidence
    BY <1>3 DEF NextDatabase, TypeOK
  <2> QED
    BY <1>3, <2>1, <2>2 DEF NextDatabase, TypeOK, disk
<1>4. CASE ComposeUp
  <2>1. running' \subseteq Local
    BY <1>4, UpIsLocal
  <2>2. store' \in [Databases -> {"good", "stale", "partial"}]
    BY <1>4, DatabasesAssumption DEF ComposeUp, TypeOK
  <2> QED
    BY <1>4, <2>1, <2>2 DEF ComposeUp, TypeOK, memory, disk, Working
<1>5. CASE ContainerReady
  BY <1>5 DEF ContainerReady, TypeOK, current, Working, FileName, memory, disk
<1>6. CASE PreflightPasses
  BY <1>6 DEF PreflightPasses, TypeOK, current, Working, FileName, memory,
     disk
<1>7. CASE PreflightRepairs
  BY <1>7 DEF PreflightRepairs, TypeOK, current, Working, FileName, memory,
     disk
<1>8. CASE PrepareSucceeds
  BY <1>8 DEF PrepareSucceeds, TypeOK, current, Working, FileName, memory,
     disk
<1>9. CASE MeasureLevel
  <2>1. PICK e \in Measurement, status \in {"complete", "failed"} :
         /\ buffered' = buffered \cup {e}
         /\ rows' = rows \cup {[of |-> e, status |-> status]}
         /\ opRows' = IF status = "complete" THEN opRows \cup {e} ELSE opRows
         /\ failures' = IF status = "failed" THEN failures \cup {current} ELSE failures
    BY <1>9 DEF MeasureLevel
  <2>2. e \in Evidence /\ current \in Databases
    BY <1>9, Measured, CurrentIsDatabase DEF MeasureLevel, AtDatabase, Working
  <2>3. [of |-> e, status |-> status] \in Row
    BY <2>2 DEF Row
  <2>4. rows' \subseteq Row /\ opRows' \subseteq Evidence
    BY <2>1, <2>2, <2>3 DEF TypeOK
  <2>5. failures' \subseteq Databases /\ buffered' \subseteq Evidence
    BY <2>1, <2>2 DEF TypeOK
  <2> QED
    BY <1>9, <2>4, <2>5 DEF MeasureLevel, TypeOK, disk, Working
<1>10. CASE WriteSummary
  BY <1>10 DEF WriteSummary, TypeOK, Working, FileName, memory
<1>11. CASE WriteOperations
  <2>1. level' \in 0..(NumLevels + 1) /\ pc' \in {"validate", "measure"}
    BY <1>11, RequestsAssumption DEF WriteOperations, AtDatabase, Level, Working
  <2> QED
    BY <1>11, <2>1 DEF WriteOperations, TypeOK, memory, Working
<1>12. CASE Validate
  BY <1>12 DEF Validate, TypeOK, current, Working, FileName, memory, disk
<1>13. CASE DatabaseFails
  <2>1. current \in Databases
    BY <1>13, CurrentIsDatabase DEF DatabaseFails, AtDatabase
  <2>2. rows' \subseteq Row
    <3>1. \A l \in Level : FailedRow(current, l) \in Row
      BY <1>13, <2>1, BoundsAssumption DEF FailedRow, Row, Evidence, TypeOK, AtDatabase,
         DatabaseFails, Working
    <3> QED
      BY <1>13, <3>1 DEF DatabaseFails, TypeOK
  <2>3. failures' \subseteq Databases /\ outcome' \in [Databases -> {"none", "good", "failed"}]
    BY <1>13, <2>1 DEF DatabaseFails, TypeOK
  <2>4. store' \in [Databases -> {"good", "stale", "partial"}]
    BY <1>13, <2>1 DEF DatabaseFails, PrepareCutShort, TypeOK
  <2>5. buffered' \subseteq Evidence
    BY <1>13, Measured DEF DatabaseFails, MeasureCutShort, TypeOK, Working
  <2>6. torn' \subseteq FileName \cup {"raw"}
    BY <1>13 DEF DatabaseFails, WriteCutShort, BeingWritten, FileName, TypeOK
  <2>7. running' = running
    BY <1>13 DEF DatabaseFails, UpFails
  <2> QED
    BY <1>13, <2>2, <2>3, <2>4, <2>5, <2>6, <2>7 DEF DatabaseFails, TypeOK
<1>14. CASE CloseDatabase
  BY <1>14 DEF CloseDatabase, Down, TypeOK, Level, current, Working, FileName,
     memory, disk, AtDatabase
<1>15. CASE CloseFails
  BY <1>15 DEF CloseFails, TypeOK, Working, FileName, memory, disk
<1>16. CASE Cleanup
  BY <1>16 DEF Cleanup, StopLocal, StopLocalFails, TypeOK, Working, FileName,
     memory, disk
<1>17. CASE Drain
  BY <1>17 DEF Drain, TypeOK, Working, FileName, memory
<1>18. CASE RebuildErrors
  BY <1>18 DEF RebuildErrors, TypeOK, Working, FileName, memory
<1>19. CASE WriteManifest
  BY <1>19 DEF WriteManifest, TypeOK, Working, FileName, memory, Status
<1>20. CASE Interrupt
  <2>1. current \in Databases
    BY <1>20, CurrentIsDatabase DEF Interrupt, AtDatabase
  <2>2. store' \in [Databases -> {"good", "stale", "partial"}]
    BY <1>20, <2>1 DEF Interrupt, PrepareCutShort, TypeOK
  <2>3. buffered' \subseteq Evidence
    BY <1>20, Measured DEF Interrupt, MeasureCutShort, TypeOK, Working
  <2>4. torn' \subseteq FileName \cup {"raw"}
    BY <1>20 DEF Interrupt, WriteCutShort, BeingWritten, FileName, TypeOK
  <2> QED
    BY <1>20, <2>2, <2>3, <2>4 DEF Interrupt, TypeOK, memory
<1>21. CASE WriterFlushes
  BY <1>21 DEF WriterFlushes, TypeOK, Working, FileName, memory
<1>22. CASE Kill
  BY <1>22 DEF Kill, PrepareCutShort, BeingWritten, TypeOK, current, Working,
     FileName, memory
<1>23. CASE Over
  BY <1>23 DEF Over, vars, TypeOK, Working, FileName, memory, disk
<1> QED
  BY <1>1, <1>2, <1>3, <1>4, <1>5, <1>6, <1>7, <1>8, <1>9, <1>10, <1>11,
     <1>12, <1>13, <1>14, <1>15, <1>16, <1>17, <1>18, <1>19, <1>20, <1>21,
     <1>22, <1>23 DEF Next, ProcessStep

\* A step leaves the process at a database and at a level of it.
LEMMA PlaceStep ==
  ASSUME TypeOK, AtDatabase, LocalAtUp, Next
  PROVE  AtDatabase' /\ LocalAtUp'
<1>1. CASE \E dbs \in Requests : Invoke(dbs)
  BY <1>1 DEF Invoke, disk, current, Working, Level, TypeOK, AtDatabase,
     LocalAtUp
<1>2. CASE StopFirst
  BY <1>2 DEF StopFirst, StopLocal, StopLocalFails, memory, disk, current,
     Working, Level, TypeOK, AtDatabase, LocalAtUp
<1>3. CASE NextDatabase
  BY <1>3, RequestsAssumption DEF NextDatabase, disk, current, Working, Level,
     TypeOK, AtDatabase, LocalAtUp
<1>4. CASE ComposeUp
  BY <1>4 DEF ComposeUp, Up, memory, disk, current, Working, Level, TypeOK,
     AtDatabase, LocalAtUp
<1>5. CASE ContainerReady
  BY <1>5 DEF ContainerReady, memory, disk, current, Working, Level, TypeOK,
     AtDatabase, LocalAtUp
<1>6. CASE PreflightPasses
  BY <1>6 DEF PreflightPasses, memory, disk, current, Working, Level, TypeOK,
     AtDatabase, LocalAtUp
<1>7. CASE PreflightRepairs
  BY <1>7 DEF PreflightRepairs, memory, disk, current, Working, Level, TypeOK,
     AtDatabase, LocalAtUp
<1>8. CASE PrepareSucceeds
  BY <1>8 DEF PrepareSucceeds, memory, disk, current, Working, Level, TypeOK,
     AtDatabase, LocalAtUp
<1>9. CASE MeasureLevel
  BY <1>9 DEF MeasureLevel, disk, current, Working, Level, TypeOK, AtDatabase,
     LocalAtUp
<1>10. CASE WriteSummary
  BY <1>10 DEF WriteSummary, memory, current, Working, Level, TypeOK,
     AtDatabase, LocalAtUp
<1>11. CASE WriteOperations
  BY <1>11, RequestsAssumption DEF WriteOperations, memory, current, Working,
     Level, TypeOK, AtDatabase, LocalAtUp
<1>12. CASE Validate
  BY <1>12 DEF Validate, memory, disk, current, Working, Level, TypeOK,
     AtDatabase, LocalAtUp
<1>13. CASE DatabaseFails
  BY <1>13 DEF DatabaseFails, UpFails, PrepareCutShort, MeasureCutShort,
     WriteCutShort, BeingWritten, Working, current, Level, TypeOK, AtDatabase,
     LocalAtUp
<1>14. CASE CloseDatabase
  BY <1>14 DEF CloseDatabase, Down, memory, disk, current, Working, Level,
     TypeOK, AtDatabase, LocalAtUp
<1>15. CASE CloseFails
  BY <1>15 DEF CloseFails, memory, disk, current, Working, Level, TypeOK,
     AtDatabase, LocalAtUp
<1>16. CASE Cleanup
  BY <1>16 DEF Cleanup, StopLocal, StopLocalFails, memory, disk, current,
     Working, Level, TypeOK, AtDatabase, LocalAtUp
<1>17. CASE Drain
  BY <1>17 DEF Drain, memory, current, Working, Level, TypeOK, AtDatabase,
     LocalAtUp
<1>18. CASE RebuildErrors
  BY <1>18 DEF RebuildErrors, memory, current, Working, Level, TypeOK,
     AtDatabase, LocalAtUp
<1>19. CASE WriteManifest
  BY <1>19 DEF WriteManifest, memory, current, Working, Level, TypeOK,
     AtDatabase, LocalAtUp
<1>20. CASE Interrupt
  BY <1>20 DEF Interrupt, PrepareCutShort, MeasureCutShort, WriteCutShort,
     BeingWritten, Working, memory, current, Level, TypeOK, AtDatabase,
     LocalAtUp
<1>21. CASE WriterFlushes
  BY <1>21 DEF WriterFlushes, memory, current, Working, Level, TypeOK,
     AtDatabase, LocalAtUp
<1>22. CASE Kill
  BY <1>22 DEF Kill, PrepareCutShort, BeingWritten, memory, current, Working,
     Level, TypeOK, AtDatabase, LocalAtUp
<1>23. CASE Over
  BY <1>23 DEF Over, vars, memory, disk, current, Working, Level, TypeOK,
     AtDatabase, LocalAtUp
<1> QED
  BY <1>1, <1>2, <1>3, <1>4, <1>5, <1>6, <1>7, <1>8, <1>9, <1>10, <1>11,
     <1>12, <1>13, <1>14, <1>15, <1>16, <1>17, <1>18, <1>19, <1>20, <1>21,
     <1>22, <1>23 DEF Next, ProcessStep

\* A step makes no second row of a level, in memory or on disk.
LEMMA RowsStep ==
  ASSUME TypeOK, AtDatabase, RowsSoFar, OneRow(rows), OneRow(files.summary), Next
  PROVE  RowsSoFar' /\ OneRow(rows)' /\ OneRow(files.summary)'
<1>1. CASE \E dbs \in Requests : Invoke(dbs)
  BY <1>1 DEF Invoke, disk, current, Working, Level, TypeOK, AtDatabase,
     RowsSoFar, OneRow, Before
<1>2. CASE StopFirst
  BY <1>2 DEF StopFirst, StopLocal, StopLocalFails, memory, disk, current,
     Working, Level, TypeOK, AtDatabase, RowsSoFar, OneRow, Before
<1>3. CASE NextDatabase
  BY <1>3 DEF NextDatabase, disk, current, Working, Level, TypeOK, AtDatabase,
     RowsSoFar, OneRow, Before
<1>4. CASE ComposeUp
  BY <1>4 DEF ComposeUp, Up, memory, disk, current, Working, Level, TypeOK,
     AtDatabase, RowsSoFar, OneRow, Before
<1>5. CASE ContainerReady
  BY <1>5 DEF ContainerReady, memory, disk, current, Working, Level, TypeOK,
     AtDatabase, RowsSoFar, OneRow, Before
<1>6. CASE PreflightPasses
  BY <1>6 DEF PreflightPasses, memory, disk, current, Working, Level, TypeOK,
     AtDatabase, RowsSoFar, OneRow, Before
<1>7. CASE PreflightRepairs
  BY <1>7 DEF PreflightRepairs, memory, disk, current, Working, Level, TypeOK,
     AtDatabase, RowsSoFar, OneRow, Before
<1>8. CASE PrepareSucceeds
  BY <1>8 DEF PrepareSucceeds, memory, disk, current, Working, Level, TypeOK,
     AtDatabase, RowsSoFar, OneRow, Before
<1>9. CASE MeasureLevel
  BY <1>9 DEF MeasureLevel, disk, current, Working, Level, TypeOK, AtDatabase,
     RowsSoFar, OneRow, Before, Measurement, Row, Evidence
<1>10. CASE WriteSummary
  BY <1>10 DEF WriteSummary, memory, current, Working, Level, TypeOK,
     AtDatabase, RowsSoFar, OneRow, Before
<1>11. CASE WriteOperations
  <2>1. level \in Int /\ \A r \in rows : r.of.level \in Int
    BY DEF TypeOK, Row, Evidence, Level
  <2>2. level' = level + 1 /\ rows' = rows /\ current' = current
    BY <1>11 DEF WriteOperations, memory, current
  <2>3. \A r \in rows' : r.of.db = current' => r.of.level < level'
    BY <1>11, <2>1, <2>2 DEF WriteOperations, RowsSoFar
  <2>4. pc' \in {"validate", "measure"} /\ files'.summary = files.summary
    BY <1>11 DEF WriteOperations, TypeOK
  <2> QED
    BY <2>2, <2>3, <2>4 DEF RowsSoFar, OneRow, Before
<1>12. CASE Validate
  BY <1>12 DEF Validate, memory, disk, current, Working, Level, TypeOK,
     AtDatabase, RowsSoFar, OneRow, Before
<1>13. CASE DatabaseFails
  <2> DEFINE missing == {m \in Level : ~ HasRow(current, m, rows)}
  <2>1. /\ rows' = rows \cup {FailedRow(current, l) : l \in missing}
        /\ pc' = "close" /\ files' = files
    BY <1>13 DEF DatabaseFails
  <2>2. \A l \in missing, r \in rows : ~ (r.of.db = current /\ r.of.level = l)
    BY DEF HasRow
  <2>3. \A l : FailedRow(current, l).of.db = current /\ FailedRow(current, l).of.level = l
    BY DEF FailedRow
  <2>4. ASSUME NEW r \in rows', NEW s \in rows', r.of.db = s.of.db, r.of.level = s.of.level
        PROVE  r = s
    <3>1. CASE r \in rows /\ s \in rows
      BY <2>4, <3>1 DEF OneRow
    <3>2. CASE r \in rows /\ s \notin rows
      BY <2>1, <2>2, <2>3, <2>4, <3>2
    <3>3. CASE r \notin rows /\ s \in rows
      BY <2>1, <2>2, <2>3, <2>4, <3>3
    <3>4. CASE r \notin rows /\ s \notin rows
      BY <2>1, <2>3, <2>4, <3>4
    <3> QED
      BY <3>1, <3>2, <3>3, <3>4
  <2> QED
    BY <2>1, <2>4 DEF RowsSoFar, OneRow, Before
<1>14. CASE CloseDatabase
  BY <1>14 DEF CloseDatabase, Down, memory, disk, current, Working, Level,
     TypeOK, AtDatabase, RowsSoFar, OneRow, Before
<1>15. CASE CloseFails
  BY <1>15 DEF CloseFails, memory, disk, current, Working, Level, TypeOK,
     AtDatabase, RowsSoFar, OneRow, Before
<1>16. CASE Cleanup
  BY <1>16 DEF Cleanup, StopLocal, StopLocalFails, memory, disk, current,
     Working, Level, TypeOK, AtDatabase, RowsSoFar, OneRow, Before
<1>17. CASE Drain
  BY <1>17 DEF Drain, memory, current, Working, Level, TypeOK, AtDatabase,
     RowsSoFar, OneRow, Before
<1>18. CASE RebuildErrors
  BY <1>18 DEF RebuildErrors, memory, current, Working, Level, TypeOK,
     AtDatabase, RowsSoFar, OneRow, Before
<1>19. CASE WriteManifest
  BY <1>19 DEF WriteManifest, memory, current, Working, Level, TypeOK,
     AtDatabase, RowsSoFar, OneRow, Before
<1>20. CASE Interrupt
  BY <1>20 DEF Interrupt, PrepareCutShort, MeasureCutShort, WriteCutShort,
     BeingWritten, Working, memory, current, Level, TypeOK, AtDatabase,
     RowsSoFar, OneRow, Before
<1>21. CASE WriterFlushes
  BY <1>21 DEF WriterFlushes, memory, current, Working, Level, TypeOK,
     AtDatabase, RowsSoFar, OneRow, Before
<1>22. CASE Kill
  BY <1>22 DEF Kill, PrepareCutShort, BeingWritten, memory, current, Working,
     Level, TypeOK, AtDatabase, RowsSoFar, OneRow, Before
<1>23. CASE Over
  BY <1>23 DEF Over, vars, memory, disk, current, Working, Level, TypeOK,
     AtDatabase, RowsSoFar, OneRow, Before
<1> QED
  BY <1>1, <1>2, <1>3, <1>4, <1>5, <1>6, <1>7, <1>8, <1>9, <1>10, <1>11,
     <1>12, <1>13, <1>14, <1>15, <1>16, <1>17, <1>18, <1>19, <1>20, <1>21,
     <1>22, <1>23 DEF Next, ProcessStep

\* A step makes no row of an invocation to come.
LEMMA AheadStep ==
  ASSUME TypeOK, NoRowAhead, Next
  PROVE  NoRowAhead'
<1>1. CASE \E dbs \in Requests : Invoke(dbs)
  <2>1. run \in Int /\ \A r \in rows \cup files.summary : r.of.run \in Int
    BY DEF TypeOK, Row, Evidence
  <2>2. run' = run + 1 /\ rows' \subseteq rows \cup files.summary /\ files' = files
    BY <1>1 DEF Invoke, disk
  <2> QED
    BY <2>1, <2>2 DEF NoRowAhead
<1>2. CASE StopFirst
  BY <1>2 DEF StopFirst, StopLocal, StopLocalFails, memory, disk, Working,
     TypeOK, NoRowAhead
<1>3. CASE NextDatabase
  BY <1>3 DEF NextDatabase, disk, current, Working, TypeOK, NoRowAhead
<1>4. CASE ComposeUp
  BY <1>4 DEF ComposeUp, Up, memory, disk, current, Working, TypeOK,
     NoRowAhead
<1>5. CASE ContainerReady
  BY <1>5 DEF ContainerReady, memory, disk, current, Working, TypeOK,
     NoRowAhead
<1>6. CASE PreflightPasses
  BY <1>6 DEF PreflightPasses, memory, disk, current, Working, TypeOK,
     NoRowAhead
<1>7. CASE PreflightRepairs
  BY <1>7 DEF PreflightRepairs, memory, disk, current, Working, TypeOK,
     NoRowAhead
<1>8. CASE PrepareSucceeds
  BY <1>8 DEF PrepareSucceeds, memory, disk, current, Working, TypeOK,
     NoRowAhead
<1>9. CASE MeasureLevel
  BY <1>9 DEF MeasureLevel, disk, current, Working, TypeOK, NoRowAhead,
     Measurement
<1>10. CASE WriteSummary
  BY <1>10 DEF WriteSummary, memory, Working, TypeOK, NoRowAhead
<1>11. CASE WriteOperations
  BY <1>11 DEF WriteOperations, memory, Working, TypeOK, NoRowAhead
<1>12. CASE Validate
  BY <1>12 DEF Validate, memory, disk, current, Working, TypeOK, NoRowAhead
<1>13. CASE DatabaseFails
  BY <1>13 DEF DatabaseFails, UpFails, PrepareCutShort, MeasureCutShort,
     WriteCutShort, BeingWritten, Working, current, Level, TypeOK, NoRowAhead,
     FailedRow
<1>14. CASE CloseDatabase
  BY <1>14 DEF CloseDatabase, Down, memory, disk, current, Working, TypeOK,
     NoRowAhead
<1>15. CASE CloseFails
  BY <1>15 DEF CloseFails, memory, disk, Working, TypeOK, NoRowAhead
<1>16. CASE Cleanup
  BY <1>16 DEF Cleanup, StopLocal, StopLocalFails, memory, disk, Working,
     TypeOK, NoRowAhead
<1>17. CASE Drain
  BY <1>17 DEF Drain, memory, Working, TypeOK, NoRowAhead
<1>18. CASE RebuildErrors
  BY <1>18 DEF RebuildErrors, memory, Working, TypeOK, NoRowAhead
<1>19. CASE WriteManifest
  BY <1>19 DEF WriteManifest, memory, Working, TypeOK, NoRowAhead
<1>20. CASE Interrupt
  BY <1>20 DEF Interrupt, PrepareCutShort, MeasureCutShort, WriteCutShort,
     BeingWritten, Working, memory, current, TypeOK, NoRowAhead
<1>21. CASE WriterFlushes
  BY <1>21 DEF WriterFlushes, memory, Working, TypeOK, NoRowAhead
<1>22. CASE Kill
  BY <1>22 DEF Kill, PrepareCutShort, BeingWritten, memory, current, Working,
     TypeOK, NoRowAhead
<1>23. CASE Over
  BY <1>23 DEF Over, vars, memory, disk, Working, TypeOK, NoRowAhead
<1> QED
  BY <1>1, <1>2, <1>3, <1>4, <1>5, <1>6, <1>7, <1>8, <1>9, <1>10, <1>11,
     <1>12, <1>13, <1>14, <1>15, <1>16, <1>17, <1>18, <1>19, <1>20, <1>21,
     <1>22, <1>23 DEF Next, ProcessStep

\* A step loses no evidence of this invocation's rows.
LEMMA EvidenceStep ==
  ASSUME TypeOK, AtDatabase, NoRowAhead, EvidenceOnItsWay, Next
  PROVE  EvidenceOnItsWay'
<1>1. CASE \E dbs \in Requests : Invoke(dbs)
  BY <1>1 DEF Invoke, disk, Working, TypeOK, NoRowAhead, EvidenceOnItsWay
<1>2. CASE StopFirst
  BY <1>2 DEF StopFirst, StopLocal, StopLocalFails, memory, disk, Working,
     TypeOK, NoRowAhead, EvidenceOnItsWay
<1>3. CASE NextDatabase
  BY <1>3 DEF NextDatabase, disk, current, Working, TypeOK, NoRowAhead,
     EvidenceOnItsWay
<1>4. CASE ComposeUp
  BY <1>4 DEF ComposeUp, Up, memory, disk, current, Working, TypeOK,
     NoRowAhead, EvidenceOnItsWay
<1>5. CASE ContainerReady
  BY <1>5 DEF ContainerReady, memory, disk, current, Working, TypeOK,
     NoRowAhead, EvidenceOnItsWay
<1>6. CASE PreflightPasses
  BY <1>6 DEF PreflightPasses, memory, disk, current, Working, TypeOK,
     NoRowAhead, EvidenceOnItsWay
<1>7. CASE PreflightRepairs
  BY <1>7 DEF PreflightRepairs, memory, disk, current, Working, TypeOK,
     NoRowAhead, EvidenceOnItsWay
<1>8. CASE PrepareSucceeds
  BY <1>8 DEF PrepareSucceeds, memory, disk, current, Working, TypeOK,
     NoRowAhead, EvidenceOnItsWay
<1>9. CASE MeasureLevel
  BY <1>9 DEF MeasureLevel, disk, current, Working, TypeOK, NoRowAhead,
     EvidenceOnItsWay, Measurement
<1>10. CASE WriteSummary
  BY <1>10 DEF WriteSummary, memory, Working, TypeOK, NoRowAhead,
     EvidenceOnItsWay
<1>11. CASE WriteOperations
  BY <1>11 DEF WriteOperations, memory, Working, TypeOK, NoRowAhead,
     EvidenceOnItsWay
<1>12. CASE Validate
  BY <1>12 DEF Validate, memory, disk, current, Working, TypeOK, NoRowAhead,
     EvidenceOnItsWay
<1>13. CASE DatabaseFails
  BY <1>13 DEF DatabaseFails, UpFails, PrepareCutShort, MeasureCutShort,
     WriteCutShort, BeingWritten, Working, current, Level, TypeOK, NoRowAhead,
     EvidenceOnItsWay, FailedRow
<1>14. CASE CloseDatabase
  BY <1>14 DEF CloseDatabase, Down, memory, disk, current, Working, TypeOK,
     NoRowAhead, EvidenceOnItsWay
<1>15. CASE CloseFails
  BY <1>15 DEF CloseFails, memory, disk, Working, TypeOK, NoRowAhead,
     EvidenceOnItsWay
<1>16. CASE Cleanup
  BY <1>16 DEF Cleanup, StopLocal, StopLocalFails, memory, disk, Working,
     TypeOK, NoRowAhead, EvidenceOnItsWay
<1>17. CASE Drain
  BY <1>17 DEF Drain, memory, Working, TypeOK, NoRowAhead, EvidenceOnItsWay
<1>18. CASE RebuildErrors
  BY <1>18 DEF RebuildErrors, memory, Working, TypeOK, NoRowAhead,
     EvidenceOnItsWay
<1>19. CASE WriteManifest
  BY <1>19 DEF WriteManifest, memory, Working, TypeOK, NoRowAhead,
     EvidenceOnItsWay
<1>20. CASE Interrupt
  BY <1>20 DEF Interrupt, PrepareCutShort, MeasureCutShort, WriteCutShort,
     BeingWritten, Working, memory, current, TypeOK, NoRowAhead,
     EvidenceOnItsWay
<1>21. CASE WriterFlushes
  BY <1>21 DEF WriterFlushes, memory, Working, TypeOK, NoRowAhead,
     EvidenceOnItsWay
<1>22. CASE Kill
  BY <1>22 DEF Kill, PrepareCutShort, BeingWritten, memory, current, Working,
     TypeOK, NoRowAhead, EvidenceOnItsWay
<1>23. CASE Over
  BY <1>23 DEF Over, vars, memory, disk, Working, TypeOK, NoRowAhead,
     EvidenceOnItsWay
<1> QED
  BY <1>1, <1>2, <1>3, <1>4, <1>5, <1>6, <1>7, <1>8, <1>9, <1>10, <1>11,
     <1>12, <1>13, <1>14, <1>15, <1>16, <1>17, <1>18, <1>19, <1>20, <1>21,
     <1>22, <1>23 DEF Next, ProcessStep

\* Once built, the failure index stays whole.
LEMMA IndexStep ==
  ASSUME TypeOK, EvidenceOnItsWay, Indexed, Next
  PROVE  Indexed'
<1>1. CASE \E dbs \in Requests : Invoke(dbs)
  BY <1>1 DEF Invoke, disk, Working, TypeOK, EvidenceOnItsWay, Indexed
<1>2. CASE StopFirst
  BY <1>2 DEF StopFirst, StopLocal, StopLocalFails, memory, disk, Working,
     TypeOK, EvidenceOnItsWay, Indexed
<1>3. CASE NextDatabase
  BY <1>3 DEF NextDatabase, disk, current, Working, TypeOK, EvidenceOnItsWay,
     Indexed
<1>4. CASE ComposeUp
  BY <1>4 DEF ComposeUp, Up, memory, disk, current, Working, TypeOK,
     EvidenceOnItsWay, Indexed
<1>5. CASE ContainerReady
  BY <1>5 DEF ContainerReady, memory, disk, current, Working, TypeOK,
     EvidenceOnItsWay, Indexed
<1>6. CASE PreflightPasses
  BY <1>6 DEF PreflightPasses, memory, disk, current, Working, TypeOK,
     EvidenceOnItsWay, Indexed
<1>7. CASE PreflightRepairs
  BY <1>7 DEF PreflightRepairs, memory, disk, current, Working, TypeOK,
     EvidenceOnItsWay, Indexed
<1>8. CASE PrepareSucceeds
  BY <1>8 DEF PrepareSucceeds, memory, disk, current, Working, TypeOK,
     EvidenceOnItsWay, Indexed
<1>9. CASE MeasureLevel
  BY <1>9 DEF MeasureLevel, disk, current, Working, TypeOK, EvidenceOnItsWay,
     Indexed
<1>10. CASE WriteSummary
  BY <1>10 DEF WriteSummary, memory, Working, TypeOK, EvidenceOnItsWay,
     Indexed
<1>11. CASE WriteOperations
  BY <1>11 DEF WriteOperations, memory, Working, TypeOK, EvidenceOnItsWay,
     Indexed
<1>12. CASE Validate
  BY <1>12 DEF Validate, memory, disk, current, Working, TypeOK,
     EvidenceOnItsWay, Indexed
<1>13. CASE DatabaseFails
  BY <1>13 DEF DatabaseFails, UpFails, PrepareCutShort, MeasureCutShort,
     WriteCutShort, BeingWritten, Working, current, Level, TypeOK,
     EvidenceOnItsWay, Indexed
<1>14. CASE CloseDatabase
  BY <1>14 DEF CloseDatabase, Down, memory, disk, current, Working, TypeOK,
     EvidenceOnItsWay, Indexed
<1>15. CASE CloseFails
  BY <1>15 DEF CloseFails, memory, disk, Working, TypeOK, EvidenceOnItsWay,
     Indexed
<1>16. CASE Cleanup
  BY <1>16 DEF Cleanup, StopLocal, StopLocalFails, memory, disk, Working,
     TypeOK, EvidenceOnItsWay, Indexed
<1>17. CASE Drain
  BY <1>17 DEF Drain, memory, Working, TypeOK, EvidenceOnItsWay, Indexed
<1>18. CASE RebuildErrors
  BY <1>18 DEF RebuildErrors, memory, Working, TypeOK, EvidenceOnItsWay,
     Indexed
<1>19. CASE WriteManifest
  BY <1>19 DEF WriteManifest, memory, Working, TypeOK, EvidenceOnItsWay,
     Indexed
<1>20. CASE Interrupt
  BY <1>20 DEF Interrupt, PrepareCutShort, MeasureCutShort, WriteCutShort,
     BeingWritten, Working, memory, current, TypeOK, EvidenceOnItsWay, Indexed
<1>21. CASE WriterFlushes
  BY <1>21 DEF WriterFlushes, memory, Working, TypeOK, EvidenceOnItsWay,
     Indexed
<1>22. CASE Kill
  BY <1>22 DEF Kill, PrepareCutShort, BeingWritten, memory, current, Working,
     TypeOK, EvidenceOnItsWay, Indexed
<1>23. CASE Over
  BY <1>23 DEF Over, vars, memory, disk, Working, TypeOK, EvidenceOnItsWay,
     Indexed
<1> QED
  BY <1>1, <1>2, <1>3, <1>4, <1>5, <1>6, <1>7, <1>8, <1>9, <1>10, <1>11,
     <1>12, <1>13, <1>14, <1>15, <1>16, <1>17, <1>18, <1>19, <1>20, <1>21,
     <1>22, <1>23 DEF Next, ProcessStep

\* A step keeps level rows and operation rows in agreement.
LEMMA AgreeStep ==
  ASSUME TypeOK, AtDatabase, NoRowAhead, FreshAgree, Next
  PROVE  FreshAgree'
<1>1. CASE \E dbs \in Requests : Invoke(dbs)
  BY <1>1 DEF Invoke, disk, current, Working, TypeOK, NoRowAhead, FreshAgree,
     Fresh, Agree
<1>2. CASE StopFirst
  BY <1>2 DEF StopFirst, StopLocal, StopLocalFails, memory, disk, current,
     Working, TypeOK, NoRowAhead, FreshAgree, Fresh, Agree
<1>3. CASE NextDatabase
  BY <1>3 DEF NextDatabase, disk, current, Working, TypeOK, NoRowAhead,
     FreshAgree, Fresh, Agree
<1>4. CASE ComposeUp
  BY <1>4 DEF ComposeUp, Up, memory, disk, current, Working, TypeOK,
     NoRowAhead, FreshAgree, Fresh, Agree
<1>5. CASE ContainerReady
  BY <1>5 DEF ContainerReady, memory, disk, current, Working, TypeOK,
     NoRowAhead, FreshAgree, Fresh, Agree
<1>6. CASE PreflightPasses
  BY <1>6 DEF PreflightPasses, memory, disk, current, Working, TypeOK,
     NoRowAhead, FreshAgree, Fresh, Agree
<1>7. CASE PreflightRepairs
  BY <1>7 DEF PreflightRepairs, memory, disk, current, Working, TypeOK,
     NoRowAhead, FreshAgree, Fresh, Agree
<1>8. CASE PrepareSucceeds
  BY <1>8 DEF PrepareSucceeds, memory, disk, current, Working, TypeOK,
     NoRowAhead, FreshAgree, Fresh, Agree
<1>9. CASE MeasureLevel
  <2>1. PICK e \in Measurement, status \in {"complete", "failed"} :
         /\ rows' = rows \cup {[of |-> e, status |-> status]}
         /\ opRows' = IF status = "complete" THEN opRows \cup {e} ELSE opRows
    BY <1>9 DEF MeasureLevel
  <2>2. e.db = current /\ pc = "measure" /\ run' = run /\ current' = current
    BY <1>9 DEF MeasureLevel, Measurement, current
  <2>3. ASSUME NEW d \in Databases, Fresh(d)'
        PROVE  Agree(d)'
    <3>1. CASE d = current
      <4>1. Agree(d)
        BY <2>2, <3>1 DEF FreshAgree, Fresh, Working
      <4>2. CASE status = "complete"
        <5>1. {x \in opRows' : x.db = d} = {x \in opRows : x.db = d} \cup {e}
          BY <2>1, <2>2, <3>1, <4>2
        <5>2. {x \in rows' : x.of.db = d /\ x.status = "complete"} =
                {x \in rows : x.of.db = d /\ x.status = "complete"}
                  \cup {[of |-> e, status |-> status]}
          BY <2>1, <2>2, <3>1, <4>2
        <5>3. {r.of : r \in {x \in rows' : x.of.db = d /\ x.status = "complete"}} =
                {r.of : r \in {x \in rows : x.of.db = d /\ x.status = "complete"}} \cup {e}
          <6> DEFINE S == {x \in rows : x.of.db = d /\ x.status = "complete"}
                     new == [of |-> e, status |-> status]
          <6>1. new.of = e
            OBVIOUS
          <6>2. {r.of : r \in S \cup {new}} = {r.of : r \in S} \cup {new.of}
            <7> HIDE DEF S, new
            <7> QED
              BY OfUnion
          <6> QED
            BY <5>2, <6>1, <6>2
        <5> QED
          BY <4>1, <5>1, <5>3 DEF Agree
      <4>3. CASE status = "failed"
        BY <2>1, <2>2, <3>1, <4>1, <4>3 DEF Agree
      <4> QED
        BY <2>1, <4>2, <4>3
    <3>2. CASE d # current
      <4>1. Fresh(d)
        BY <2>1, <2>2, <2>3, <3>2 DEF Fresh
      <4>2. Agree(d)
        BY <2>2, <4>1 DEF FreshAgree
      <4>3. {x \in rows' : x.of.db = d /\ x.status = "complete"} =
              {x \in rows : x.of.db = d /\ x.status = "complete"}
        BY <2>1, <2>2, <3>2
      <4>4. {x \in opRows' : x.db = d} = {x \in opRows : x.db = d}
        BY <2>1, <2>2, <3>2
      <4> QED
        BY <4>2, <4>3, <4>4 DEF Agree
    <3> QED
      BY <3>1, <3>2
  <2> QED
    BY <2>3 DEF FreshAgree
<1>10. CASE WriteSummary
  BY <1>10 DEF WriteSummary, memory, current, Working, TypeOK, NoRowAhead,
     FreshAgree, Fresh, Agree
<1>11. CASE WriteOperations
  BY <1>11 DEF WriteOperations, memory, current, Working, TypeOK, NoRowAhead,
     FreshAgree, Fresh, Agree
<1>12. CASE Validate
  BY <1>12 DEF Validate, memory, disk, current, Working, TypeOK, NoRowAhead,
     FreshAgree, Fresh, Agree
<1>13. CASE DatabaseFails
  BY <1>13 DEF DatabaseFails, UpFails, PrepareCutShort, MeasureCutShort,
     WriteCutShort, BeingWritten, Working, current, Level, TypeOK, NoRowAhead,
     FreshAgree, Fresh, Agree, FailedRow
<1>14. CASE CloseDatabase
  BY <1>14 DEF CloseDatabase, Down, memory, disk, current, Working, TypeOK,
     NoRowAhead, FreshAgree, Fresh, Agree
<1>15. CASE CloseFails
  BY <1>15 DEF CloseFails, memory, disk, current, Working, TypeOK, NoRowAhead,
     FreshAgree, Fresh, Agree
<1>16. CASE Cleanup
  BY <1>16 DEF Cleanup, StopLocal, StopLocalFails, memory, disk, current,
     Working, TypeOK, NoRowAhead, FreshAgree, Fresh, Agree
<1>17. CASE Drain
  BY <1>17 DEF Drain, memory, current, Working, TypeOK, NoRowAhead,
     FreshAgree, Fresh, Agree
<1>18. CASE RebuildErrors
  BY <1>18 DEF RebuildErrors, memory, current, Working, TypeOK, NoRowAhead,
     FreshAgree, Fresh, Agree
<1>19. CASE WriteManifest
  BY <1>19 DEF WriteManifest, memory, current, Working, TypeOK, NoRowAhead,
     FreshAgree, Fresh, Agree
<1>20. CASE Interrupt
  BY <1>20 DEF Interrupt, PrepareCutShort, MeasureCutShort, WriteCutShort,
     BeingWritten, Working, memory, current, TypeOK, NoRowAhead, FreshAgree,
     Fresh, Agree
<1>21. CASE WriterFlushes
  BY <1>21 DEF WriterFlushes, memory, current, Working, TypeOK, NoRowAhead,
     FreshAgree, Fresh, Agree
<1>22. CASE Kill
  BY <1>22 DEF Kill, PrepareCutShort, BeingWritten, memory, current, Working,
     TypeOK, NoRowAhead, FreshAgree, Fresh, Agree
<1>23. CASE Over
  BY <1>23 DEF Over, vars, memory, disk, current, Working, TypeOK, NoRowAhead,
     FreshAgree, Fresh, Agree
<1> QED
  BY <1>1, <1>2, <1>3, <1>4, <1>5, <1>6, <1>7, <1>8, <1>9, <1>10, <1>11,
     <1>12, <1>13, <1>14, <1>15, <1>16, <1>17, <1>18, <1>19, <1>20, <1>21,
     <1>22, <1>23 DEF Next, ProcessStep

\* A step leaves no competitor running beside the current database.
LEMMA IsolatedStep ==
  ASSUME TypeOK, AtDatabase, LocalAtUp, Isolated, Next
  PROVE  Isolated'
<1>1. CASE \E dbs \in Requests : Invoke(dbs)
  BY <1>1 DEF Invoke, disk, current, Working, Level, TypeOK, AtDatabase,
     Isolated
<1>2. CASE StopFirst
  BY <1>2 DEF StopFirst, StopLocal, StopLocalFails, memory, disk, current,
     Working, Level, TypeOK, AtDatabase, Isolated
<1>3. CASE NextDatabase
  BY <1>3 DEF NextDatabase, disk, current, Working, Level, TypeOK, AtDatabase,
     Isolated
<1>4. CASE ComposeUp
  BY <1>4 DEF ComposeUp, Up, memory, disk, current, Working, Level, TypeOK,
     AtDatabase, Isolated
<1>5. CASE ContainerReady
  BY <1>5 DEF ContainerReady, memory, disk, current, Working, Level, TypeOK,
     AtDatabase, Isolated
<1>6. CASE PreflightPasses
  BY <1>6 DEF PreflightPasses, memory, disk, current, Working, Level, TypeOK,
     AtDatabase, Isolated
<1>7. CASE PreflightRepairs
  BY <1>7 DEF PreflightRepairs, memory, disk, current, Working, Level, TypeOK,
     AtDatabase, Isolated
<1>8. CASE PrepareSucceeds
  BY <1>8 DEF PrepareSucceeds, memory, disk, current, Working, Level, TypeOK,
     AtDatabase, Isolated
<1>9. CASE MeasureLevel
  BY <1>9 DEF MeasureLevel, disk, current, Working, Level, TypeOK, AtDatabase,
     Isolated
<1>10. CASE WriteSummary
  BY <1>10 DEF WriteSummary, memory, current, Working, Level, TypeOK,
     AtDatabase, Isolated
<1>11. CASE WriteOperations
  BY <1>11 DEF WriteOperations, memory, current, Working, Level, TypeOK,
     AtDatabase, Isolated
<1>12. CASE Validate
  BY <1>12 DEF Validate, memory, disk, current, Working, Level, TypeOK,
     AtDatabase, Isolated
<1>13. CASE DatabaseFails
  BY <1>13 DEF DatabaseFails, UpFails, PrepareCutShort, MeasureCutShort,
     WriteCutShort, BeingWritten, Working, current, Level, TypeOK, AtDatabase,
     Isolated
<1>14. CASE CloseDatabase
  BY <1>14 DEF CloseDatabase, Down, memory, disk, current, Working, Level,
     TypeOK, AtDatabase, Isolated
<1>15. CASE CloseFails
  BY <1>15 DEF CloseFails, memory, disk, current, Working, Level, TypeOK,
     AtDatabase, Isolated
<1>16. CASE Cleanup
  BY <1>16 DEF Cleanup, StopLocal, StopLocalFails, memory, disk, current,
     Working, Level, TypeOK, AtDatabase, Isolated
<1>17. CASE Drain
  BY <1>17 DEF Drain, memory, current, Working, Level, TypeOK, AtDatabase,
     Isolated
<1>18. CASE RebuildErrors
  BY <1>18 DEF RebuildErrors, memory, current, Working, Level, TypeOK,
     AtDatabase, Isolated
<1>19. CASE WriteManifest
  BY <1>19 DEF WriteManifest, memory, current, Working, Level, TypeOK,
     AtDatabase, Isolated
<1>20. CASE Interrupt
  BY <1>20 DEF Interrupt, PrepareCutShort, MeasureCutShort, WriteCutShort,
     BeingWritten, Working, memory, current, Level, TypeOK, AtDatabase,
     Isolated
<1>21. CASE WriterFlushes
  BY <1>21 DEF WriterFlushes, memory, current, Working, Level, TypeOK,
     AtDatabase, Isolated
<1>22. CASE Kill
  BY <1>22 DEF Kill, PrepareCutShort, BeingWritten, memory, current, Working,
     Level, TypeOK, AtDatabase, Isolated
<1>23. CASE Over
  BY <1>23 DEF Over, vars, memory, disk, current, Working, Level, TypeOK,
     AtDatabase, Isolated
<1> QED
  BY <1>1, <1>2, <1>3, <1>4, <1>5, <1>6, <1>7, <1>8, <1>9, <1>10, <1>11,
     <1>12, <1>13, <1>14, <1>15, <1>16, <1>17, <1>18, <1>19, <1>20, <1>21,
     <1>22, <1>23 DEF Next, ProcessStep

\* A step that changes nothing keeps the invariant.
LEMMA StutterStep ==
  ASSUME CampaignInv, UNCHANGED vars
  PROVE  CampaignInv'
BY DEF CampaignInv, vars, memory, disk, TypeOK, AtDatabase, LocalAtUp, RowsSoFar, OneRow, Before,
       NoRowAhead, EvidenceOnItsWay, Indexed, FreshAgree, Fresh, Agree, Isolated,
       HasRow, current

\* Before the first invocation there are no rows and no evidence.
LEMMA InitInv == Init => CampaignInv
<1> SUFFICES ASSUME Init PROVE CampaignInv
  OBVIOUS
<1>1. TypeOK
  <2>1. pc = "off" /\ run \in 0..MaxRuns /\ todo \in Seq(Databases) /\ level \in 0..(NumLevels + 1)
    BY RequestsAssumption, BoundsAssumption DEF Init
  <2>2. files \in [summary : SUBSET Row, operations : SUBSET Evidence, errors : SUBSET Evidence,
                   manifest : [status : {"running", "complete", "complete_with_measured_failures",
                                         "incomplete"},
                               failures : SUBSET Databases]]
    BY DEF Init
  <2>3. store \in [Databases -> {"good", "stale", "partial"}]
    BY DEF Init
  <2>4. outcome \in [Databases -> {"none", "good", "failed"}]
    BY DEF Init
  <2>5. raising \in BOOLEAN /\ repaired \in BOOLEAN /\ running \subseteq Local
    BY DEF Init
  <2> QED
    BY <2>1, <2>2, <2>3, <2>4, <2>5 DEF Init, TypeOK
<1>2. pc = "off" /\ rows = {} /\ files.summary = {}
  BY DEF Init
<1> QED
  BY <1>1, <1>2 DEF CampaignInv, AtDatabase, LocalAtUp, RowsSoFar, OneRow, Before, NoRowAhead,
     EvidenceOnItsWay, Indexed, FreshAgree, Isolated, Working

\* The inductive invariant holds in every state, whatever fails, is interrupted
\* or is killed, over any number of invocations.
THEOREM Invariance == Spec => []CampaignInv
<1>1. Init => CampaignInv
  BY InitInv
<1>2. CampaignInv /\ [Next]_vars => CampaignInv'
  <2>1. ASSUME CampaignInv, Next PROVE CampaignInv'
    BY <2>1, TypeStep, PlaceStep, RowsStep, AheadStep, EvidenceStep, IndexStep, AgreeStep,
       IsolatedStep DEF CampaignInv
  <2> QED
    BY <2>1, StutterStep
<1> QED
  BY <1>1, <1>2, PTL DEF Spec

\* The variables of the campaign keep their types.
THEOREM TypeCorrect == Spec => []TypeOK
<1>1. CampaignInv => TypeOK
  BY DEF CampaignInv
<1> QED
  BY <1>1, Invariance, PTL

\* No level has two rows, in memory or in mixed_summary.json (mixed.py:607-611).
THEOREM NoSecondRow == Spec => []OneRowPerLevel
<1>1. CampaignInv => OneRowPerLevel
  BY DEF CampaignInv, OneRowPerLevel, OneRow
<1> QED
  BY <1>1, Invariance, PTL

\* What an invocation that returns says complete is in the raw file, and its
\* failed operations are in the index (mixed.py:641, 651-673).
THEOREM BackedRows == Spec => []FreshRowsAreBacked
<1>1. CampaignInv => FreshRowsAreBacked
  BY DEF CampaignInv, FreshRowsAreBacked, EvidenceOnItsWay, Indexed
<1> QED
  BY <1>1, Invariance, PTL

\* Level rows and operation rows agree on what this invocation measured.
THEOREM AgreeingRows == Spec => []SummariesAgree
<1>1. CampaignInv => SummariesAgree
  BY DEF CampaignInv, SummariesAgree, FreshAgree, Fresh, Agree
<1> QED
  BY <1>1, Invariance, PTL

\* No failure that reached the raw file is missing from a published index.
THEOREM WholeIndex == Spec => []FlushedFailuresAreIndexed
<1>1. CampaignInv => FlushedFailuresAreIndexed
  BY DEF CampaignInv, FlushedFailuresAreIndexed, Indexed
<1> QED
  BY <1>1, Invariance, PTL

\* If docker inspect tells the truth, no database is measured beside the
\* container of another one (mixed.py:436, 632-636).
THEOREM NoCompetitor ==
  ASSUME InspectFails = FALSE
  PROVE  Spec => []CompetitorsStopped
<1>1. CampaignInv => CompetitorsStopped
  BY DEF CampaignInv, Isolated, CompetitorsStopped, Working
<1> QED
  BY <1>1, Invariance, PTL

-----------------------------------------------------------------------------
(* Why an invocation comes to its end.                                     *)

Ended == pc \in {"off", "returned"}

\* How many steps the process has left at most until the current database is
\* done: three for each level, and those around them, with the repair that is
\* tried once.
StepsHere ==
    CASE pc = "stop"                    -> 3 * NumLevels + 13
      [] pc = "next"                    -> 3 * NumLevels + 12
      [] pc = "up"                      -> 3 * NumLevels + 11
      [] pc = "wait"                    -> 3 * NumLevels + 10
      [] pc = "preflight" /\ ~repaired  -> 3 * NumLevels + 9
      [] pc = "prepare"                 -> 3 * NumLevels + 8
      [] pc = "preflight" /\ repaired   -> 3 * NumLevels + 7
      [] pc = "measure"                 -> 3 * (NumLevels - level) + 9
      [] pc = "writeSummary"            -> 3 * (NumLevels - level) + 8
      [] pc = "writeOperations"         -> 3 * (NumLevels - level) + 7
      [] pc = "validate"                -> 6
      [] pc = "close"                   -> 5
      [] pc = "cleanup"                 -> 4
      [] pc = "drain"                   -> 3
      [] pc = "rebuild"                 -> 2
      [] pc = "manifest"                -> 1
      [] OTHER                          -> 0

StepsPerDatabase == 3 * NumLevels + 8

\* The raw writer may empty its buffer after each of them.
StepsLeft ==
    2 * (StepsPerDatabase * Len(todo) + StepsHere) + IF buffered = {} THEN 0 ELSE 1

LEMMA StepsHereType ==
  TypeOK /\ AtDatabase =>
    /\ StepsHere \in Nat /\ StepsPerDatabase \in Nat /\ Len(todo) \in Nat
    /\ pc \in Working => StepsHere >= 6
<1> SUFFICES ASSUME TypeOK, AtDatabase
             PROVE  /\ StepsHere \in Nat /\ StepsPerDatabase \in Nat /\ Len(todo) \in Nat
                    /\ pc \in Working => StepsHere >= 6
  OBVIOUS
<1>1. NumLevels \in Nat /\ Len(todo) \in Nat /\ repaired \in BOOLEAN
  BY RequestsAssumption DEF TypeOK
<1>2. CASE pc \in {"measure", "writeSummary", "writeOperations"}
  <2>1. level \in 1..NumLevels
    BY <1>2 DEF AtDatabase, Working, Level
  <2>2. NumLevels - level \in Nat
    BY <1>1, <2>1
  <2>3. StepsHere \in {3 * (NumLevels - level) + j : j \in 7..9}
    BY <1>2 DEF StepsHere
  <2> QED
    BY <1>1, <2>2, <2>3 DEF StepsPerDatabase
<1>3. CASE pc = "preflight"
  BY <1>1, <1>3 DEF StepsHere, StepsPerDatabase
<1>4. CASE pc \in {"stop", "next", "up", "wait", "prepare"}
  BY <1>1, <1>4 DEF StepsHere, StepsPerDatabase
<1>5. CASE pc \in {"validate", "close", "cleanup", "drain", "rebuild", "manifest", "off", "returned"}
  BY <1>1, <1>5 DEF StepsHere, StepsPerDatabase, Working
<1> QED
  BY <1>2, <1>3, <1>4, <1>5 DEF TypeOK, Working

\* A repair is known as one while it is made.
RepairIsKnown == pc = "prepare" => repaired

LEMMA RepairInvariance == Spec => []RepairIsKnown
<1>1. Init => RepairIsKnown
  BY DEF Init, RepairIsKnown
<1>2. RepairIsKnown /\ [Next]_vars => RepairIsKnown'
  BY DEF RepairIsKnown, Next, ProcessStep, vars, Invoke, StopFirst, NextDatabase, ComposeUp,
     ContainerReady, PreflightPasses, PreflightRepairs, PrepareSucceeds, MeasureLevel,
     WriteSummary, WriteOperations, Validate, DatabaseFails, Interrupt, CloseDatabase,
     CloseFails, Cleanup, Drain, WriterFlushes, RebuildErrors, WriteManifest, Kill, Over
<1> QED
  BY <1>1, <1>2, PTL DEF Spec

\* A step of the process is one step nearer to the end of the current database,
\* or to the next one.
LEMMA HereStep ==
  ASSUME TypeOK, AtDatabase, RepairIsKnown, TypeOK', AtDatabase', Next, ~Ended, ~Ended'
  PROVE  \/ todo' = todo /\ StepsHere' < StepsHere
         \/ todo # <<>> /\ todo' = Tail(todo) /\ StepsHere' < StepsHere + StepsPerDatabase
         \/ todo' = todo /\ StepsHere' = StepsHere /\ buffered # {} /\ buffered' = {}
<1>1. NumLevels \in Nat /\ repaired \in BOOLEAN /\ repaired' \in BOOLEAN
  BY RequestsAssumption DEF TypeOK
<1>2. pc \in Working \ {"validate"} => level \in 1..NumLevels
  BY DEF AtDatabase, Level
<1>3. pc' \in Working \ {"validate"} => level' \in 1..NumLevels
  BY DEF AtDatabase, Level
<1>4. pc \in Working \cup {"close"} => todo # <<>>
  BY DEF AtDatabase
<1> USE <1>1, <1>2, <1>3, <1>4 DEF StepsHere, Working, Ended
<1>5. CASE \E dbs \in Requests : Invoke(dbs)
  BY <1>5 DEF Invoke
<1>6. CASE StopFirst
  BY <1>6 DEF StopFirst
<1>7. CASE NextDatabase
  BY <1>7 DEF NextDatabase
<1>8. CASE ComposeUp \/ ContainerReady
  BY <1>8 DEF ComposeUp, ContainerReady
<1>9. CASE PreflightPasses
  <2>1. /\ pc = "preflight" /\ pc' = "measure" /\ level \in 1..NumLevels
        /\ todo' = todo /\ level' = level
    BY <1>9 DEF PreflightPasses
  <2>2. StepsHere >= 3 * NumLevels + 7 /\ StepsHere \in Nat
    BY <2>1
  <2>3. StepsHere' = 3 * (NumLevels - level) + 9
    BY <2>1
  <2> QED
    BY <2>1, <2>2, <2>3
<1>21. CASE PreflightRepairs
  BY <1>21 DEF PreflightRepairs
<1>22. CASE PrepareSucceeds
  <2>1. pc = "prepare" /\ pc' = "preflight" /\ repaired' = repaired /\ todo' = todo
    BY <1>22 DEF PrepareSucceeds
  <2>2. repaired
    BY <2>1 DEF RepairIsKnown
  <2> QED
    BY <2>1, <2>2
<1>10. CASE MeasureLevel
  BY <1>10 DEF MeasureLevel
<1>11. CASE WriteSummary
  BY <1>11 DEF WriteSummary
<1>12. CASE WriteOperations
  <2>1. StepsHere = 3 * (NumLevels - level) + 7 /\ level \in 1..NumLevels /\ todo' = todo
    BY <1>12 DEF WriteOperations
  <2>2. CASE level = NumLevels
    <3>1. StepsHere' = 6
      BY <1>12, <2>2 DEF WriteOperations
    <3> QED
      BY <2>1, <2>2, <3>1
  <2>3. CASE level # NumLevels
    <3>1. StepsHere' = 3 * (NumLevels - level') + 9 /\ level' = level + 1
      BY <1>12, <2>3 DEF WriteOperations
    <3> QED
      BY <2>1, <2>3, <3>1
  <2> QED
    BY <2>2, <2>3
<1>13. CASE Validate
  BY <1>13 DEF Validate
<1>14. CASE DatabaseFails \/ Interrupt
  <2>1. pc \in Working /\ pc' = "close" /\ todo' = todo
    BY <1>14 DEF DatabaseFails, Interrupt
  <2>2. StepsHere >= 6 /\ StepsHere \in Nat
    <3> HIDE DEF StepsHere
    <3> QED
      BY <2>1, StepsHereType
  <2>3. StepsHere' = 5
    BY <2>1
  <2> HIDE DEF StepsHere
  <2> QED
    BY <2>1, <2>2, <2>3
<1>16. CASE CloseDatabase
  BY <1>16 DEF CloseDatabase, StepsPerDatabase
<1>17. CASE CloseFails \/ Cleanup
  BY <1>17 DEF CloseFails, Cleanup
<1>18. CASE Drain \/ RebuildErrors \/ WriteManifest
  BY <1>18 DEF Drain, RebuildErrors, WriteManifest
<1>19. CASE WriterFlushes
  BY <1>19 DEF WriterFlushes
<1>20. CASE Kill \/ Over
  BY <1>20 DEF Kill, Over
<1> QED
  BY <1>5, <1>6, <1>7, <1>8, <1>9, <1>10, <1>11, <1>12, <1>13, <1>14, <1>16, <1>17,
     <1>18, <1>19, <1>20, <1>21, <1>22 DEF Next, ProcessStep

LEMMA Less ==
  ASSUME NEW x \in Int, NEW y \in Int, NEW k \in Nat, NEW h \in Nat, NEW g \in Nat,
         NEW b \in 0..1, NEW c \in 0..1,
         \/ y = x /\ g < h
         \/ y = x - k /\ g < h + k
         \/ y = x /\ g = h /\ c < b
  PROVE  2 * (y + g) + c < 2 * (x + h) + b
OBVIOUS

LEMMA LeftStep ==
  ASSUME TypeOK, AtDatabase, RepairIsKnown, TypeOK', AtDatabase', Next, ~Ended, ~Ended'
  PROVE  StepsLeft' < StepsLeft
<1> DEFINE k == StepsPerDatabase
           n == Len(todo)
           h == StepsHere
           b == IF buffered = {} THEN 0 ELSE 1
<1>1. k \in Nat /\ n \in Nat /\ h \in Nat /\ n' \in Nat /\ h' \in Nat /\ b \in 0..1 /\ b' \in 0..1
  <2>1. (TypeOK /\ AtDatabase =>
           /\ StepsHere \in Nat /\ StepsPerDatabase \in Nat /\ Len(todo) \in Nat
           /\ pc \in Working => StepsHere >= 6)'
    BY StepsHereType, PTL
  <2> QED
    BY <2>1, StepsHereType
<1>2. StepsLeft = 2 * (k * n + h) + b /\ StepsLeft' = 2 * (k * n' + h') + b'
  BY DEF StepsLeft, StepsPerDatabase
<1>3. \/ n' = n /\ h' < h
      \/ n' = n - 1 /\ h' < h + k
      \/ n' = n /\ h' = h /\ b = 1 /\ b' = 0
  <2>1. todo # <<>> /\ todo' = Tail(todo) => Len(todo') = Len(todo) - 1
    BY DEF TypeOK
  <2> HIDE DEF h, k
  <2> QED
    BY <2>1, HereStep DEF h, k
<1> HIDE DEF k, n, h, b
<1> DEFINE x == k * n
           y == k * n'
<1>4. x \in Int /\ y \in Int
  BY <1>1
<1>5. n' = n => y = x
  OBVIOUS
<1>6. n' = n - 1 => y = x - k
  <2>1. k * (n - 1) = k * n - k
    BY <1>1
  <2> QED
    BY <2>1
<1>7. StepsLeft = 2 * (x + h) + b /\ StepsLeft' = 2 * (y + h') + b'
  BY <1>2
<1> HIDE DEF x, y
<1>8. \/ y = x /\ h' < h
      \/ y = x - k /\ h' < h + k
      \/ y = x /\ h' = h /\ b' < b
  BY <1>3, <1>5, <1>6
<1> QED
  BY <1>1, <1>4, <1>7, <1>8, Less

\* A step of an invocation that is running, of the process or of its writer, ends
\* it or leaves it fewer steps: the repair of a database is tried once, a level is
\* measured once, and a database is not taken again.  What is left of
\* InvocationEnds is that the process takes its steps.
THEOREM Advances ==
    Spec => /\ [](StepsLeft \in Nat)
            /\ [][~Ended => StepsLeft' < StepsLeft \/ Ended']_vars
<1>1. CampaignInv => StepsLeft \in Nat
  <2> SUFFICES ASSUME CampaignInv PROVE StepsLeft \in Nat
    OBVIOUS
  <2>1. StepsHere \in Nat /\ StepsPerDatabase \in Nat /\ Len(todo) \in Nat
    BY StepsHereType DEF CampaignInv
  <2>2. StepsPerDatabase * Len(todo) \in Nat
    BY <2>1
  <2> QED
    BY <2>1, <2>2 DEF StepsLeft
<1>2. CampaignInv /\ CampaignInv' /\ RepairIsKnown /\ [Next]_vars => [~Ended => StepsLeft' < StepsLeft \/ Ended']_vars
  BY LeftStep DEF CampaignInv
<1> QED
  BY <1>1, <1>2, Invariance, RepairInvariance, PTL DEF Spec
=============================================================================
