------------------------ MODULE IntegrityAuditProofs ------------------------
(***************************************************************************)
(* Theorems about the audit and the freeze, for any databases, levels,     *)
(* fingerprints, sizes of a campaign and number of campaigns.              *)
(***************************************************************************)
EXTENDS IntegrityAudit, FunctionTheorems, FiniteSetTheorems, TLAPS

-----------------------------------------------------------------------------
(* The inductive invariant.                                                *)

AtMostOne(S) == \A a, b \in S : a = b

\* The type invariant, without cardinalities.
Typed ==
    /\ pc \in {"off", "reads", "readRows", "mixed", "level", "row", "freeze"}
    /\ run \in 0..MaxRuns /\ config \in Configurations
    /\ todo \subseteq Databases /\ current \in Databases /\ level \in 0..NumLevels
    /\ raw \in Records /\ memory \in Documents /\ files \in Documents
    /\ manifest \in [frozen : BOOLEAN, config : Configurations, mixed : BOOLEAN]
    /\ evidence \in {"none", "passed", "critical"}
    /\ audited \subseteq [raw : Records, files : Documents] /\ AtMostOne(audited)
    /\ charts \subseteq [drawn : Documents, audited : Documents] /\ AtMostOne(charts)

\* A campaign is under way, and counted; what is measured is finite.
Campaigning == pc \in {"reads", "readRows", "mixed", "level", "row"} => run >= 1
FiniteRecords == IsFiniteSet(raw.reads) /\ IsFiniteSet(raw.mixed)

\* A row of the read summary, in memory or on disk, stands on a whole set of
\* samples: it was made when the database was measured to the end.
ReadRowsBacked ==
    \A r \in memory.reads \cup files.reads :
        \E s \in raw.reads : s.db = r.db /\ s.size = Full

\* It comes with the row of the load before it.
LoadsBacked(documents) == \A r \in documents.reads : [db |-> r.db, run |-> r.run] \in documents.ingest

\* A read campaign holds every load it found, and has written those it holds
\* when it writes the summary.
LoadsKept ==
    /\ pc \in {"reads", "readRows"} => files.ingest \subseteq memory.ingest
    /\ pc = "readRows" => files.ingest = memory.ingest

\* A complete row of the mixed summary is the row of some sample on record.
MixedRowsBacked ==
    \A r \in memory.mixed \cup files.mixed : r.complete => \E s \in raw.mixed : r = MixedRowOf(s)

\* Nothing happens between the verdict and the freeze.
AboutToFreeze == pc = "freeze" => MeasuredOnce(raw, files)

\* A read campaign has lifted the freeze.
Unfrozen == pc \in {"reads", "readRows"} => ~manifest.frozen

Backed ==
    /\ FiniteRecords
    /\ ReadRowsBacked /\ LoadsBacked(memory) /\ LoadsBacked(files) /\ LoadsKept
    /\ MixedRowsBacked

IInv ==
    /\ Typed /\ Campaigning /\ Backed
    /\ AboutToFreeze /\ Unfrozen
    /\ AuditedMeansMeasuredOnce /\ FreezeIsKept /\ ChartsShowAuditedReads

-----------------------------------------------------------------------------
(* Types and frames.                                                       *)

LEMMA FailuresOfOne ==
    ASSUME NEW s \in Reads \cup Mixed
    PROVE  Failures({s}) \in 0..1
<1> DEFINE F == {q \in {s} : q.fails}
<1>1. F = {} \/ F = {s}
  OBVIOUS
<1>2. Cardinality({}) = 0 /\ Cardinality({s}) = 1
  BY FS_EmptySet, FS_Singleton
<1> QED BY <1>1, <1>2 DEF Failures

LEMMA MixedRowTyped ==
    ASSUME NEW s \in Mixed
    PROVE  MixedRowOf(s) \in MixedRow
BY FailuresOfOne DEF MixedRowOf, Mixed, MixedRow

LEMMA AtMostOneCardinality ==
    ASSUME NEW S, AtMostOne(S)
    PROVE  Cardinality(S) <= 1
<1>1. CASE S = {}
  BY <1>1, FS_EmptySet
<1>2. ASSUME NEW a \in S PROVE Cardinality(S) <= 1
  <2>1. S = {a}
    BY DEF AtMostOne
  <2>2. Cardinality({a}) = 1
    BY FS_Singleton
  <2> QED BY <2>1, <2>2
<1> QED BY <1>1, <1>2

LEMMA TypedInit == Init => Typed /\ Campaigning /\ FiniteRecords
BY SizesAssumption, FS_EmptySet
   DEF Init, Typed, Campaigning, FiniteRecords, None, Records, Documents, AtMostOne

\* What a step of a read campaign makes of memory and raw.
LEMMA ReadDatabaseEffect ==
    ASSUME Typed, ReadDatabase
    PROVE  \E d \in todo, s \in Reads, loads, measures \in BOOLEAN :
              /\ s.db = d /\ s.run = run /\ s.config = config
              /\ measures => loads
              /\ todo' = todo \ {d}
              /\ raw' \in Records
              /\ raw'.mixed = raw.mixed
              /\ raw'.reads = IF measures THEN raw.reads \cup {s} ELSE raw.reads
              /\ memory' \in Documents
              /\ memory'.mixed = memory.mixed
              /\ memory'.ingest = memory.ingest
                    \cup (IF loads THEN {[db |-> d, run |-> run]} ELSE {})
              /\ memory'.reads = memory.reads
                    \cup (IF measures /\ s.size = Full
                          THEN {[db |-> d, run |-> run, attempts |-> Full, failures |-> Failures({s})]}
                          ELSE {})
<1>1. PICK d \in todo, s \in Reads, loads \in BOOLEAN, measures \in BOOLEAN :
          /\ s.db = d /\ s.run = run /\ s.config = config
          /\ measures => loads
          /\ todo' = todo \ {d}
          /\ raw' = IF measures THEN [raw EXCEPT !.reads = @ \cup {s}] ELSE raw
          /\ memory' =
                [memory EXCEPT
                   !.ingest = @ \cup (IF loads THEN {[db |-> d, run |-> run]} ELSE {}),
                   !.reads = @ \cup (IF measures /\ s.size = Full
                                     THEN {[db |-> d, run |-> run, attempts |-> Full,
                                            failures |-> Failures({s})]}
                                     ELSE {})]
  BY DEF ReadDatabase
<1>2. d \in Databases /\ run \in 1..MaxRuns /\ Failures({s}) \in Nat
  BY <1>1, FailuresOfOne DEF Typed, Reads
<1> DEFINE i == IF loads THEN {[db |-> d, run |-> run]} ELSE {}
           q == IF measures /\ s.size = Full
                THEN {[db |-> d, run |-> run, attempts |-> Full, failures |-> Failures({s})]}
                ELSE {}
<1>3. i \subseteq Ingest /\ q \subseteq ReadRow
  BY <1>2, SizesAssumption DEF Ingest, ReadRow
<1>4. memory' = [memory EXCEPT !.ingest = @ \cup i, !.reads = @ \cup q]
  BY <1>1
<1> HIDE DEF i, q
<1>5. /\ memory' \in Documents /\ memory'.mixed = memory.mixed
      /\ memory'.ingest = memory.ingest \cup i /\ memory'.reads = memory.reads \cup q
  BY <1>3, <1>4 DEF Typed, Documents
<1>6. /\ raw' \in Records /\ raw'.mixed = raw.mixed
      /\ raw'.reads = IF measures THEN raw.reads \cup {s} ELSE raw.reads
  BY <1>1 DEF Typed, Records
<1> WITNESS d \in todo, s \in Reads, loads \in BOOLEAN, measures \in BOOLEAN
<1> QED BY <1>1, <1>5, <1>6 DEF i, q

LEMMA FlushEffect ==
    ASSUME Typed, MixedFlush
    PROVE  /\ memory' \in Documents /\ files' \in Documents
           /\ memory'.ingest = memory.ingest /\ memory'.reads = memory.reads
           /\ files'.ingest = files.ingest /\ files'.reads = files.reads
           /\ files'.mixed = memory'.mixed
           /\ \E s \in raw.mixed : memory'.mixed = memory.mixed \cup {MixedRowOf(s)}
<1>1. PICK s \in MixedOf(current, level) :
          memory' = [memory EXCEPT !.mixed = @ \cup {MixedRowOf(s)}]
  BY DEF MixedFlush
<1>2. s \in raw.mixed /\ s \in Mixed
  BY DEF MixedOf, Typed, Records
<1>3. MixedRowOf(s) \in MixedRow
  BY <1>2, MixedRowTyped
<1>4. /\ memory' \in Documents /\ memory'.mixed = memory.mixed \cup {MixedRowOf(s)}
      /\ memory'.ingest = memory.ingest /\ memory'.reads = memory.reads
  BY <1>1, <1>3 DEF Typed, Documents
<1>5. files' = [files EXCEPT !.mixed = memory'.mixed]
  BY DEF MixedFlush
<1>6. /\ files' \in Documents /\ files'.mixed = memory'.mixed
      /\ files'.ingest = files.ingest /\ files'.reads = files.reads
  BY <1>4, <1>5 DEF Typed, Documents
<1> QED BY <1>2, <1>4, <1>6

LEMMA FailsEffect ==
    ASSUME Typed, Campaigning, MixedFails
    PROVE  /\ memory' \in Documents
           /\ memory'.ingest = memory.ingest /\ memory'.reads = memory.reads
           /\ \A r \in memory'.mixed : r \in memory.mixed \/ ~r.complete
<1> DEFINE missing == {l \in Level : \A r \in memory.mixed : r.db = current => r.level # l}
           rows == {[db |-> current, level |-> l, run |-> run, complete |-> FALSE,
                     attempts |-> 0, failures |-> 0] : l \in missing}
<1>1. memory' = [memory EXCEPT !.mixed = @ \cup rows]
  BY DEF MixedFails
<1>2. run \in 1..MaxRuns
  BY SizesAssumption DEF MixedFails, Campaigning, Typed
<1>3. rows \subseteq MixedRow /\ \A r \in rows : ~r.complete
  <2> SUFFICES ASSUME NEW l \in Level
               PROVE  [db |-> current, level |-> l, run |-> run, complete |-> FALSE,
                       attempts |-> 0, failures |-> 0] \in MixedRow
    OBVIOUS
  <2>1. current \in Databases
    BY DEF Typed
  <2> HIDE DEF rows, missing
  <2> QED BY <1>2, <2>1 DEF MixedRow
<1> HIDE DEF rows
<1> QED BY <1>1, <1>3 DEF Typed, Documents

LEMMA TypedNext == Typed /\ Campaigning /\ [Next]_vars => Typed' /\ Campaigning'
<1> SUFFICES ASSUME Typed, Campaigning, [Next]_vars PROVE Typed' /\ Campaigning'
  OBVIOUS
<1>1. CASE Audit
  BY <1>1 DEF Audit, campaign, Typed, Campaigning
<1>2. CASE Freeze
  <2>1. manifest' \in [frozen : BOOLEAN, config : Configurations, mixed : BOOLEAN]
    BY <1>2 DEF Freeze, Typed
  <2>2. audited' \subseteq [raw : Records, files : Documents] /\ AtMostOne(audited')
    BY <1>2 DEF Freeze, Typed, AtMostOne
  <2> QED BY <1>2, <2>1, <2>2 DEF Freeze, campaign, Typed, Campaigning
<1>3. CASE Report
  <2>1. charts' \subseteq [drawn : Documents, audited : Documents] /\ AtMostOne(charts')
    <3>1. charts' = {[drawn |-> files, audited |-> a.files] : a \in audited}
      BY <1>3 DEF Report
    <3> QED BY <3>1 DEF Typed, AtMostOne
  <2> QED BY <1>3, <2>1 DEF Report, campaign, Typed, Campaigning
<1>4. CASE Checkout
  BY <1>4 DEF Checkout, Typed, Campaigning
<1>5. ASSUME NEW dbs \in SUBSET Databases \ {{}}, ReadBegin(dbs) PROVE Typed' /\ Campaigning'
  <2>1. run' \in 0..MaxRuns /\ run' >= 1
    BY <1>5, SizesAssumption DEF ReadBegin, Begin, Typed
  <2> QED BY <1>5, <2>1 DEF ReadBegin, Begin, Typed, Campaigning
<1>6. ASSUME NEW dbs \in SUBSET Databases \ {{}}, MixedBegin(dbs) PROVE Typed' /\ Campaigning'
  <2>1. run' \in 0..MaxRuns /\ run' >= 1
    BY <1>6, SizesAssumption DEF MixedBegin, Begin, Typed
  <2> QED BY <1>6, <2>1 DEF MixedBegin, Begin, Typed, Campaigning
<1>7. CASE ReadDatabase
  <2>1. raw' \in Records /\ memory' \in Documents /\ todo' \subseteq Databases
    BY <1>7, ReadDatabaseEffect DEF Typed
  <2> QED BY <1>7, <2>1 DEF ReadDatabase, Typed, Campaigning
<1>8. CASE ReadWriteIngest
  <2>1. files' \in Documents
    BY <1>8 DEF ReadWriteIngest, Typed, Documents
  <2> QED BY <1>8, <2>1 DEF ReadWriteIngest, campaign, Typed, Campaigning
<1>9. CASE ReadWriteSummaries
  <2>1. files' \in Documents
    BY <1>9 DEF ReadWriteSummaries, Typed, Documents
  <2> QED BY <1>9, <2>1 DEF ReadWriteSummaries, campaign, Typed, Campaigning
<1>10. CASE MixedDatabase
  <2>1. PICK d \in todo : /\ current' = d /\ todo' = todo \ {d}
                          /\ memory' = [memory EXCEPT !.mixed = {r \in @ : r.db # d}]
    BY <1>10 DEF MixedDatabase
  <2>2. {r \in memory.mixed : r.db # d} \subseteq MixedRow
    BY DEF Typed, Documents
  <2>3. memory' \in Documents
    BY <2>1, <2>2 DEF Typed, Documents
  <2>4. 1 \in 0..NumLevels
    BY SizesAssumption
  <2> QED BY <1>10, <2>1, <2>3, <2>4 DEF MixedDatabase, Typed, Campaigning
<1>11. CASE MixedMeasure
  <2>1. raw' \in Records
    BY <1>11 DEF MixedMeasure, Typed, Records
  <2> QED BY <1>11, <2>1 DEF MixedMeasure, Typed, Campaigning
<1>12. CASE MixedFlush
  <2>1. memory' \in Documents /\ files' \in Documents
    BY <1>12, FlushEffect
  <2>2. level' \in 0..NumLevels
    BY <1>12, SizesAssumption DEF MixedFlush, Typed
  <2> QED BY <1>12, <2>1, <2>2 DEF MixedFlush, Typed, Campaigning
<1>13. CASE MixedFails
  <2>1. memory' \in Documents
    BY <1>13, FailsEffect
  <2> QED BY <1>13, <2>1 DEF MixedFails, Typed, Campaigning
<1>14. CASE MixedEnd
  BY <1>14 DEF MixedEnd, campaign, Typed, Campaigning
<1>15. CASE Kill
  BY <1>15 DEF Kill, campaign, Typed, Campaigning
<1>16. CASE UNCHANGED vars
  BY <1>16 DEF vars, Typed, Campaigning
<1> QED BY <1>1, <1>2, <1>3, <1>4, <1>5, <1>6, <1>7, <1>8, <1>9, <1>10, <1>11, <1>12,
           <1>13, <1>14, <1>15, <1>16 DEF Next

-----------------------------------------------------------------------------
(* Every row stands on records.                                            *)

LEMMA BackedInit == Init => Backed
BY FS_EmptySet
   DEF Init, None, Backed, FiniteRecords, ReadRowsBacked, LoadsBacked, LoadsKept, MixedRowsBacked

\* Records only come, rows on disk were in memory.
LEMMA BackedNext == Typed /\ Campaigning /\ Backed /\ [Next]_vars => Backed'
<1> SUFFICES ASSUME Typed, Campaigning, Backed, [Next]_vars PROVE Backed'
  OBVIOUS
<1> USE DEF Backed
<1>1. ASSUME UNCHANGED <<raw, memory, files>>, pc' \in {"off", "freeze"} \/ UNCHANGED pc
      PROVE  Backed'
  BY <1>1 DEF FiniteRecords, ReadRowsBacked, LoadsBacked, LoadsKept, MixedRowsBacked
<1>2. ASSUME NEW where, NEW dbs, Begin(where, dbs), where \in {"reads", "mixed"}
      PROVE  Backed'
  BY <1>2 DEF Begin, FiniteRecords, ReadRowsBacked, LoadsBacked, LoadsKept, MixedRowsBacked
<1>3. CASE ReadDatabase
  <2>1. PICK d \in todo, s \in Reads, loads \in BOOLEAN, measures \in BOOLEAN :
          /\ s.db = d /\ s.run = run /\ s.config = config
          /\ measures => loads
          /\ raw'.mixed = raw.mixed
          /\ raw'.reads = IF measures THEN raw.reads \cup {s} ELSE raw.reads
          /\ memory'.mixed = memory.mixed
          /\ memory'.ingest = memory.ingest
                \cup (IF loads THEN {[db |-> d, run |-> run]} ELSE {})
          /\ memory'.reads = memory.reads
                \cup (IF measures /\ s.size = Full
                      THEN {[db |-> d, run |-> run, attempts |-> Full, failures |-> Failures({s})]}
                      ELSE {})
    BY <1>3, ReadDatabaseEffect
  <2>2. UNCHANGED <<pc, files>> /\ pc = "reads"
    BY <1>3 DEF ReadDatabase
  <2>3. FiniteRecords'
    <3>1. IsFiniteSet(raw.reads \cup {s}) /\ IsFiniteSet(raw.reads) /\ IsFiniteSet(raw.mixed)
      BY FS_AddElement DEF FiniteRecords
    <3>2. raw'.reads = raw.reads \cup {s} \/ raw'.reads = raw.reads
      BY <2>1
    <3> QED BY <2>1, <3>1, <3>2 DEF FiniteRecords
  <2>4. ASSUME NEW r \in memory'.reads
        PROVE  /\ \E q \in raw'.reads : q.db = r.db /\ q.size = Full
               /\ [db |-> r.db, run |-> r.run] \in memory'.ingest
    <3>1. CASE r \in memory.reads
      BY <3>1, <2>1 DEF ReadRowsBacked, LoadsBacked
    <3>2. CASE r \notin memory.reads
      <4>1. measures /\ s.size = Full /\ r.db = d /\ r.run = run
        BY <3>2, <2>1
      <4> QED BY <4>1, <2>1
    <3> QED BY <3>1, <3>2
  <2>5. ReadRowsBacked'
    <3>1. \A r \in files.reads : \E q \in raw'.reads : q.db = r.db /\ q.size = Full
      BY <2>1 DEF ReadRowsBacked
    <3> QED BY <2>2, <2>4, <3>1 DEF ReadRowsBacked
  <2>6. LoadsBacked(memory)' /\ LoadsBacked(files)'
    BY <2>2, <2>4 DEF LoadsBacked
  <2>7. LoadsKept'
    BY <2>1, <2>2 DEF LoadsKept
  <2>8. MixedRowsBacked'
    BY <2>1, <2>2 DEF MixedRowsBacked
  <2> QED BY <2>3, <2>5, <2>6, <2>7, <2>8
<1>4. CASE ReadWriteIngest
  <2>1. /\ files'.ingest = memory.ingest /\ files'.reads = files.reads /\ files'.mixed = files.mixed
        /\ UNCHANGED <<raw, memory>> /\ pc = "reads" /\ pc' = "readRows"
    BY <1>4 DEF ReadWriteIngest, campaign, Typed, Documents
  <2> QED BY <2>1 DEF FiniteRecords, ReadRowsBacked, LoadsBacked, LoadsKept, MixedRowsBacked
<1>5. CASE ReadWriteSummaries
  <2>1. /\ files'.reads = memory.reads /\ files'.ingest = files.ingest /\ files'.mixed = files.mixed
        /\ UNCHANGED <<raw, memory>> /\ pc = "readRows" /\ pc' = "off"
    BY <1>5 DEF ReadWriteSummaries, campaign, Typed, Documents
  <2> QED BY <2>1 DEF FiniteRecords, ReadRowsBacked, LoadsBacked, LoadsKept, MixedRowsBacked
<1>6. CASE MixedDatabase
  <2>1. /\ memory'.reads = memory.reads /\ memory'.ingest = memory.ingest
        /\ memory'.mixed \subseteq memory.mixed
        /\ UNCHANGED <<raw, files>> /\ pc' = "level"
    BY <1>6 DEF MixedDatabase, Typed, Documents
  <2> QED BY <2>1 DEF FiniteRecords, ReadRowsBacked, LoadsBacked, LoadsKept, MixedRowsBacked
<1>7. CASE MixedMeasure
  <2>1. PICK s \in Mixed : raw' = [raw EXCEPT !.mixed = @ \cup {s}]
    BY <1>7 DEF MixedMeasure
  <2>2. raw'.reads = raw.reads /\ raw'.mixed = raw.mixed \cup {s}
    BY <2>1 DEF Typed, Records
  <2>3. UNCHANGED <<memory, files>> /\ pc' = "row"
    BY <1>7 DEF MixedMeasure
  <2>4. FiniteRecords'
    BY <2>2, FS_AddElement DEF FiniteRecords
  <2> QED BY <2>2, <2>3, <2>4 DEF ReadRowsBacked, LoadsBacked, LoadsKept, MixedRowsBacked
<1>8. CASE MixedFlush
  <2>1. PICK s \in raw.mixed : memory'.mixed = memory.mixed \cup {MixedRowOf(s)}
    BY <1>8, FlushEffect
  <2>2. /\ memory'.ingest = memory.ingest /\ memory'.reads = memory.reads
        /\ files'.ingest = files.ingest /\ files'.reads = files.reads
        /\ files'.mixed = memory'.mixed
    BY <1>8, FlushEffect
  <2>3. UNCHANGED raw /\ pc' \in {"level", "mixed"}
    BY <1>8 DEF MixedFlush
  <2>4. MixedRowsBacked'
    <3>1. MixedRowOf(s)' = MixedRowOf(s)
      BY DEF MixedRowOf
    <3> QED BY <2>1, <2>2, <2>3 DEF MixedRowsBacked
  <2> QED BY <2>2, <2>3, <2>4 DEF FiniteRecords, ReadRowsBacked, LoadsBacked, LoadsKept
<1>9. CASE MixedFails
  <2>1. /\ memory'.ingest = memory.ingest /\ memory'.reads = memory.reads
        /\ \A r \in memory'.mixed : r \in memory.mixed \/ ~r.complete
    BY <1>9, FailsEffect
  <2>2. UNCHANGED <<raw, files>> /\ pc' = "mixed"
    BY <1>9 DEF MixedFails
  <2> QED BY <2>1, <2>2 DEF FiniteRecords, ReadRowsBacked, LoadsBacked, LoadsKept, MixedRowsBacked
<1>10. CASE Audit \/ Freeze \/ Report \/ Checkout \/ MixedEnd \/ Kill \/ UNCHANGED vars
  BY <1>1, <1>10 DEF Audit, Freeze, Report, Checkout, MixedEnd, Kill, vars, campaign
<1> QED BY <1>2, <1>3, <1>4, <1>5, <1>6, <1>7, <1>8, <1>9, <1>10 DEF Next, ReadBegin, MixedBegin

-----------------------------------------------------------------------------
(* What the audit passes.                                                  *)

\* If one campaign's samples of a database are all there should be, any other
\* sample would be one too many.
LEMMA WholeIsAlone ==
    ASSUME NEW S \in SUBSET Reads, IsFiniteSet(S), Size(S) = Full,
           NEW s \in S, s.size = Full
    PROVE  S = {s}
<1> DEFINE P == {p \in S \X (1..Full) : p[2] <= p[1].size}
           Own == {s} \X (1..Full)
<1>0. Full \in Nat \ {0}
  BY SizesAssumption
<1>1. IsFiniteSet(1..Full) /\ Cardinality(1..Full) = Full
  BY <1>0, FS_Interval
<1>2. IsFiniteSet(P) /\ Cardinality(P) = Full
  <2>1. IsFiniteSet(S \X (1..Full))
    BY <1>1, FS_Product
  <2> QED BY <2>1, FS_Subset DEF Size
<1>3. Own \in SUBSET P
  OBVIOUS
<1>4. Cardinality(Own) = Full
  <2>1. IsFiniteSet({s}) /\ Cardinality({s}) = 1
    BY FS_Singleton
  <2>2. Cardinality(Own) = 1 * Full
    BY <1>1, <2>1, FS_Product
  <2> QED BY <1>0, <2>2
<1>5. Own = P
  <2> HIDE DEF P, Own
  <2> QED BY <1>2, <1>3, <1>4, FS_Subset
<1>6. ASSUME NEW q \in S PROVE q = s
  <2>1. <<q, 1>> \in P
    BY <1>0 DEF Reads
  <2>2. <<q, 1>> \in Own
    BY <2>1, <1>5
  <2> QED BY <2>2
<1> QED BY <1>6

LEMMA FiniteIngest == IsFiniteSet(Ingest)
<1> DEFINE f == [r \in Ingest |-> <<r.db, r.run>>]
<1>1. IsFiniteSet(1..MaxRuns)
  BY SizesAssumption, FS_Interval
<1>2. IsFiniteSet(Databases \X (1..MaxRuns))
  BY <1>1, DatabasesAssumption, FS_Product
<1>3. f \in Injection(Ingest, Databases \X (1..MaxRuns))
  BY DEF Injection, IsInjective, Ingest
<1> QED BY <1>2, <1>3, FS_Injection

LEMMA AuditPasses ==
    ASSUME Typed, Backed, ~AuditRaises, Identity, ReadAudit, MixedAudit, IngestAudit
    PROVE  MeasuredOnce(raw, files)
<1>1. raw.reads \subseteq Reads /\ raw.mixed \subseteq Mixed
  BY DEF Typed, Records
<1>2. files.ingest \subseteq Ingest /\ files.reads \subseteq ReadRow /\ files.mixed \subseteq MixedRow
  BY DEF Typed, Documents
<1>3. IsFiniteSet(raw.reads) /\ IsFiniteSet(raw.mixed)
  BY DEF Backed, FiniteRecords
<1>4. ASSUME NEW d \in Databases
      PROVE  /\ \E r \in files.reads : r.db = d
             /\ \E s \in raw.reads : ReadsOf(d) = {s} /\ s.size = Full /\ ~s.fails
  <2>1. PICK r \in LastRead(d) : TRUE
    BY DEF ReadAudit, ReadReconciles
  <2>2. r \in files.reads /\ r.db = d
    BY <2>1 DEF LastRead
  <2>3. PICK s \in raw.reads : s.db = d /\ s.size = Full
    BY <2>2 DEF Backed, ReadRowsBacked
  <2>4. ReadsOf(d) \in SUBSET Reads /\ s \in ReadsOf(d) /\ IsFiniteSet(ReadsOf(d))
    BY <1>1, <1>3, <2>3, FS_Subset DEF ReadsOf
  <2>5. Size(ReadsOf(d)) = Full /\ Failures(ReadsOf(d)) = 0
    BY DEF ReadAudit
  <2>6. ReadsOf(d) = {s}
    BY <2>3, <2>4, <2>5, WholeIsAlone
  <2>7. ASSUME s.fails PROVE FALSE
    <3>1. {q \in ReadsOf(d) : q.fails} = {s}
      BY <2>6, <2>7
    <3>2. Cardinality({s}) = 1
      BY FS_Singleton
    <3> QED BY <2>5, <3>1, <3>2 DEF Failures
  <2> QED BY <2>2, <2>3, <2>6, <2>7
<1>5. ASSUME NEW d \in Databases PROVE Cardinality({r \in files.ingest : r.db = d}) = 1
  <2> DEFINE f == [r \in files.ingest |-> r.db]
  <2>1. f \in [files.ingest -> Databases]
    BY <1>2 DEF Ingest
  <2>2. \A e \in Databases : \E r \in files.ingest : f[r] = e
    <3> SUFFICES ASSUME NEW e \in Databases PROVE \E r \in files.ingest : r.db = e
      OBVIOUS
    <3>1. PICK r \in files.reads : r.db = e
      BY <1>4
    <3>2. [db |-> e, run |-> r.run] \in files.ingest
      BY <3>1 DEF Backed, LoadsBacked
    <3> QED BY <3>2
  <2>3. f \in Surjection(files.ingest, Databases)
    <3> HIDE DEF f
    <3> QED BY <2>1, <2>2, Fun_IsSurj
  <2>4. IsFiniteSet(files.ingest)
    BY <1>2, FiniteIngest, FS_Subset
  <2>5. f \in Injection(files.ingest, Databases)
    <3> HIDE DEF f
    <3> QED BY <2>3, <2>4, DatabasesAssumption, FS_SurjSameCardinalityImpliesInj DEF IngestAudit
  <2>6. PICK r \in files.ingest : f[r] = d
    BY <2>2
  <2>7. {q \in files.ingest : q.db = d} = {r}
    <3>1. \A q \in files.ingest : f[q] = f[r] => q = r
      <4> HIDE DEF f
      <4> QED BY <2>5 DEF Injection, IsInjective
    <3> QED BY <2>6, <3>1
  <2> QED BY <2>7, FS_Singleton
<1>6. ASSUME NEW d \in Databases, NEW l \in Level
      PROVE  \E s \in raw.mixed : MixedOf(d, l) = {s} /\ MixedRowOf(s) \in files.mixed
  <2>1. PICK r \in RowsOf(d, l) : TRUE
    BY DEF AuditRaises
  <2>2. r \in files.mixed /\ r.db = d /\ r.level = l /\ r.attempts \in 0..1
    BY <1>2, <2>1 DEF RowsOf, MixedRow
  <2>3. MixedOf(d, l) # {} /\ r.complete /\ r.attempts = Cardinality(MixedOf(d, l))
    BY <2>1 DEF MixedAudit, MixedReconciles
  <2>4. PICK s \in raw.mixed : r = MixedRowOf(s)
    BY <2>2, <2>3 DEF Backed, MixedRowsBacked
  <2>5. s \in MixedOf(d, l)
    BY <2>2, <2>4 DEF MixedOf, MixedRowOf
  <2>6. IsFiniteSet(MixedOf(d, l))
    BY <1>3, FS_Subset DEF MixedOf
  <2>7. Cardinality(MixedOf(d, l)) = 1
    BY <2>2, <2>3, <2>6, FS_EmptySet
  <2>8. MixedOf(d, l) = {s}
    <3>1. PICK q : MixedOf(d, l) = {q}
      BY <2>6, <2>7, FS_Singleton
    <3> QED BY <2>5, <3>1
  <2> QED BY <2>2, <2>4, <2>8
<1>7. \A s \in raw.reads \cup raw.mixed : s.config = Frozen
  BY DEF Identity
<1>8. ASSUME NEW d \in Databases
      PROVE  LET reads == {s \in raw.reads : s.db = d}
             IN  OneRun(reads) /\ \E s \in reads : s.size = Full /\ ~s.fails
  BY <1>4 DEF ReadsOf, OneRun
<1>9. ASSUME NEW d \in Databases, NEW l \in Level
      PROVE  LET mixed == {s \in raw.mixed : s.db = d /\ s.level = l}
             IN  /\ mixed # {} /\ OneRun(mixed)
                 /\ \A s \in mixed : MixedRowOf(s) \in files.mixed
  BY <1>6 DEF MixedOf, OneRun
<1> QED BY <1>5, <1>7, <1>8, <1>9 DEF MeasuredOnce

-----------------------------------------------------------------------------
(* The verdict, the freeze and the charts.                                 *)

Judged ==
    /\ AboutToFreeze /\ Unfrozen
    /\ AuditedMeansMeasuredOnce /\ FreezeIsKept /\ ChartsShowAuditedReads

LEMMA JudgedInit == Init => Judged
BY DEF Init, Judged, AboutToFreeze, Unfrozen, AuditedMeansMeasuredOnce, FreezeIsKept,
       ChartsShowAuditedReads

\* Steps that leave the frozen part of the directory, the verdict and the charts alone.
LEMMA JudgedFrame ==
    ASSUME Judged, UNCHANGED <<audited, charts>>, raw'.reads = raw.reads,
           files'.reads = files.reads, files'.ingest = files.ingest,
           manifest'.frozen => manifest.frozen,
           pc' # "freeze", pc' \in {"reads", "readRows"} => ~manifest'.frozen
    PROVE  Judged'
<1>1. AuditedMeansMeasuredOnce'
  BY DEF Judged, AuditedMeansMeasuredOnce, MeasuredOnce, OneRun, MixedRowOf, Failures
<1> QED BY <1>1 DEF Judged, AboutToFreeze, Unfrozen, FreezeIsKept, ChartsShowAuditedReads

LEMMA JudgedNext == IInv /\ [Next]_vars => Judged'
<1> SUFFICES ASSUME IInv, [Next]_vars PROVE Judged'
  OBVIOUS
<1> USE DEF IInv
<1>0. Judged
  BY DEF Judged
<1>1. CASE Audit
  <2>1. UNCHANGED <<raw, files, manifest, audited, charts>> /\ pc' \in {"off", "freeze"} /\ pc = "off"
    BY <1>1 DEF Audit, campaign
  <2>2. CASE pc' = "freeze"
    <3>1. ~AuditRaises /\ Identity /\ ReadAudit /\ MixedAudit /\ IngestAudit
      BY <1>1, <2>1, <2>2 DEF Audit
    <3>2. MeasuredOnce(raw, files)
      BY <3>1, AuditPasses
    <3>3. AuditedMeansMeasuredOnce' /\ MeasuredOnce(raw, files)'
      BY <2>1, <3>2 DEF AuditedMeansMeasuredOnce
    <3> QED BY <2>1, <2>2, <3>3 DEF Judged, AboutToFreeze, Unfrozen, FreezeIsKept, ChartsShowAuditedReads
  <2>3. CASE pc' # "freeze"
    BY <1>0, <2>1, <2>3, JudgedFrame
  <2> QED BY <2>2, <2>3
<1>2. CASE Freeze
  <2>1. /\ UNCHANGED <<raw, files, charts>> /\ pc = "freeze" /\ pc' = "off"
        /\ audited' = {[raw |-> raw, files |-> files]}
    BY <1>2 DEF Freeze, campaign
  <2>2. MeasuredOnce(raw, files)
    BY <2>1 DEF AboutToFreeze
  <2>3. AuditedMeansMeasuredOnce'
    BY <2>1, <2>2 DEF AuditedMeansMeasuredOnce
  <2>4. FreezeIsKept' /\ ChartsShowAuditedReads'
    BY <2>1 DEF FreezeIsKept, ChartsShowAuditedReads
  <2> QED BY <2>1, <2>3, <2>4 DEF Judged, AboutToFreeze, Unfrozen
<1>3. CASE Report
  <2>1. /\ UNCHANGED <<pc, raw, files, manifest, audited>> /\ manifest.frozen /\ pc = "off"
        /\ charts' = {[drawn |-> files, audited |-> a.files] : a \in audited}
    BY <1>3 DEF Report, campaign
  <2>2. ChartsShowAuditedReads'
    BY <2>1 DEF FreezeIsKept, ChartsShowAuditedReads
  <2>3. AuditedMeansMeasuredOnce'
    BY <2>1 DEF AuditedMeansMeasuredOnce
  <2> QED BY <2>1, <2>2, <2>3 DEF Judged, AboutToFreeze, Unfrozen, FreezeIsKept
<1>4. ASSUME NEW dbs, ReadBegin(dbs) PROVE Judged'
  <2>1. ~manifest'.frozen /\ UNCHANGED <<raw, files, audited, charts>> /\ pc' = "reads"
    BY <1>4 DEF ReadBegin, Begin
  <2> QED BY <1>0, <2>1, JudgedFrame
<1>5. ASSUME NEW dbs, MixedBegin(dbs) PROVE Judged'
  <2>1. UNCHANGED <<manifest, raw, files, audited, charts>> /\ pc' = "mixed"
    BY <1>5 DEF MixedBegin, Begin
  <2> QED BY <1>0, <2>1, JudgedFrame
<1>6. CASE ReadDatabase \/ ReadWriteIngest \/ ReadWriteSummaries
  <2>1. /\ UNCHANGED <<manifest, audited, charts>> /\ pc \in {"reads", "readRows"}
        /\ pc' \in {"reads", "readRows", "off"}
    BY <1>6 DEF ReadDatabase, ReadWriteIngest, ReadWriteSummaries
  <2>2. ~manifest.frozen
    BY <2>1 DEF Unfrozen
  <2>3. AuditedMeansMeasuredOnce'
    BY <2>1 DEF AuditedMeansMeasuredOnce
  <2> QED BY <2>1, <2>2, <2>3 DEF Judged, AboutToFreeze, Unfrozen, FreezeIsKept, ChartsShowAuditedReads
<1>7. CASE MixedMeasure
  <2>1. raw'.reads = raw.reads
    BY <1>7 DEF MixedMeasure, Typed, Records
  <2>2. UNCHANGED <<files, manifest, audited, charts>> /\ pc' = "row"
    BY <1>7 DEF MixedMeasure
  <2> QED BY <1>0, <2>1, <2>2, JudgedFrame
<1>8. CASE MixedFlush
  <2>1. files'.ingest = files.ingest /\ files'.reads = files.reads
    BY <1>8, FlushEffect
  <2>2. UNCHANGED <<raw, manifest, audited, charts>> /\ pc' \in {"level", "mixed"}
    BY <1>8 DEF MixedFlush
  <2> QED BY <1>0, <2>1, <2>2, JudgedFrame
<1>9. CASE MixedEnd
  <2>1. manifest'.frozen = manifest.frozen
    BY <1>9 DEF MixedEnd, Typed
  <2>2. UNCHANGED <<raw, files, audited, charts>> /\ pc' = "off"
    BY <1>9 DEF MixedEnd, campaign
  <2> QED BY <1>0, <2>1, <2>2, JudgedFrame
<1>10. CASE Checkout \/ MixedDatabase \/ MixedFails \/ Kill
  <2>1. UNCHANGED <<raw, files, manifest, audited, charts>> /\ pc' \in {"off", "level", "mixed"}
    BY <1>10 DEF Checkout, MixedDatabase, MixedFails, Kill, campaign
  <2> QED BY <1>0, <2>1, JudgedFrame
<1>11. CASE UNCHANGED vars
  <2>1. AuditedMeansMeasuredOnce' /\ AboutToFreeze'
    BY <1>11 DEF vars, AuditedMeansMeasuredOnce, AboutToFreeze
  <2> QED BY <1>11, <2>1 DEF vars, Judged, Unfrozen, FreezeIsKept, ChartsShowAuditedReads
<1> QED BY <1>1, <1>2, <1>3, <1>4, <1>5, <1>6, <1>7, <1>8, <1>9, <1>10, <1>11 DEF Next

-----------------------------------------------------------------------------
(* The theorems.                                                           *)

\* The inductive invariant: rows stand on records, and what is frozen stands
\* as the audit saw it.
THEOREM Invariance == Spec => []IInv
<1>1. Init => IInv
  BY TypedInit, BackedInit, JudgedInit DEF IInv, Judged
<1>2. IInv /\ [Next]_vars => IInv'
  BY TypedNext, BackedNext, JudgedNext DEF IInv, Judged
<1> QED BY <1>1, <1>2, PTL DEF Spec

\* Type correctness of the directory, of the manifest and of what is remembered.
THEOREM TypeCorrect == Spec => []TypeOK
<1>1. IInv => TypeOK
  BY AtMostOneCardinality DEF IInv, Typed, TypeOK
<1> QED BY <1>1, Invariance, PTL

\* What an audit passes was measured once: the audit counts samples, rows and
\* loads, and the counts leave no room for a second campaign's.
THEOREM MeasuredOnceIfAudited == Spec => []AuditedMeansMeasuredOnce
<1>1. IInv => AuditedMeansMeasuredOnce
  BY DEF IInv
<1> QED BY <1>1, Invariance, PTL

\* A frozen directory holds the audited reads, and the charts are of them.
THEOREM FrozenReads == Spec => []FrozenReadsAreAudited
<1>1. IInv => FrozenReadsAreAudited
  BY DEF IInv, FrozenReadsAreAudited
<1> QED BY <1>1, Invariance, PTL

=============================================================================
