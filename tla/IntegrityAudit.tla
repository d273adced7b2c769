--------------------------- MODULE IntegrityAudit ---------------------------
(***************************************************************************)
(* The integrity audit (graphbench/integrity_audit.py), the freeze it puts *)
(* in the campaign's manifest, and the charts that the freeze admits       *)
(* (graphbench/reporting.py), over a campaign directory that read and      *)
(* mixed campaigns go on changing.  A database of a read campaign and a    *)
(* level of a mixed one are one step here: ReadCampaign and MixedCampaign  *)
(* are what happens inside.                                                *)
(***************************************************************************)
EXTENDS Integers, FiniteSets

CONSTANTS
    Databases,      \* DATABASES
    NumLevels,      \* how many concurrency levels
    Configurations, \* the fingerprints a checkout may have
    Frozen,         \* FINGERPRINT, the one the audit is for
    Full,           \* measured samples of a database in a whole read campaign
    MaxRuns         \* bound: read and mixed campaigns

ASSUME DatabasesAssumption == IsFiniteSet(Databases)
ASSUME FrozenAssumption == Frozen \in Configurations
ASSUME SizesAssumption ==
    NumLevels \in Nat \ {0} /\ Full \in Nat \ {0, 1} /\ MaxRuns \in Nat

VARIABLES
    pc,         \* where the process is; "off": it is not running
    run,        \* how many campaigns there have been
    config,     \* the fingerprint of the checkout
    todo,       \* the databases still to do
    current,    \* the database of the mixed campaign, and its level
    level,
    memory,     \* the rows the running campaign holds
    raw,        \* the measurements in read_raw.jsonl and mixed_raw.jsonl
    files,      \* the documents of ingest/ and summaries/
    manifest,   \* campaign_manifest.json: fingerprint, integrity_audit and results_frozen
    evidence,   \* the publication status in audit/integrity_audit.json
    audited,    \* raw and files as the last audit that passed saw them (history)
    charts      \* the files the charts were drawn from, and those audited then

vars == <<pc, run, config, todo, current, level, memory, raw, files, manifest,
          evidence, audited, charts>>
campaign == <<run, config, todo, current, level, memory, raw>>

Level == 1..NumLevels

\* The measured samples one campaign left of a database (of all its
\* workloads and rounds), or of a level of it: how many, and whether one failed.
Reads == [db : Databases, run : 1..MaxRuns, config : Configurations, size : 1..Full, fails : BOOLEAN]
Mixed == [db : Databases, level : Level, run : 1..MaxRuns, config : Configurations, fails : BOOLEAN]

\* Rows carry the statistics of the samples they were computed from.
ReadRow  == [db : Databases, run : 1..MaxRuns, attempts : Nat, failures : Nat]
MixedRow == [db : Databases, level : Level, run : 1..MaxRuns,
             complete : BOOLEAN, attempts : 0..1, failures : 0..1]
Ingest   == [db : Databases, run : 1..MaxRuns]

Records   == [reads : SUBSET Reads, mixed : SUBSET Mixed]
Documents == [ingest : SUBSET Ingest, reads : SUBSET ReadRow, mixed : SUBSET MixedRow]

None == [ingest |-> {}, reads |-> {}, mixed |-> {}]

Init ==
    /\ pc = "off" /\ run = 0 /\ config \in Configurations /\ todo = {}
    /\ current \in Databases /\ level = 0
    /\ memory = None /\ files = None /\ raw = [reads |-> {}, mixed |-> {}]
    /\ manifest = [frozen |-> FALSE, config |-> config, mixed |-> FALSE]
    /\ evidence = "none"
    /\ audited = {} /\ charts = {}

-----------------------------------------------------------------------------
(* Statistics and their reconciliation.                                    *)

Size(S)     == Cardinality({p \in S \X (1..Full) : p[2] <= p[1].size})
Failures(S) == Cardinality({s \in S : s.fails})

ReadsOf(d)    == {s \in raw.reads : s.db = d}
MixedOf(d, l) == {s \in raw.mixed : s.db = d /\ s.level = l}

\* Of several rows with one key the index keeps the last.
LastRead(d) ==
    LET rows == {r \in files.reads : r.db = d}
    IN  {r \in rows : \A q \in rows : q.run <= r.run}

RowsOf(d, l) == {r \in files.mixed : r.db = d /\ r.level = l}

\* _reconcile: every key of the raw records has a row with their statistics,
\* and every row a key there.
ReadReconciles(d) ==
    \E r \in LastRead(d) : r.attempts = Size(ReadsOf(d)) /\ r.failures = Failures(ReadsOf(d))

\* Mutant: every row is held against the records of its own campaign.
ReconcilesByRun(d, l) ==
    \A r \in RowsOf(d, l) :
        LET own == {s \in MixedOf(d, l) : s.run = r.run}
        IN  r.complete /\ r.attempts = Cardinality(own) /\ r.failures = Failures(own)

MixedReconciles(d, l) ==
    /\ MixedOf(d, l) # {} <=> RowsOf(d, l) # {}
    /\ \A r \in RowsOf(d, l) :
          r.complete /\ r.attempts = Cardinality(MixedOf(d, l)) /\ r.failures = Failures(MixedOf(d, l))

Identity ==
    /\ manifest.config = Frozen
    /\ \A s \in raw.reads \cup raw.mixed : s.config = Frozen

ReadAudit ==
    \A d \in Databases :
        Size(ReadsOf(d)) = Full /\ Failures(ReadsOf(d)) = 0 /\ ReadReconciles(d)

MixedAudit == \A d \in Databases, l \in Level : MixedReconciles(d, l)

\* As many rows as there are databases: that they are one for each is not looked at.
IngestAudit == Cardinality(files.ingest) = Cardinality(Databases)

\* The median of no samples, the row of a level that has none, and the
\* quotient of the two nulls of a level that was not completed: exceptions,
\* before anything is written, and no audit is on record.
AuditRaises ==
    \/ \E d \in Databases : ReadsOf(d) = {}
    \/ \E d \in Databases, l \in Level : RowsOf(d, l) = {}
    \/ \E r \in files.mixed : ~r.complete

-----------------------------------------------------------------------------
(* The audit and the report.                                               *)

\* The evidence is written first.  Ingest arithmetic, resources and the scan
\* of the artifacts are up to others.
Audit ==
    /\ pc = "off" /\ ~AuditRaises
    /\ \E others \in BOOLEAN :
          IF others /\ Identity /\ ReadAudit /\ MixedAudit /\ IngestAudit
          THEN evidence' = "passed" /\ pc' = "freeze"
          ELSE evidence' = "critical" /\ UNCHANGED pc
    /\ UNCHANGED <<campaign, files, manifest, audited, charts>>

Freeze ==
    /\ pc = "freeze"
    /\ manifest' = [manifest EXCEPT !.frozen = TRUE]
    /\ audited' = {[raw |-> raw, files |-> files]}
    /\ pc' = "off"
    /\ UNCHANGED <<campaign, files, evidence, charts>>

\* generate_charts needs the freeze, and a row for everything it draws.
Report ==
    /\ pc = "off" /\ manifest.frozen
    /\ \A d \in Databases :
          /\ \E r \in files.ingest : r.db = d
          /\ LastRead(d) # {}
          /\ \A l \in Level : RowsOf(d, l) # {}
    /\ charts' = {[drawn |-> files, audited |-> a.files] : a \in audited}
    /\ UNCHANGED <<pc, campaign, files, manifest, evidence, audited>>

Checkout ==
    /\ pc = "off" /\ config' \in Configurations \ {config}
    /\ UNCHANGED <<pc, run, todo, current, level, memory, raw, files, manifest,
                   evidence, audited, charts>>

-----------------------------------------------------------------------------
(* The campaigns that write the directory.                                 *)

Begin(where, dbs) ==
    /\ pc = "off" /\ run < MaxRuns
    /\ run' = run + 1 /\ pc' = where /\ todo' = dbs /\ memory' = files
    /\ UNCHANGED <<config, current, level, raw, files, evidence, audited, charts>>

\* Mutant: the manifest found is updated, as the mixed campaign does.
ReadBeginUpdating(dbs) ==
    /\ Begin("reads", dbs)
    /\ manifest' = [manifest EXCEPT !.config = config]

\* A read campaign replaces the manifest before it measures anything.
ReadBegin(dbs) ==
    /\ Begin("reads", dbs)
    /\ manifest' = [frozen |-> FALSE, config |-> config, mixed |-> FALSE]

\* A database is loaded and measured, to the end (with its row) or not.
ReadDatabase ==
    /\ pc = "reads" /\ todo # {}
    /\ \E d \in todo, s \in Reads, loads, measures \in BOOLEAN :
          /\ s.db = d /\ s.run = run /\ s.config = config
          /\ measures => loads
          /\ todo' = todo \ {d}
          /\ raw' = IF measures THEN [raw EXCEPT !.reads = @ \cup {s}] ELSE raw
          /\ memory' =
                [memory EXCEPT
                   !.ingest = @ \cup (IF loads THEN {[db |-> d, run |-> run]} ELSE {}),
                   !.reads = @ \cup (IF measures /\ s.size = Full
                                     THEN {[db |-> d, run |-> run, attempts |-> Full,
                                            failures |-> Failures({s})]}
                                     ELSE {})]
    /\ UNCHANGED <<pc, run, config, current, level, files, manifest, evidence, audited, charts>>

ReadWriteIngest ==
    /\ pc = "reads" /\ todo = {}
    /\ files' = [files EXCEPT !.ingest = memory.ingest]
    /\ pc' = "readRows"
    /\ UNCHANGED <<campaign, manifest, evidence, audited, charts>>

ReadWriteSummaries ==
    /\ pc = "readRows"
    /\ files' = [files EXCEPT !.reads = memory.reads]
    /\ pc' = "off"
    /\ UNCHANGED <<campaign, manifest, evidence, audited, charts>>

\* The mixed campaign compares its fingerprint with the manifest's.  It leaves
\* the manifest's freeze alone and takes no notice of it.
MixedBegin(dbs) ==
    /\ config = manifest.config
    /\ Begin("mixed", dbs)
    /\ UNCHANGED manifest

MixedDatabase ==
    /\ pc = "mixed" /\ todo # {}
    /\ \E d \in todo :
          /\ current' = d /\ todo' = todo \ {d}
          /\ memory' = [memory EXCEPT !.mixed = {r \in @ : r.db # d}]
    /\ level' = 1 /\ pc' = "level"
    /\ UNCHANGED <<run, config, raw, files, manifest, evidence, audited, charts>>

\* The records of a level, on disk as a whole: that a kill may take what the
\* writer still buffers is left out.  The row is written when the level is over.
MixedMeasure ==
    /\ pc = "level"
    /\ \E s \in Mixed :
          /\ s.db = current /\ s.level = level /\ s.run = run /\ s.config = config
          /\ raw' = [raw EXCEPT !.mixed = @ \cup {s}]
    /\ pc' = "row"
    /\ UNCHANGED <<run, config, todo, current, level, memory, files, manifest, evidence, audited, charts>>

MixedRowOf(s) ==
    [db |-> s.db, level |-> s.level, run |-> s.run,
     complete |-> TRUE, attempts |-> 1, failures |-> Failures({s})]

\* Mutant: a level too many.
MixedFlushOneMore ==
    /\ pc = "row"
    /\ \E s \in MixedOf(current, level) :
          /\ s.run = run
          /\ memory' = [memory EXCEPT !.mixed = @ \cup {MixedRowOf(s)}]
    /\ files' = [files EXCEPT !.mixed = memory'.mixed]
    /\ IF level <= NumLevels THEN pc' = "level" /\ level' = level + 1
                             ELSE pc' = "mixed" /\ UNCHANGED level
    /\ UNCHANGED <<run, config, todo, current, raw, manifest, evidence, audited, charts>>

MixedFlush ==
    /\ pc = "row"
    /\ \E s \in MixedOf(current, level) :
          /\ s.run = run
          /\ memory' = [memory EXCEPT !.mixed = @ \cup {MixedRowOf(s)}]
    /\ files' = [files EXCEPT !.mixed = memory'.mixed]
    /\ IF level < NumLevels THEN pc' = "level" /\ level' = level + 1
                            ELSE pc' = "mixed" /\ UNCHANGED level
    /\ UNCHANGED <<run, config, todo, current, raw, manifest, evidence, audited, charts>>

\* The levels without a row get one without statistics, in memory: a level of
\* another database may write it.
MixedFails ==
    /\ pc \in {"level", "row"}
    /\ memory' =
          [memory EXCEPT !.mixed = @ \cup
             {[db |-> current, level |-> l, run |-> run, complete |-> FALSE,
               attempts |-> 0, failures |-> 0] :
              l \in {l \in Level : \A r \in memory.mixed : r.db = current => r.level # l}}]
    /\ pc' = "mixed"
    /\ UNCHANGED <<run, config, todo, current, level, raw, files, manifest, evidence, audited, charts>>

MixedEnd ==
    /\ pc = "mixed" /\ todo = {}
    /\ manifest' = [manifest EXCEPT !.mixed = TRUE]
    /\ pc' = "off"
    /\ UNCHANGED <<campaign, files, evidence, audited, charts>>

Kill ==
    /\ pc # "off"
    /\ pc' = "off"
    /\ UNCHANGED <<campaign, files, manifest, evidence, audited, charts>>

Next ==
    \/ Audit \/ Freeze \/ Report \/ Checkout
    \/ \E dbs \in SUBSET Databases \ {{}} : ReadBegin(dbs) \/ MixedBegin(dbs)
    \/ ReadDatabase \/ ReadWriteIngest \/ ReadWriteSummaries
    \/ MixedDatabase \/ MixedMeasure \/ MixedFlush \/ MixedFails \/ MixedEnd
    \/ Kill

Spec == Init /\ [][Next]_vars

-----------------------------------------------------------------------------
(* Properties                                                              *)

TypeOK ==
    /\ pc \in {"off", "reads", "readRows", "mixed", "level", "row", "freeze"}
    /\ run \in 0..MaxRuns /\ config \in Configurations
    /\ todo \subseteq Databases /\ current \in Databases /\ level \in 0..NumLevels
    /\ raw \in Records /\ memory \in Documents /\ files \in Documents
    /\ manifest \in [frozen : BOOLEAN, config : Configurations, mixed : BOOLEAN]
    /\ evidence \in {"none", "passed", "critical"}
    /\ audited \subseteq [raw : Records, files : Documents] /\ Cardinality(audited) <= 1
    /\ charts \subseteq [drawn : Documents, audited : Documents] /\ Cardinality(charts) <= 1

OneRun(S) == \A s, t \in S : s.run = t.run

MeasuredOnce(records, documents) ==
    /\ \A s \in records.reads \cup records.mixed : s.config = Frozen
    /\ \A d \in Databases :
          /\ LET reads == {s \in records.reads : s.db = d}
             IN  OneRun(reads) /\ \E s \in reads : s.size = Full /\ ~s.fails
          /\ Cardinality({r \in documents.ingest : r.db = d}) = 1
          /\ \A l \in Level :
                LET mixed == {s \in records.mixed : s.db = d /\ s.level = l}
                IN  /\ mixed # {} /\ OneRun(mixed)
                    /\ \A s \in mixed : MixedRowOf(s) \in documents.mixed

\* What an audit passes was measured once: no database and no level has
\* records of two campaigns, however many were interrupted, killed or given
\* again before, every one has its records and its row under the frozen
\* fingerprint, and every database was loaded once.
AuditedMeansMeasuredOnce == \A a \in audited : MeasuredOnce(a.raw, a.files)

FreezeIsKept ==
    manifest.frozen =>
        /\ audited # {}
        /\ \A a \in audited :
              /\ raw.reads = a.raw.reads
              /\ files.reads = a.files.reads /\ files.ingest = a.files.ingest

ChartsShowAuditedReads ==
    \A c \in charts : c.drawn.reads = c.audited.reads /\ c.drawn.ingest = c.audited.ingest

\* While the manifest says frozen, the read measurements and summaries and the
\* ingest rows are the audited ones, and so are those the charts are drawn from:
\* a read campaign lifts the freeze before it changes any of them.  (A mixed
\* campaign does not, and the mixed charts may be of unaudited rows.)
FrozenReadsAreAudited == FreezeIsKept /\ ChartsShowAuditedReads
=============================================================================
