---------------------------- MODULE MixedCampaign ---------------------------
(***************************************************************************)
(* The mixed campaign over all databases (graphbench/mixed.py,             *)
(* run_final_mixed_campaign), on top of the files earlier invocations left *)
(* in the campaign directory.  A level is one step here: MixedPhase is     *)
(* what happens inside it.  An invocation may be interrupted or killed at  *)
(* any point, and be followed by another for the same or other databases.  *)
(***************************************************************************)
EXTENDS Integers, Sequences, Containers

CONSTANTS
    Databases,      \* DATABASES
    Falkor,         \* the database whose restart loses the contents of its indexes
    NumLevels,      \* how many concurrency levels
    Requests,       \* the --database arguments an invocation may be given
    MaxRuns,        \* bound: invocations of the command
    Kills           \* whether the process may be killed

ASSUME DatabasesAssumption == Local \subseteq Databases /\ Falkor \in Local
ASSUME RequestsAssumption == Requests \subseteq Seq(Databases) /\ NumLevels \in Nat \ {0}
ASSUME BoundsAssumption == MaxRuns \in Nat /\ Kills \in BOOLEAN

VARIABLES
    pc,         \* where the process is; "off": it is not running
    run,        \* how many invocations there have been
    todo,       \* the databases still to do, the current one first
    level,      \* the level of the current database
    raising,    \* an exception is on its way out of the campaign
    repaired,   \* prepare has been called for the current database
    rows,       \* summary_rows
    opRows,     \* operation_rows
    failures,   \* the databases in platform_failures
    buffered,   \* evidence put to the raw writer and not on disk
    raw,        \* evidence in mixed_raw.jsonl
    files,      \* the JSON files of the campaign directory
    torn,       \* the files left in the middle of a line or of a document
    store,      \* store[d]: the graph and indexes of database d
    outcome     \* outcome[d]: how the last attempt at d went (history only)

memory == <<rows, opRows, failures>>
disk   == <<raw, files, torn>>
vars   == <<pc, run, todo, level, raising, repaired, memory, buffered, disk,
            running, store, outcome>>

Level  == 1..NumLevels
current == Head(todo)

\* A measured level: whose, in which invocation, and whether some of its
\* operations failed (those are in the raw file like the others).
Evidence == [db: Databases, level: Level, run: 1..MaxRuns, fails: BOOLEAN]
Row      == [of: Evidence, status: {"complete", "failed"}]

FailedRow(d, l) ==
    [of |-> [db |-> d, level |-> l, run |-> run, fails |-> FALSE], status |-> "failed"]

\* What the levels being measured may give the raw writer.
Measurement == {[db |-> current, level |-> level, run |-> run, fails |-> f] : f \in BOOLEAN}

HasRow(d, l, S) == \E r \in S : r.of.db = d /\ r.of.level = l
Covers(S)       == \A d \in Databases, l \in Level : HasRow(d, l, S)

FileName == {"manifest", "summary", "operations", "errors"}

Init ==
    /\ pc = "off" /\ run = 0 /\ todo = <<>> /\ level = 0
    /\ raising = FALSE /\ repaired = FALSE
    /\ rows = {} /\ opRows = {} /\ failures = {} /\ buffered = {} /\ raw = {}
    /\ files = [summary |-> {}, operations |-> {}, errors |-> {},
                manifest |-> [status |-> "running", failures |-> {}]]
    /\ torn = {}
    /\ running \in SUBSET Local
    /\ store \in [Databases -> {"good", "stale"}]
    /\ \A d \in Databases : store[d] = "stale" => d = Falkor
    /\ outcome = [d \in Databases |-> "none"]

-----------------------------------------------------------------------------
(* From the command line to the first database.                            *)

\* Load what is there; a torn document does not parse and the command fails.
Invoke(dbs) ==
    /\ pc \in {"off", "returned"}
    /\ run < MaxRuns
    /\ run' = run + 1
    /\ IF torn \cap FileName = {}
       THEN /\ pc' = "stop" /\ todo' = dbs
            /\ rows' = files.summary /\ opRows' = files.operations
       ELSE pc' = "off" /\ todo' = <<>> /\ UNCHANGED <<rows, opRows>>
    /\ failures' = {} /\ raising' = FALSE /\ level' = 0 /\ repaired' = FALSE
    /\ UNCHANGED <<buffered, disk, running, store, outcome>>

\* _stop_local_databases, before the outer try: the raw writer is left to die
\* with the process.
StopFirst ==
    /\ pc = "stop"
    /\ \/ StopLocal /\ pc' = "next"
       \/ StopLocalFails /\ pc' = "off"
    /\ UNCHANGED <<run, todo, level, raising, repaired, memory, buffered, disk, store, outcome>>

-----------------------------------------------------------------------------
(* One database.                                                           *)

\* Mutant: the operation rows of an earlier invocation are kept.
NextKeepsOperations ==
    /\ pc = "next"
    /\ IF todo = <<>>
       THEN pc' = "cleanup" /\ UNCHANGED rows
       ELSE /\ pc' = IF current \in Local THEN "up" ELSE "preflight"
            /\ rows' = {r \in rows : r.of.db # current}
    /\ level' = 1 /\ repaired' = FALSE
    /\ UNCHANGED <<run, todo, raising, opRows, failures, buffered, disk, running, store, outcome>>

NextDatabase ==
    /\ pc = "next"
    /\ IF todo = <<>>
       THEN pc' = "cleanup" /\ UNCHANGED <<rows, opRows>>
       ELSE /\ pc' = IF current \in Local THEN "up" ELSE "preflight"
            /\ rows' = {r \in rows : r.of.db # current}
            /\ opRows' = {e \in opRows : e.db # current}
    /\ level' = 1 /\ repaired' = FALSE
    /\ UNCHANGED <<run, todo, raising, failures, buffered, disk, running, store, outcome>>

\* A container that starts restores its data; FalkorDB's indexes come back
\* without their contents.
ComposeUp ==
    /\ pc = "up"
    /\ Up(current)
    /\ store' = IF current = Falkor /\ current \notin running /\ store[Falkor] = "good"
                THEN [store EXCEPT ![Falkor] = "stale"] ELSE store
    /\ pc' = "wait"
    /\ UNCHANGED <<run, todo, level, raising, repaired, memory, buffered, disk, outcome>>

ContainerReady ==
    /\ pc = "wait"
    /\ current \in running
    /\ pc' = "preflight"
    /\ UNCHANGED <<run, todo, level, raising, repaired, memory, buffered, disk, running, store, outcome>>

\* preflight compares every workload with the oracle; adapter.connect follows.
PreflightPasses ==
    /\ pc = "preflight"
    /\ store[current] = "good"
    /\ pc' = "measure"
    /\ UNCHANGED <<run, todo, level, raising, repaired, memory, buffered, disk, running, store, outcome>>

\* Mutant: the second preflight is tried like the first.
PreflightRepairsAgain ==
    /\ pc = "preflight"
    /\ current = Falkor /\ store[Falkor] = "stale"
    /\ repaired' = TRUE
    /\ pc' = "prepare"
    /\ UNCHANGED <<run, todo, level, raising, memory, buffered, disk, running, store, outcome>>

\* A mismatch of FalkorDB's filtered_lookup is repaired, once.
PreflightRepairs ==
    /\ pc = "preflight"
    /\ current = Falkor /\ store[Falkor] = "stale" /\ ~ repaired
    /\ repaired' = TRUE
    /\ pc' = "prepare"
    /\ UNCHANGED <<run, todo, level, raising, memory, buffered, disk, running, store, outcome>>

\* prepare deletes the graph, rebuilds the indexes, loads and validates.  Cut
\* short, it may have got anywhere.
PrepareCutShort ==
    IF pc = "prepare"
    THEN \E s \in {store[current], "partial", "good"} : store' = [store EXCEPT ![current] = s]
    ELSE UNCHANGED store

\* The document being written, and how a write that is cut short may leave it.
BeingWritten ==
    CASE pc = "writeSummary"    -> {"summary"}
      [] pc = "writeOperations" -> {"operations"}
      [] pc = "rebuild"         -> {"errors"}
      [] pc = "manifest"        -> {"manifest"}
      [] OTHER                  -> {}

WriteCutShort == \E t \in SUBSET BeingWritten : torn' = torn \cup t

\* An exception in the middle of a level: it may have given its evidence.
MeasureCutShort ==
    \/ UNCHANGED buffered
    \/ pc = "measure" /\ \E e \in Measurement : buffered' = buffered \cup {e}

\* It ends with the indexes filled; what the server's index holds when preflight
\* asks it again is not for the code to say.
PrepareSucceeds ==
    /\ pc = "prepare"
    /\ \E s \in {"good", "stale"} : store' = [store EXCEPT ![current] = s]
    /\ pc' = "preflight"
    /\ UNCHANGED <<run, todo, level, raising, repaired, memory, buffered, disk, running, outcome>>

\* Mutant: a failed level's operations are summarised too.
FailedLevelCounts ==
    /\ pc = "measure"
    /\ \E e \in Measurement, status \in {"complete", "failed"} :
         /\ buffered' = buffered \cup {e}
         /\ rows' = rows \cup {[of |-> e, status |-> status]}
         /\ opRows' = opRows \cup {e}
         /\ failures' = IF status = "failed" THEN failures \cup {current} ELSE failures
    /\ pc' = "writeSummary"
    /\ UNCHANGED <<run, todo, level, raising, repaired, disk, running, store, outcome>>

\* Both phases of a level, verify_counts and the row.  The raw writer gets the
\* evidence whatever the row says.
MeasureLevel ==
    /\ pc = "measure"
    /\ \E e \in Measurement, status \in {"complete", "failed"} :
         /\ buffered' = buffered \cup {e}
         /\ rows' = rows \cup {[of |-> e, status |-> status]}
         /\ opRows' = IF status = "complete" THEN opRows \cup {e} ELSE opRows
         /\ failures' = IF status = "failed" THEN failures \cup {current} ELSE failures
    /\ pc' = "writeSummary"
    /\ UNCHANGED <<run, todo, level, raising, repaired, disk, running, store, outcome>>

WriteSummary ==
    /\ pc = "writeSummary"
    /\ files' = [files EXCEPT !.summary = rows]
    /\ torn' = torn \ {"summary"}
    /\ pc' = "writeOperations"
    /\ UNCHANGED <<run, todo, level, raising, repaired, memory, buffered, raw, running, store, outcome>>

WriteOperations ==
    /\ pc = "writeOperations"
    /\ files' = [files EXCEPT !.operations = opRows]
    /\ torn' = torn \ {"operations"}
    /\ level' = level + 1
    /\ pc' = IF level = NumLevels THEN "validate" ELSE "measure"
    /\ UNCHANGED <<run, todo, raising, repaired, memory, buffered, raw, running, store, outcome>>

\* validate_adapter after the last level
Validate ==
    /\ pc = "validate"
    /\ store[current] = "good"
    /\ pc' = "close"
    /\ outcome' = [outcome EXCEPT ![current] =
                     IF current \in failures THEN "failed" ELSE "good"]
    /\ UNCHANGED <<run, todo, level, raising, repaired, memory, buffered, disk, running, store>>

Working == {"up", "wait", "preflight", "prepare", "measure", "writeSummary",
            "writeOperations", "validate"}

\* Mutant: every level gets a failed row, those that have one too.
FailsEveryLevel ==
    /\ pc \in Working
    /\ pc = "up" => UpFails(current)
    /\ pc # "up" => UNCHANGED running
    /\ rows' = rows \cup {FailedRow(current, l) : l \in Level}
    /\ failures' = failures \cup {current}
    /\ PrepareCutShort /\ MeasureCutShort /\ WriteCutShort
    /\ outcome' = [outcome EXCEPT ![current] = "failed"]
    /\ pc' = "close"
    /\ UNCHANGED <<run, todo, level, raising, repaired, opRows, raw, files>>

\* A call of the try block raises: the levels without a row get a failed one.
DatabaseFails ==
    /\ pc \in Working
    /\ pc = "up" => UpFails(current)
    /\ pc # "up" => UNCHANGED running
    /\ rows' = rows \cup
         {FailedRow(current, l) : l \in {m \in Level : ~ HasRow(current, m, rows)}}
    /\ failures' = failures \cup {current}
    /\ PrepareCutShort /\ MeasureCutShort /\ WriteCutShort
    /\ outcome' = [outcome EXCEPT ![current] = "failed"]
    /\ pc' = "close"
    /\ UNCHANGED <<run, todo, level, raising, repaired, opRows, raw, files>>

\* Ctrl-C is no Exception: only the finally clauses run.
Interrupt ==
    /\ pc \in Working
    /\ raising' = TRUE
    /\ pc' = "close"
    /\ PrepareCutShort /\ MeasureCutShort /\ WriteCutShort
    /\ UNCHANGED <<run, todo, level, repaired, memory, raw, files, running, outcome>>

\* finally: adapter.close() and, for a local database, _compose(d, "down").
CloseDatabase ==
    /\ pc = "close"
    /\ IF current \in Local THEN Down(current) ELSE UNCHANGED running
    /\ todo' = Tail(todo)
    /\ pc' = IF raising THEN "cleanup" ELSE "next"
    /\ UNCHANGED <<run, level, raising, repaired, memory, buffered, disk, store, outcome>>

\* Mutant: a failed close is swallowed.
CloseFailureSwallowed ==
    /\ pc = "close"
    /\ UNCHANGED running
    /\ todo' = Tail(todo)
    /\ pc' = IF raising THEN "cleanup" ELSE "next"
    /\ UNCHANGED <<run, level, raising, repaired, memory, buffered, disk, store, outcome>>

\* Either may raise, and nothing catches it.
CloseFails ==
    /\ pc = "close"
    /\ UNCHANGED running
    /\ raising' = TRUE
    /\ pc' = "cleanup"
    /\ UNCHANGED <<run, todo, level, repaired, memory, buffered, disk, store, outcome>>

-----------------------------------------------------------------------------
(* After the last database.                                                *)

\* The outer finally: whatever happened, and whether this succeeds or not, the
\* writer is closed next.
Cleanup ==
    /\ pc = "cleanup"
    /\ \/ StopLocal /\ UNCHANGED raising
       \/ StopLocalFails /\ raising' = TRUE
    /\ pc' = "drain"
    /\ UNCHANGED <<run, todo, level, repaired, memory, buffered, disk, store, outcome>>

\* Mutant: an error of the writer is not raised.
DrainIgnoringError ==
    /\ pc = "drain"
    /\ \E written \in SUBSET buffered : raw' = raw \cup written
    /\ pc' = IF raising THEN "off" ELSE "rebuild"
    /\ buffered' = {}
    /\ UNCHANGED <<run, todo, level, raising, repaired, memory, files, torn, running, store, outcome>>

\* writer.close() returns with everything written (MixedPhase), or raises.
Drain ==
    /\ pc = "drain"
    /\ \/ raw' = raw \cup buffered /\ pc' = IF raising THEN "off" ELSE "rebuild"
       \/ \E written \in SUBSET buffered : raw' = raw \cup written /\ pc' = "off"
    /\ buffered' = {}
    /\ UNCHANGED <<run, todo, level, raising, repaired, memory, files, torn, running, store, outcome>>

\* The raw writer's handle empties its buffer when it is full.
WriterFlushes ==
    /\ pc # "off" /\ buffered # {}
    /\ raw' = raw \cup buffered
    /\ buffered' = {}
    /\ UNCHANGED <<pc, run, todo, level, raising, repaired, memory, files, torn, running, store, outcome>>

\* Mutant: the index holds what this invocation observed.
RebuildFromMemory ==
    /\ pc = "rebuild"
    /\ files' = [files EXCEPT !.errors = {e \in raw : e.fails /\ e.run = run}]
    /\ pc' = "manifest"
    /\ UNCHANGED <<run, todo, level, raising, repaired, memory, buffered, raw, torn, running, store, outcome>>

\* The failure index is rebuilt from the raw file, if every line parses.
RebuildErrors ==
    /\ pc = "rebuild"
    /\ IF "raw" \in torn
       THEN pc' = "off" /\ UNCHANGED files
       ELSE /\ files' = [files EXCEPT !.errors = {e \in raw : e.fails}]
            /\ pc' = "manifest"
    /\ UNCHANGED <<run, todo, level, raising, repaired, memory, buffered, raw, torn, running, store, outcome>>

Status ==
    IF ~ Covers(rows) THEN "incomplete"
    ELSE IF files.errors # {} THEN "complete_with_measured_failures" ELSE "complete"

WriteManifest ==
    /\ pc = "manifest"
    /\ files' = [files EXCEPT !.manifest = [status |-> Status, failures |-> failures]]
    /\ pc' = "returned"
    /\ UNCHANGED <<run, todo, level, raising, repaired, memory, buffered, raw, torn, running, store, outcome>>

-----------------------------------------------------------------------------
\* The process is killed: memory is gone, of the writer's buffer some part is
\* on disk, a document may be half written, containers go on running.
Kill ==
    /\ Kills
    /\ pc \notin {"off", "returned"}
    /\ \E written \in SUBSET buffered :
         /\ raw' = raw \cup written
         /\ \E t \in SUBSET (BeingWritten \cup IF buffered = {} THEN {} ELSE {"raw"}) :
              torn' = torn \cup t
    /\ pc' = "off" /\ todo' = <<>> /\ buffered' = {}
    /\ PrepareCutShort
    /\ UNCHANGED <<run, level, raising, repaired, memory, files, running, outcome>>

ProcessStep ==
    \/ StopFirst        \/ NextDatabase    \/ ComposeUp       \/ ContainerReady
    \/ PreflightPasses  \/ PreflightRepairs \/ PrepareSucceeds \/ MeasureLevel
    \/ WriteSummary     \/ WriteOperations \/ Validate        \/ DatabaseFails
    \/ CloseDatabase    \/ CloseFails      \/ Cleanup         \/ Drain
    \/ RebuildErrors    \/ WriteManifest

\* No further invocation within the bound.
Over == pc \in {"off", "returned"} /\ run = MaxRuns /\ UNCHANGED vars

Next ==
    \/ \E dbs \in Requests : Invoke(dbs)
    \/ ProcessStep
    \/ Interrupt
    \/ WriterFlushes
    \/ Kill
    \/ Over

Spec == Init /\ [][Next]_vars

\* The process goes on as long as it is there.
FairSpec == Spec /\ WF_vars(ProcessStep)

-----------------------------------------------------------------------------
(* What the campaign promises.                                             *)

TypeOK ==
    /\ pc \in Working \cup {"off", "stop", "next", "close", "cleanup", "drain",
                            "rebuild", "manifest", "returned"}
    /\ run \in 0..MaxRuns /\ todo \in Seq(Databases) /\ level \in 0..(NumLevels + 1)
    /\ raising \in BOOLEAN /\ repaired \in BOOLEAN
    /\ rows \subseteq Row /\ opRows \subseteq Evidence /\ failures \subseteq Databases
    /\ buffered \subseteq Evidence /\ raw \subseteq Evidence
    /\ files \in [summary : SUBSET Row, operations : SUBSET Evidence, errors : SUBSET Evidence,
                  manifest : [status : {"running", "complete", "complete_with_measured_failures",
                                        "incomplete"},
                              failures : SUBSET Databases]]
    /\ torn \subseteq FileName \cup {"raw"} /\ running \subseteq Local
    /\ store \in [Databases -> {"good", "stale", "partial"}]
    /\ outcome \in [Databases -> {"none", "good", "failed"}]

\* Neither a level that fails after its row was appended, nor a rerun on top of
\* persisted rows, nor a kill makes a second row for a level.
OneRowPerLevel ==
    \A S \in {rows, files.summary} : \A r, s \in S :
        r.of.db = s.of.db /\ r.of.level = s.of.level => r = s

\* Every complete row measured by an invocation that returned is backed by the
\* raw file, and its failed operations are in the published failure index.
FreshRowsAreBacked ==
    pc = "returned" =>
        \A r \in rows : r.of.run = run /\ r.status = "complete" =>
            r.of \in raw /\ (r.of.fails => r.of \in files.errors)

\* The level rows and the operation rows of a database measured by this
\* invocation are about the same levels.
SummariesAgree ==
    pc = "returned" => \A d \in Databases :
        (\E r \in rows : r.of.db = d /\ r.of.run = run) =>
            {e \in opRows : e.db = d} =
                {r.of : r \in {x \in rows : x.of.db = d /\ x.status = "complete"}}

\* "a harness interruption cannot silently lose failures observed before its
\* last flush" (mixed.py:651): a failure that has reached the raw file is in the
\* index of every invocation that returns, whichever measured it.
FlushedFailuresAreIndexed ==
    pc = "returned" => \A e \in raw : e.fails => e \in files.errors

\* "Ensure local competitors do not share host resources with the active run."
\* (finalization.py:688): while a database is measured, no container of another
\* one is running, whatever stop failed before and whatever a kill left behind.
CompetitorsStopped ==
    pc = "measure" => running \subseteq {current}

\* "It will not discard failures, throttling, or invalid-state evidence."
\* (docs/FAIRNESS.md:69): a campaign that is published as more than incomplete
\* says, in the manifest or in a row, that its latest attempt at a database failed.
FailuresAreKept ==
    pc = "returned" /\ files.manifest.status # "incomplete" =>
        \A d \in Databases : outcome[d] = "failed" =>
            \/ d \in files.manifest.failures
            \/ \E r \in rows : r.of.db = d /\ r.status = "failed"

\* An invocation comes to an end, also when FalkorDB's index is found empty again
\* after every repair.
InvocationEnds == pc # "off" ~> pc \in {"off", "returned"}
=============================================================================
