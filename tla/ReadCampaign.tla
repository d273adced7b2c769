---------------------------- MODULE ReadCampaign ----------------------------
(***************************************************************************)
(* The sequential ingest and read campaign (graphbench/finalization.py,    *)
(* run_final_campaign), in a fresh directory or resumed on top of what     *)
(* earlier invocations left there.  A raw record is on disk as soon as it  *)
(* is measured; rows, summaries and errors only when an invocation gets to *)
(* its end.  Warm-ups are recorded like samples and read by nothing here,  *)
(* so a workload starts with its first measured sample.                    *)
(***************************************************************************)
EXTENDS Integers, Sequences, Containers

CONSTANTS
    Databases,      \* DATABASES
    Workloads,      \* how many of READ_WORKLOADS; the last is "aggregation"
    Rounds,         \* how many rounds, 3 in the code
    Attempts,       \* measured_iterations, 200 in the frozen profile
    Results,        \* what an operation may give: "ok", "wrong", "failed"
    Requests,       \* the databases an invocation may be given
    MaxRuns,        \* bound: invocations
    Kills           \* whether the process may be killed

ASSUME DatabasesAssumption == Local \subseteq Databases
ASSUME ShapeAssumption ==
    /\ Workloads \in Nat \ {0} /\ Rounds \in Nat \ {0, 1} /\ Attempts \in Nat \ {0}
    /\ Results \subseteq {"ok", "wrong", "failed"}
ASSUME RequestsAssumption ==
    \A dbs \in Requests :
        /\ dbs \in Seq(Databases)
        /\ \A i, j \in 1..Len(dbs) : dbs[i] = dbs[j] => i = j
ASSUME BoundsAssumption == MaxRuns \in Nat /\ Kills \in BOOLEAN

VARIABLES
    pc,         \* where the process is; "off": it is not running
    run,        \* how many invocations there have been
    todo,       \* the databases still to do, the current one first
    at,         \* the workload, round and number of the next sample
    adapter,    \* the current database has an adapter to close
    raising,    \* an exception is on its way out of the campaign
    ingest,     \* ingest_rows
    rounds,     \* round_rows
    summaries,  \* summary_rows
    errors,     \* errors
    failures,   \* platform_failures
    raw,        \* the measured samples in read_raw.jsonl
    files,      \* the JSON files of the campaign directory
    torn        \* the files a writing was cut short in

memory == <<ingest, rounds, summaries, errors, failures>>
disk   == <<raw, files, torn>>
vars   == <<pc, run, todo, at, adapter, raising, memory, disk, running>>

Workload == 1..Workloads
Round    == 1..Rounds
Position == [w: Workload, round: Round, i: 1..Attempts]
current  == Head(todo)
First    == [w |-> 1, round |-> 1, i |-> 1]

\* Records and rows name the invocation that measured them.  The code's carry no
\* more of it than its fingerprint.
Sample    == [db: Databases, at: Position, run: 1..MaxRuns, result: Results]
IngestRow == [db: Databases, run: 1..MaxRuns]
RoundRow  == [db: Databases, w: Workload, round: Round, run: 1..MaxRuns]
Summary   == [db: Databases, w: Workload, run: 1..MaxRuns, fails: BOOLEAN]
Error     == [kind: {"sample", "platform", "stop"}, db: Databases, run: 1..MaxRuns]
FileName  == {"manifest", "ingest", "summaries", "rounds", "errors"}

\* An entry of errors; the samples of one invocation and database are told by
\* their kind only.
ErrorOf(kind, d) == [kind |-> kind, db |-> d, run |-> run]

SamplesOf(d, w, r) == {s \in raw : s.db = d /\ s.at.w = w /\ s.at.round = r}

\* The process is gone, and with it what it held in memory.
Gone ==
    /\ pc' = "off" /\ todo' = <<>> /\ at' = First /\ adapter' = FALSE /\ raising' = FALSE
    /\ ingest' = {} /\ rounds' = {} /\ summaries' = {} /\ errors' = {} /\ failures' = {}

Init ==
    /\ pc = "off" /\ run = 0 /\ todo = <<>> /\ at = First
    /\ adapter = FALSE /\ raising = FALSE
    /\ ingest = {} /\ rounds = {} /\ summaries = {} /\ errors = {} /\ failures = {}
    /\ raw = {} /\ torn = {}
    /\ files = [ingest |-> {}, rounds |-> {}, summaries |-> {}, errors |-> {},
                manifest |-> [status |-> "running", valid |-> FALSE]]
    /\ running \in SUBSET Local

-----------------------------------------------------------------------------
(* From the call to the first database.                                    *)

\* The fingerprint is computed, and not compared with that of a campaign found.
Invoke(dbs) ==
    /\ pc \in {"off", "returned"}
    /\ run < MaxRuns
    /\ pc' = "begin" /\ run' = run + 1 /\ todo' = dbs
    /\ at' = First /\ failures' = {}
    /\ UNCHANGED <<adapter, raising, ingest, rounds, summaries, errors, disk, running>>

\* The manifest says "running" before the other documents are read.  A document that
\* does not parse ends the command: the manifest before it is replaced, the
\* others after.
Begin ==
    /\ pc = "begin"
    /\ IF "manifest" \in torn
       THEN UNCHANGED files
       ELSE files' = [files EXCEPT !.manifest = [status |-> "running", valid |-> FALSE]]
    /\ IF torn \cap FileName = {}
       THEN /\ pc' = "stop"
            /\ ingest' = files.ingest /\ rounds' = files.rounds
            /\ summaries' = files.summaries /\ errors' = files.errors
            /\ UNCHANGED <<todo, at, adapter, raising, failures>>
       ELSE Gone
    /\ UNCHANGED <<run, raw, torn, running>>

\* _stop_local_databases, inside the outer try.
StopFirst ==
    /\ pc = "stop"
    /\ \/ StopLocal /\ pc' = "next" /\ UNCHANGED raising
       \/ StopLocalFails /\ pc' = "cleanup" /\ raising' = TRUE
    /\ UNCHANGED <<run, todo, at, adapter, memory, disk>>

-----------------------------------------------------------------------------
(* One database.                                                           *)

NextDatabase ==
    /\ pc = "next"
    /\ pc' = IF todo = <<>> THEN "cleanup"
             ELSE IF current \in Local THEN "up" ELSE "prepare"
    /\ at' = First /\ adapter' = FALSE
    /\ UNCHANGED <<run, todo, raising, memory, disk, running>>

ComposeUp ==
    /\ pc = "up"
    /\ Up(current)
    /\ pc' = "wait"
    /\ UNCHANGED <<run, todo, at, adapter, raising, memory, disk>>

ContainerReady ==
    /\ pc = "wait"
    /\ current \in running
    /\ pc' = "prepare"
    /\ UNCHANGED <<run, todo, at, adapter, raising, memory, disk, running>>

\* prepare returns: the graph is loaded and validated (Prepare).
PrepareSucceeds ==
    /\ pc = "prepare"
    /\ ingest' = ingest \cup {[db |-> current, run |-> run]}
    /\ pc' = "preflight"
    /\ UNCHANGED <<run, todo, at, adapter, raising, rounds, summaries, errors, failures,
                   disk, running>>

PreflightPasses ==
    /\ pc = "preflight"
    /\ pc' = "measure" /\ adapter' = TRUE
    /\ UNCHANGED <<run, todo, at, raising, memory, disk, running>>

\* Mutant: one iteration too many.
MeasureOneMore ==
    /\ pc = "measure"
    /\ \E result \in Results :
         /\ raw' = raw \cup {[db |-> current, at |-> at, run |-> run, result |-> result]}
         /\ errors' = IF result = "failed" THEN errors \cup {ErrorOf("sample", current)}
                      ELSE errors
    /\ IF at.i <= Attempts
       THEN at' = [at EXCEPT !.i = @ + 1] /\ UNCHANGED pc
       ELSE pc' = "drift" /\ UNCHANGED at
    /\ UNCHANGED <<run, todo, adapter, raising, ingest, rounds, summaries, failures,
                   files, torn, running>>

\* One timed operation: its record is appended to the raw file at once.
MeasureSample ==
    /\ pc = "measure"
    /\ \E result \in Results :
         /\ raw' = raw \cup {[db |-> current, at |-> at, run |-> run, result |-> result]}
         /\ errors' = IF result = "failed" THEN errors \cup {ErrorOf("sample", current)}
                      ELSE errors
    /\ IF at.i < Attempts
       THEN at' = [at EXCEPT !.i = @ + 1] /\ UNCHANGED pc
       ELSE pc' = "drift" /\ UNCHANGED at
    /\ UNCHANGED <<run, todo, adapter, raising, ingest, rounds, summaries, failures,
                   files, torn, running>>

RoundSamples == {s \in SamplesOf(current, at.w, at.round) : s.run = run}

\* A round of hops or lookups is held against the oracle; after a round of
\* aggregations the query is executed once more, and only that answer is.
NoDrift == at.w = Workloads \/ \A s \in RoundSamples : s.result # "wrong"

\* Mutant: a round that drifted is summarised.
EndRoundUnchecked ==
    /\ pc = "drift"
    /\ rounds' = rounds \cup {[db |-> current, w |-> at.w, round |-> at.round, run |-> run]}
    /\ IF at.round < Rounds
       THEN pc' = "measure" /\ at' = [at EXCEPT !.round = @ + 1, !.i = 1]
       ELSE pc' = "summarise" /\ UNCHANGED at
    /\ UNCHANGED <<run, todo, adapter, raising, ingest, summaries, errors, failures,
                   disk, running>>

EndRound ==
    /\ pc = "drift"
    /\ NoDrift
    /\ rounds' = rounds \cup {[db |-> current, w |-> at.w, round |-> at.round, run |-> run]}
    /\ IF at.round < Rounds
       THEN pc' = "measure" /\ at' = [at EXCEPT !.round = @ + 1, !.i = 1]
       ELSE pc' = "summarise" /\ UNCHANGED at
    /\ UNCHANGED <<run, todo, adapter, raising, ingest, summaries, errors, failures,
                   disk, running>>

\* latency_statistics over the samples of this invocation's rounds.
Summarise ==
    /\ pc = "summarise"
    /\ LET failed == \E s \in raw : /\ s.db = current /\ s.at.w = at.w
                                    /\ s.run = run /\ s.result = "failed"
       IN  summaries' = summaries \cup
             {[db |-> current, w |-> at.w, run |-> run, fails |-> failed]}
    /\ IF at.w < Workloads
       THEN pc' = "measure" /\ at' = [w |-> at.w + 1, round |-> 1, i |-> 1]
       ELSE pc' = "close" /\ UNCHANGED at
    /\ UNCHANGED <<run, todo, adapter, raising, ingest, rounds, errors, failures,
                   disk, running>>

Measuring == {"measure", "drift", "summarise"}
Working   == {"up", "wait", "prepare", "preflight"} \cup Measuring

\* Any call of the try block raises, the drift check too.  create_adapter comes
\* before connect, so a failed connect has an adapter to close.
DatabaseFails ==
    /\ pc \in Working
    /\ IF pc = "up" THEN UpFails(current) ELSE UNCHANGED running
    /\ failures' = failures \cup {current}
    /\ errors' = errors \cup {ErrorOf("platform", current)}
    /\ adapter' \in IF pc = "preflight" THEN BOOLEAN ELSE {adapter}
    /\ pc' = "close"
    /\ UNCHANGED <<run, todo, at, raising, ingest, rounds, summaries, disk>>

\* Ctrl-C is no Exception: only the finally clauses run.
Interrupt ==
    /\ pc \in Working
    /\ raising' = TRUE
    /\ pc' = "close"
    /\ UNCHANGED <<run, todo, at, adapter, memory, disk, running>>

\* Mutant: a container that does not stop leaves no trace.
CloseSilently ==
    /\ pc = "close"
    /\ IF current \in Local THEN Down(current) \/ DownFails(current) ELSE UNCHANGED running
    /\ todo' = Tail(todo)
    /\ pc' = IF raising THEN "cleanup" ELSE "next"
    /\ UNCHANGED <<run, at, adapter, raising, memory, disk>>

\* adapter.close() returned; a container that does not stop is noted, and the
\* campaign goes on.
CloseDatabase ==
    /\ pc = "close"
    /\ \/ /\ IF current \in Local THEN Down(current) ELSE UNCHANGED running
          /\ UNCHANGED errors
       \/ /\ current \in Local /\ DownFails(current)
          /\ errors' = errors \cup {ErrorOf("stop", current)}
    /\ todo' = Tail(todo)
    /\ pc' = IF raising THEN "cleanup" ELSE "next"
    /\ UNCHANGED <<run, at, adapter, raising, ingest, rounds, summaries, failures, disk>>

\* adapter.close() raises, and nothing catches it.
CloseFails ==
    /\ pc = "close" /\ adapter
    /\ raising' = TRUE
    /\ pc' = "cleanup"
    /\ UNCHANGED <<run, todo, at, adapter, memory, disk, running>>

-----------------------------------------------------------------------------
(* After the last database.                                                *)

\* The outer finally: a container that does not stop is noted.
Cleanup ==
    /\ pc = "cleanup"
    /\ IF raising
       THEN (StopLocal \/ StopLocalFails) /\ Gone
       ELSE /\ \/ StopLocal /\ UNCHANGED errors
               \/ StopLocalFails /\ \E d \in running' : errors' = errors \cup {ErrorOf("stop", d)}
            /\ pc' = "writeIngest"
            /\ UNCHANGED <<todo, at, adapter, raising, ingest, rounds, summaries, failures>>
    /\ UNCHANGED <<run, disk>>

\* One document of the campaign directory is replaced.
Write(name, rows) ==
    /\ files' = [files EXCEPT ![name] = rows]
    /\ torn' = torn \ {name}
    /\ UNCHANGED <<run, todo, at, adapter, raising, memory, raw, running>>

WriteIngest    == pc = "writeIngest" /\ Write("ingest", ingest) /\ pc' = "writeSummaries"
WriteSummaries == pc = "writeSummaries" /\ Write("summaries", summaries) /\ pc' = "writeRounds"
WriteRounds    == pc = "writeRounds" /\ Write("rounds", rounds) /\ pc' = "writeErrors"

\* Mutant: the file holds what this invocation met.
WriteFreshErrors ==
    /\ pc = "writeErrors"
    /\ Write("errors", {e \in errors : e.run = run})
    /\ pc' = "fairness"

WriteErrors == pc = "writeErrors" /\ Write("errors", errors) /\ pc' = "fairness"

\* write_fairness_manifest raises for a missing artifact; that counts as a
\* failure of no platform in particular.
Fairness ==
    /\ pc = "fairness"
    /\ \/ UNCHANGED failures
       \/ failures' = failures \cup {"fairness"}
    /\ pc' = "manifest"
    /\ UNCHANGED <<run, todo, at, adapter, raising, ingest, rounds, summaries, errors,
                   disk, running>>

\* Mutant: more attempts than expected are accepted.
ValidAtLeast ==
    /\ raw # {} /\ summaries # {}
    /\ \A d \in Databases, w \in Workload, r \in Round :
          Cardinality(SamplesOf(d, w, r)) >= Attempts

\* validate_final_campaign: every round of every database and workload has the
\* expected number of attempts.  (The rest of it is arithmetic on each row.)
Valid ==
    /\ raw # {} /\ summaries # {}
    /\ \A d \in Databases, w \in Workload, r \in Round :
          Cardinality(SamplesOf(d, w, r)) = Attempts

\* Mutant: the validation of the raw file does not decide.
StatusByFailures == IF failures = {} THEN "complete" ELSE "incomplete"

Status ==
    IF failures = {} /\ \E s \in summaries : s.fails THEN "complete_with_measured_failures"
    ELSE IF failures = {} /\ Valid THEN "complete" ELSE "incomplete"

\* A record cut short, with what was appended behind it, does not parse.
RawBreaks == "raw" \in torn /\ summaries # {}

ValidateFails ==
    /\ pc = "manifest" /\ RawBreaks
    /\ Gone
    /\ UNCHANGED <<run, disk, running>>

WriteManifest ==
    /\ pc = "manifest" /\ ~RawBreaks
    /\ Write("manifest", [status |-> Status, valid |-> Valid])
    /\ pc' = "returned"

-----------------------------------------------------------------------------
BeingWritten ==
    CASE pc = "begin"          -> {"manifest"}
      [] pc = "measure"        -> {"raw"}
      [] pc = "writeIngest"    -> {"ingest"}
      [] pc = "writeSummaries" -> {"summaries"}
      [] pc = "writeRounds"    -> {"rounds"}
      [] pc = "writeErrors"    -> {"errors"}
      [] pc = "manifest"       -> {"manifest"}
      [] OTHER                 -> {}

\* The process is killed: what it holds in memory is gone, what it was writing
\* may be cut short, containers go on running.
Kill ==
    /\ Kills
    /\ pc \notin {"off", "returned"}
    /\ \E t \in SUBSET BeingWritten : torn' = torn \cup t
    /\ Gone
    /\ UNCHANGED <<run, raw, files, running>>

ProcessStep ==
    \/ Begin           \/ StopFirst      \/ NextDatabase  \/ ComposeUp
    \/ ContainerReady  \/ PrepareSucceeds \/ PreflightPasses \/ MeasureSample
    \/ EndRound        \/ Summarise      \/ DatabaseFails \/ CloseDatabase
    \/ CloseFails      \/ Cleanup        \/ WriteIngest   \/ WriteSummaries
    \/ WriteRounds     \/ WriteErrors    \/ Fairness      \/ WriteManifest
    \/ ValidateFails

\* No further invocation within the bound.
Over == pc \in {"off", "returned"} /\ run = MaxRuns /\ UNCHANGED vars

Next ==
    \/ \E dbs \in Requests : Invoke(dbs)
    \/ ProcessStep
    \/ Interrupt
    \/ Kill
    \/ Over

Spec == Init /\ [][Next]_vars

-----------------------------------------------------------------------------
(* What the campaign promises.                                             *)

TypeOK ==
    /\ pc \in Working \cup {"off", "begin", "stop", "next", "close", "cleanup", "writeIngest",
                            "writeSummaries", "writeRounds", "writeErrors", "fairness",
                            "manifest", "returned"}
    /\ run \in 0..MaxRuns /\ todo \in Seq(Databases) /\ at \in Position
    /\ adapter \in BOOLEAN /\ raising \in BOOLEAN
    /\ ingest \subseteq IngestRow /\ rounds \subseteq RoundRow /\ summaries \subseteq Summary
    /\ errors \subseteq Error /\ failures \subseteq Databases \cup {"fairness"}
    /\ raw \subseteq Sample /\ torn \subseteq FileName \cup {"raw"} /\ running \subseteq Local
    /\ files \in [ingest : SUBSET IngestRow, rounds : SUBSET RoundRow,
                  summaries : SUBSET Summary, errors : SUBSET Error,
                  manifest : [status : {"running", "complete",
                                        "complete_with_measured_failures", "incomplete"},
                              valid : BOOLEAN]]

Published == pc = "returned"

\* validate_final_campaign counts attempts and can not tell who made them; yet
\* attempts of two invocations, each cut short anywhere, never add up to a
\* campaign it finds valid.
ValidMeansMeasuredOnce ==
    Published /\ files.manifest.valid =>
        \A s, t \in raw : s.db = t.db => s.run = t.run

\* A summary of a campaign whose status is "complete" stands on the raw records
\* of one invocation, all of them, it is the only one of its database and
\* workload, and so are its round rows: nothing of an abandoned invocation is
\* left in the rows (finalization.py:828 keeps what it finds).
CompleteRowsStandOnRaw ==
    Published /\ files.manifest.status = "complete" =>
        \A s \in files.summaries :
            /\ \A p \in Position : p.w = s.w =>
                  \E x \in raw : x.db = s.db /\ x.at = p /\ x.run = s.run
            /\ \A x \in files.summaries \cup files.rounds :
                  x.db = s.db /\ x.w = s.w => x.run = s.run

\* Whenever a database is measured while the container of another is running,
\* the errors say that this container did not stop.
SharedHostIsRecorded ==
    pc \in Measuring =>
        \A d \in running \ {current} : ErrorOf("stop", d) \in errors

\* "It will not discard failures" (docs/FAIRNESS.md:69): a failed operation
\* behind a published summary, of this or of an earlier invocation, is in the
\* published errors.
SummarisedFailuresAreListed ==
    Published =>
        \A s \in files.summaries : s.fails =>
            [kind |-> "sample", db |-> s.db, run |-> s.run] \in files.errors

\* Every hop and lookup of a complete campaign was right: whatever drifts, and
\* wherever invocations are cut short.
CompleteHopsAreCorrect ==
    Published /\ files.manifest.status = "complete" =>
        \A s \in raw : s.at.w # Workloads => s.result # "wrong"

=============================================================================
