# A TLA+ model of graphbench

graphbench measures five graph databases (four in local Docker containers and
one managed service) with the same dataset, the same fixtures and the same
workloads. It prepares a canonical graph, runs a read campaign database by
database, runs a *mixed* campaign (many threads reading and writing at five
concurrency levels), and audits what was published. The claims it makes are
about its own bookkeeping: that what a row of a summary says is what happened,
that nothing was dropped, that no competitor was running meanwhile. This
directory states those claims in TLA+, checks them with TLC and proves the main
ones with TLAPS.

## 1. Inventory

All code is under `src/graphbench/`.

| Component | State | Operations | Talks to | Module |
|---|---|---|---|---|
| mixed phase (`mixed.py` `_phase`, `_InFlight`, `_Collector`, `_operation_plan`) | operation counter, in-flight counter, list of samples, stop event, deadline | worker loop, watchdog | adapter (shared by the threads), raw writer | `MixedPhase` |
| raw writer (`mixed.py` `_RawWriter`) | queue, thread, error, `mixed_raw.jsonl` | append, run, close | phase workers, campaign | `MixedPhase` |
| mixed campaign (`mixed.py` `run_final_mixed_campaign`, `_level_summary`, `_validate_summaries`) | summary rows, operation rows, errors (in memory and as JSON), manifest | level loop, failed rows, repair, finalisation, rerun | phases, containers, preflight | `MixedCampaign` |
| post-workload validation (`mixed.py` `validate_final_mixed_campaign`) | results, repairs, `mixed_post_correctness.json` | compare each database with the oracle, repair FalkorDB | containers, prepare | `PostValidation` |
| read campaign (`finalization.py` `run_final_campaign`, `validate_final_campaign`) | ingest, round and summary rows, errors, raw file, manifest | three rounds per workload, drift check, resume | prepare, preflight, containers, oracle | `ReadCampaign` |
| containers (`finalization.py` `_compose`, `_wait_for_container`, `_stop_local_databases`) | docker's | up, down, wait | the three above | `Containers` |
| prepare and preflight (`workflows.py`, `finalization.py` `preflight`) | the graph and the indexes in the database | reset, schema, load, verify, validate | adapters, oracle | `Prepare` |
| timed operation (`runner.py`) | none | one sample per operation | adapters | `MixedPhase` |
| adapters (`adapters/`) | connections, client pools | batches, hops, counts, index inspection | databases | `Prepare`, `Oracle` (in part) |
| oracle (`oracle.py`) | the canonical graph | lookups, `path_count` | prepare, read campaign | `Oracle` |
| statistics (`metrics.py`) | none | `percentile`, `latency_statistics` | campaigns | `Metrics` |
| dataset (`datasets/wiki_vote.py`) | raw, processed, fixture and metadata files | download, write, verify | prepare | `Dataset` |
| audit and report gate (`integrity_audit.py`, `reporting.py`) | audit evidence, the freeze in the manifest | reconcile, freeze, draw | everything published | `IntegrityAudit`, `Metrics` |
| configuration, value types, diagnostics, CLI | none of interest | parsing, formatting, dispatch | | not modelled |

What is hard here, and what must hold:

* **mixed phase**: up to 40 threads share four pieces of state; a watchdog may
  abandon a pool whose threads go on running; a thread may die alone. A level
  may be called complete only if every operation issued is accounted for, once;
  the advertised mix must hold; a decided phase must not move any more.
* **raw writer**: it is a second copy of the samples, filled in another order,
  by a thread that may fail or never end. A campaign that returns must have
  whole evidence.
* **mixed campaign**: reruns on top of persisted rows, a crash between two
  files, failures of one database among others, what the manifest then says.
* **read campaign**: the same, with a resume that appends and a validation that
  can only count; isolation of the measured database from its competitors.
* **prepare**: batches whose answer is lost, a graph half loaded, indexes
  restored without contents, fixtures that only sample the graph.
* **post-workload validation**: a second try inside the handler of the first.
* **dataset**: seven files written in turn, a kill between any two, two seeds.
* **audit**: it judges what several campaigns left in one directory, and its
  verdict stays in a manifest others update.
* **oracle, statistics**: pure algorithms whose edges matter.

`PROJECT.json` lists the hazards one by one, each at its line.

## 2. Plan

1. `MixedPhase`, `OperationLedger`: threads, writer, watchdog; refinement and
   proofs. Done.
2. `Containers`, `MixedCampaign`: invariant and proofs. Done.
3. `ReadCampaign` over `Containers`: rounds, drift, resume, status; proofs. Done.
4. `Prepare`: statements, batches, restarts; proofs. `PostValidation`; proofs. Done.
5. `Oracle` and the hop queries, `Metrics`: against reference definitions;
   proofs. Done.
6. `Dataset` and `IntegrityAudit`, with proofs. Done.

Left, in this order: an abstract report that both campaigns refine;
`IntegrityAudit` composed with the campaigns instead of a step for each
database.

## 3. Modules

### The stage: threads, watchdog, raw writer

`MixedPhase` models the level loop of one database as it runs in one process:

* the **main thread** (`pc`): `StartPhase`, `Await` / `WatchdogFires`,
  `Summarise`, `AbortDatabase`, `CloseWriter`, `JoinWriter` / `JoinTimesOut`,
  `Exit`. Level *l* is phases *2l-1* (warm-up) and *2l* (measured).
* the **workers** (`tpc[p][w]`), one action per piece of `_phase.worker` between
  two points where another thread can see a difference: `Poll` (stop event and
  deadline), `Claim` (under `sequence_lock`), `Enter`, `Collect` (the operation
  returns or fails; the sample goes to the list), `Emit` (the put to the queue),
  `Raise` (an exception that escapes `timed_operation`), `Leave` (the `finally`).
* the **raw writer**: `WriterTakes`, `WriterFails`.
* **time** is three values of `clock`: before the deadline, after it, after the
  watchdog. `Tick` is free to come at any moment of a phase.

A sample is its phase, worker and sequence number. Whether the operation
succeeded is left out, since an unsuccessful one is recorded in the same way;
latencies are left out. A phase that is abandoned keeps its variables: its
workers are *stragglers* that go on taking steps while later phases run, until
they see the stop event.

`OperationLedger` is the abstract specification: operations are issued,
recorded, persisted; a phase is committed when all it issued is recorded, and is
closed from then on; the campaign is published when the evidence of committed
phases is whole. `MixedPhaseInvariant` holds the inductive invariant and the
refinement mapping (`Ledger`): the counter is *issued*, the list *recorded*, the
file *evidence*, a complete row *commits*, a join without error *publishes*.

`MCMixedPhase` gives TLC its instances. `MixedPhaseProofs` holds the proofs: the
invariant, the two counts (operations in flight, reads and writes), the
refinement.

### The campaign: databases, files, invocations

`Containers` is the docker control of `finalization.py`: what `_compose` and
`_stop_local_databases` do when they return and when they raise. `InspectFails`
says whether `docker inspect` may fail for a container that exists; the code
takes that for a container that is not running.

`MixedCampaign` is `run_final_mixed_campaign` as one process that may be started
again. `pc` follows the function: `Invoke` (load the files), `StopFirst`,
`NextDatabase` (forget the old rows), `ComposeUp`, `ContainerReady`,
`PreflightPasses` / `PreflightRepairs` / `PrepareSucceeds`, `MeasureLevel` (one
step: `MixedPhase` is what happens inside), `WriteSummary`, `WriteOperations`,
`Validate`, `CloseDatabase` / `CloseFails`, `Cleanup`, `Drain`, `RebuildErrors`,
`WriteManifest`. Beside the normal course:

* `DatabaseFails`: any call of the `try` block raises, wherever it is. The levels
  without a row get a failed one, in memory: the files are written only inside
  the level loop.
* `Interrupt`: Ctrl-C is no `Exception`; only the `finally` clauses run.
* `Kill`: memory is gone; part of the writer's buffer is on disk, the document
  being written may be torn, a container and a half-loaded graph stay.
* `StopFirst`, `CloseFails`, `Cleanup`, `Drain` may each end in an exception that
  nothing catches. The invocation then publishes nothing (`pc = "off"`);
  `pc = "returned"` is an invocation that wrote its manifest. An exception or a
  Ctrl-C while the last documents are written leaves what a kill there leaves.

The rows, the operation rows and the platform failures in memory are kept apart
from `files`, `raw` and `buffered`. A level's evidence is one record: whose,
which level, which invocation, and whether some operation failed, which is all
the failure index asks. `store[d]` is the graph of a database: good, partial (a
load cut short) or stale (FalkorDB's indexes after a restart). Whether the index
has its contents at the first lookup after a repair is the server's answer, not
the code's: `PrepareSucceeds` leaves the store good or stale, so a repair may be
asked for again. `outcome` is history, for one property. Fingerprints, correctness reports, resources and the
csv copies are left out: they restate rows or are written once.

`MixedCampaignInvariant` holds the inductive invariant, `MixedCampaignProofs` the
proofs, `MCMixedCampaign` the instances.

### The read campaign

`ReadCampaign` is `run_final_campaign`, in a fresh directory or resumed. `pc`
follows the function: `Invoke`, `Begin` (the manifest is overwritten, the other
documents are read), `StopFirst`, `NextDatabase`, `ComposeUp`, `ContainerReady`,
`PrepareSucceeds`, `PreflightPasses`, `MeasureSample` (one timed operation, on
disk at once), `EndRound` (the drift check), `Summarise`, `CloseDatabase`,
`Cleanup`, and one step for each document written at the end, in the order of
the code, to `WriteManifest`. `DatabaseFails`, `Interrupt`, `CloseFails`,
`Kill` are what they are in the mixed campaign, but for `docker stop`: here its
failure is noted and the campaign goes on.

`at` is the position of the next sample (workload, round, number). A record
carries its database, position, result (right, wrong, failed) and the invocation
that measured it; the code's record has no such mark, and `Valid` does not look
at it. `torn` are the files a writing was cut short in: the documents end the
next `Begin`, the raw file ends the validation. Warm-ups are recorded and nothing
reads them: left out. `prepare` and `preflight` are one step each.

### Prepare and preflight

`Prepare` is one database with one of the three families of adapters (cypher:
neo4j, memgraph, cognodb; falkordb; arangodb), which `engine` chooses for a
behaviour. Each statement the adapter sends is a step: `ResetRels` and
`ResetNodes`, `DropIndex`, `CreateIndex`, one batch of `LoadNodes` and
`LoadRels`, then `CheckLoad`, `VerifyCounts`, `Validate`. `Effect` says what a
statement does to the graph, and `MaybeEffect` what may have happened to one
whose answer is not seen: nothing, all, or (arangodb's `insert_many`) a part.
`faults` chooses whether a behaviour has failures at all, so that one run can ask
both what holds under failures and what comes about without them.

The graph is a set of copies: `<<n, 2>>` is a second node with the id of `n`.
`index[p]` may be *stale*, which is what FalkorDB's RDB file restores: a
definition without contents, through which a lookup finds nothing (`Found`),
also the lookups of the relationship load. `Validate` is what comparison with
the fixtures can tell: it may pass a graph that is not the canonical one, and does
not pass one behind empty indexes; so it is the counts and the load that carry
`ReadyMeansCanonical`.

### The checks after the workload

`PostValidation` is `validate_final_mixed_campaign`: `StopFirst`, then for each
database `ComposeUp`, `ContainerReady`, `Connect`, `CheckPasses` or
`CheckRepairs` with `PrepareSucceeds`, `CloseDatabase`; `DatabaseFails` for any
exception on the way, `Interrupt` for a Ctrl-C, `CloseFails` for an adapter that
does not close or a container that does not stop (either leaves the loop from
its `finally`), `Cleanup`, `Write`.

`graph[d]` says whether database *d* holds the canonical graph, `empty` which
indexes came back without their contents. `CheckPasses` asks for no whole graph:
the code records the counts without comparing them and looks at samples, so a
graph that lacks relationships may pass (section 5). An index without contents
does not pass, because every lookup through it finds nothing. `prepared` is
history: how far this invocation's own `prepare` of a database got. Since that
one does compare the counts (`Prepare`), something can be said of what passes
after it; as in the campaign, the index may be found empty again.

### The data set

`Dataset` has one step per file of `prepare`: `Open` truncates it, `Close`
completes it. `WriteFails` and `Kill` come between and leave any part of the file
from its beginning (`Prefixes`): some of its rows, and behind them nothing, a
line that stops before its comma ("ragged"), a line that is no row ("lost"), or a
relationship whose target has lost digits and is another node ("other"). A small
JSON file cut short is `Empty`. A lost connection may pass for the end of the
download ("short"). `Accepts` is `verify`; `Verify` in front and
`VerifyAtTheEnd` are its two uses in `prepare`. `Reseed` and `RemoveRaw` are what
the user may do between two commands.

### The audit

`IntegrityAudit` has the campaign directory as its state (`raw`, `files`,
`manifest`) and the actions that change it: campaigns of both kinds, with a
database or a level as one step, cut short by `Kill` or `MixedFails`; `Audit` (its
parts are operators: `Identity`, `ReadAudit`, `MixedAudit`, `IngestAudit`;
`AuditRaises` are the directories on which it ends in an exception), `Freeze`
(the evidence is written before the manifest), `Report` with its gate. The
resource audit, the ingest arithmetic and the scan of artifacts are one free
verdict (`others`). The records of a level of the mixed campaign come to disk as a
whole: that a kill takes what the writer still buffers (`MixedCampaign` has it) is
abstracted here. A level that is on disk in part has another count and other
percentiles than its row, and the audit refuses it; the abstraction leaves out
that the parts of two invocations might by chance have those of a row. `audited` and `charts` are history: what the audit passed,
what the charts were drawn from. `IntegrityAuditProofs` holds the proofs.

### Path counts and statistics

`Oracle` translates `path_count` and the hop queries of the adapters: a Cypher
pattern with its relationship uniqueness, FalkorDB's `MATCH` clauses with the
stated predicates, ArangoDB's traversal with `uniqueEdges`. `Walks` and
`Repeating` count the same without walking any path. What the code adds up in a
loop is `Total`, the number of pairs of a key and a number up to its count: a sum
that can be reasoned about without induction over the loop.

`Metrics` translates `percentile` and `latency_statistics` over integers (values
are scaled by 100, so that the interpolation is exact) and, from counts instead
of a sorted list, the audit's own `_stats`. The lists the code filters are sets
of positions in the list of samples, the latencies a value at each of them;
`Sorted` puts a value where the number of values that come no later says.

`MCReference` extends both and lets a behaviour either collect samples or load a
graph. `ReferenceProofs` holds the proofs.

Operators marked *Mutant* in any module are plausible bugs: each replaces one
definition to show that a property would notice.

## 4. Runs

| Run | Instance | Shows |
|---|---|---|
| `core` | 1 level, 2 workers, 1 warm-up and 2 measured operations | `AttemptsAreContiguous`, `InFlightIsExact`, `DecidedPhaseIsQuiet` and the inductive invariant |
| `levels` | 2 levels, 1 worker each, up to 6 and 1 measured operations that may hang | `PublishedRowsHaveEvidence`, `FourReadsToOneWrite` and the refinement of `OperationLedger`, with stragglers of the first level beside the second; `StageEnds`, `ProcessEnds` |
| `campaign_levels` | FalkorDB, 2 levels, 2 invocations, kills, `docker inspect` may fail | the inductive invariant (`CampaignInv`), `OneRowPerLevel`, `FreshRowsAreBacked`, `SummariesAgree`, `FlushedFailuresAreIndexed`, `InvocationEnds` |
| `campaign_databases` | 2 local databases, 1 level, 2 invocations for both or one | `CompetitorsStopped` |
| `campaign_failures` | 2 local databases, 2 invocations | `FailuresAreKept` is **violated** (section 5) |
| `read_resume` | 2 local databases, 1 workload, 2 rounds of 2 samples, 2 invocations in either order or for one, kills | `ValidMeansMeasuredOnce`, `CompleteRowsStandOnRaw`, `SharedHostIsRecorded`, types |
| `read_results` | 1 remote database, 2 workloads, 2 rounds of 1 sample, any answers, 2 invocations, no kills | `CompleteHopsAreCorrect`, `SummarisedFailuresAreListed` |
| `prepare` | the three families, 3 nodes, 3 relationships, batches of 2, on any remains | `ReadyMeansCanonical`, `PrepareRepairs`, types |
| `validation` | a remote and two local databases, any containers and graphs to begin with | `CompetitorsStopped`, `PassedAfterRepair`, `WrittenIsComplete`, `InvocationEnds` |
| `dataset` | 2 seeds, tables of 3 and 4 rows, any number of commands | `ReadyMeansWhole`, `MetadataDescribeTheSource`, `PrepareRepairs` |
| `audit` | 1 database, 2 levels, 2 fingerprints, 3 campaigns | `AuditedMeansMeasuredOnce`, `FrozenReadsAreAudited`, types |
| `reference` | lists of up to 5 samples with 3 durations; multigraphs of 3 nodes and up to 4 edges | `AuditAgrees`, `PercentilesSplitTheSamples`, `CountsAreOfWalks`, `QueriesAgree` |

Deadlock is checked everywhere but in `reference`, whose behaviours stop when
the list or the graph is full.

### Bounds

`MaxOps[p]` bounds the operations claimed in phase *p*; a worker at the bound
waits for the deadline, as a worker whose last operation ends right before it
does. Two workers and two operations are the least at which a number can be
claimed twice, an operation lost while another is recorded, and records put out
of order. Two levels are the least at which a straggler meets another level. The
first write is operation number 4, so a phase must get to five operations for the
mix to have two sides: in `levels` the first measured phase has up to six, and the
deadline may fall after any of them. Its warm-ups have none there (a warm-up
straggler is in `core`), and one worker takes them in turn; theorem `Mix` says it
for any number of workers and operations.

Two invocations (`MaxRuns`) are the least in which one finds what another left,
two levels the least in which a database fails with some rows made and some not,
two databases the least with a competitor. In the read campaign two rounds of two
samples are the least in which an invocation can be cut short in the middle of a
round and between two, and another can supply what is missing: that the counts
never add up to a valid campaign is then a matter of where each started, which
the proof shows for any numbers. Wrong and failed answers need two workloads,
because the last is not held against the oracle.

Three rows in batches of two give a full and a partial batch; two mutual
relationships and two with one source give every relation of a relationship to
loaded and missing ends. Tables of three and four rows, of which two edges are
enough for `verify`, can be cut below and above that limit and within the last
row. Three campaigns let the audit see two unfinished ones and a third. Five
samples put p50 on a value and between two, and p95 between two; four
edges on three nodes hold a loop with a duplicate, a cycle of three, and an edge
with its way back in one path.

The theorems of section 6 remove these bounds.

### Fairness

*Mixed phase.* `FairSpec` assumes that time passes and that the main thread, when
it can move, does: it blocks only in `wait(timeout)` and `join(timeout)`, and in
calls to the adapter between phases, which are taken to return or raise. Nothing
is assumed of the workers or of the writer, which may hang in a database or a
disk. `ProcessEnds` has the assumption it needs as its antecedent: if
`OperationsAnswer` (every worker that can move does, which for the operation
itself means that the database answers or the driver gives up), the process ends,
because the interpreter joins the pool threads before it exits.

*Campaigns and validation.* Weak fairness of the process's own steps: each call
returns or raises, which for a level is `StageEnds` and for a container is the
90-second limit of `_wait_for_container`. The calls made of docker and of the
adapters outside a level have no timeout of their own; that they end is assumed.

*Prepare.* Weak fairness of the command that is running. `PrepareRepairs` is
about behaviours without `faults`; a user who gives the command again is not
assumed.

*Data set.* Weak fairness of the command that is running: its calls read and write
files, or a socket with a timeout of 60 seconds. `PrepareRepairs` has the rest as
its antecedent: from some point on there are no kills, full disks, failed
downloads, other seeds or deleted downloads, and the user gives the command again
and again.

`ReadCampaign` and `IntegrityAudit` are checked for safety only.

## 5. Divergences

What modelling the code showed to differ from what a text of the repository
says. One is kept as a run; the others are described, and the modules model what
the code does.

`campaign_failures` (mixed.py:434): docs/FAIRNESS.md:69 says "It will not discard
failures, throttling, or invalid-state evidence." A platform failure is kept in
`platform_failures` and, for the levels without a row, as failed rows; the list
starts empty in every invocation and the failure index is rebuilt from the raw
file, which holds operations only. In the run FalkorDB fails after its level was
measured and written, the invocation ends on a container that does not stop, and
an invocation for neo4j alone then publishes the campaign as complete, FalkorDB's
row included, with no trace of the failure. The same happens if the first
invocation returns: the second replaces its manifest.

The mixed campaign:

* mixed.py:264, stragglers. README.md:76 has each level measured at its
  concurrency. When a watchdog expires, `_phase` leaves its pool running
  (`shutdown(wait=False)`); the level is marked as failed, the campaign goes on,
  and the next level can be measured and reported complete while an operation of
  the abandoned one is still loading the database. `max_observed_in_flight` does
  not show it, each phase having a counter of its own.
* mixed.py:773, repairs. integrity_audit.py:547 asks that "the repair history must
  remain disclosed". If FalkorDB was prepared again and its container then does
  not stop, the exception leaves the loop before `mixed_post_correctness.json` is
  written, and the next invocation finds a good database and no repair.
* mixed.py:687, charts. A mixed campaign updates the manifest it finds and leaves
  `results_frozen` and `integrity_audit` in it, so after it the report still takes
  the campaign for audited; reporting.py:121 says "from one audited, frozen
  campaign". `FrozenReadsAreAudited` is therefore about reads and ingest.

* mixed.py:740 and 755, counts. The checks after the workload call
  `verify_counts` and put the result into the document (mixed.py:759) without
  comparing it, and `validate_adapter` looks at samples, so a database that lacks
  some relationships can have the status "PASS"; mixed.py:722 has "canonical
  checks". `PassedAfterRepair` is therefore about databases this invocation
  loaded again, whose counts `prepare` compares.

The read campaign:

* finalization.py:622, inspect. `_compose(d, "down")` returns when `docker
  inspect` fails, so a container may go on running while another database is
  measured; finalization.py:688 says "Ensure local competitors do not share host
  resources with the active run." `CompetitorsStopped` is stated where inspect
  tells the truth (`InspectFails = FALSE`).
* finalization.py:1031, competitors. A container that does not stop is noted in
  the errors and the next database is measured beside it, against the same
  docstring. `SharedHostIsRecorded` is what does hold.
* finalization.py:1064, finished. The status is decided by failed operations
  before completeness is looked at, so `complete_with_measured_failures` (exit
  code 0) can be said of a campaign that lacks databases or rounds; README.md:75
  says "600 samples per database/workload".
* finalization.py:1059, unsummarised. Completeness counts raw samples and asks
  for no summary of each: an invocation killed after it measured a database and
  one for the other database publish a complete campaign without a summary of
  the first (README.md:75).
* finalization.py:967, aggregation. After a round of aggregations the query is
  executed once more and that answer is compared: the measured ones are not;
  README.md:32 says that all measured reads "passed the independent Python
  oracle". `CompleteHopsAreCorrect` leaves that workload out.
* finalization.py:828, ingest. A resumed campaign keeps the ingest rows it finds
  and appends one for each database it prepares again; integrity_audit.py:431
  expects five.
* finalization.py:783 and 810, fingerprint. A resumed campaign writes its own
  fingerprint over the one it finds without comparing them, as the mixed campaign
  does (mixed.py:382); README.md:287 says that the fingerprint "links the final
  inputs and published artifacts".
* finalization.py:1046-1051, kill between documents. Summaries are written before
  the errors. After a kill between them the next invocation starts from
  summaries whose failures no errors document lists (docs/FAIRNESS.md:69).
  `SummarisedFailuresAreListed` is therefore checked and proved for `Kills =
  FALSE`.

The data set:

* wiki_vote.py:208, seeds. `verify` compares fixtures only with the nodes they
  must be among, and the seed with the metadata, which are written last: a
  preparation with another seed killed between the two leaves fixtures of that
  seed which `verify` accepts. README.md:77 says that fixtures were generated from
  one seed. `ReadyMeansWhole` asks for fixtures of *some* seed.
* wiki_vote.py:122, the last row. A file that was cut within the target of its
  last relationship has the right number of rows, and `verify` accepts it if the
  shorter number is a node and the metadata are those of an earlier preparation
  with the seed configured again; wiki_vote.py:28 has `DatasetError` "Raised for an
  invalid source, derived file, or metadata mismatch". `ReadyMeansWhole` leaves room
  for this one row.
* wiki_vote.py:198, ragged rows. A row cut before its comma raises a `TypeError`
  that the handlers of `verify` do not take, against the same docstring. `prepare`
  repairs on `DatasetError` only, so it fails at such a file every time.
* wiki_vote.py:78, short downloads. `prepare` downloads only what is missing; a raw
  file that stops short raises `EOFError`, no `OSError` (wiki_vote.py:151), every
  time. `PrepareRepairs` exempts both kinds of files, and theorem
  `UnreadableStays` says that no command removes them.

The audit:

* integrity_audit.py:657, verdict. The manifest is only written when the audit
  passes: one that finds critical issues leaves the `passed` of an earlier one in
  the manifest, and the report goes on; reporting.py:43 says "reporting requires a
  completed campaign with a passed integrity audit".
* integrity_audit.py:339 and 311, incomplete campaigns. A level without a row or
  not completed ends the audit in `StopIteration` or `TypeError` before "CRITICAL
  RERUN REQUIRED" (integrity_audit.py:627) can be said.

Not held, though no text says otherwise:

* mixed.py:588 and 589. The level rows and the operation rows are written one
  after the other; an invocation stopped between the two leaves a level the next
  one finds in one file only. `SummariesAgree` is about what an invocation
  measured itself.
* mixed.py:441. A rerun drops a database's old rows in memory. If it fails before
  its first level, `mixed_summary.json` keeps them, while the csv and the
  completeness the manifest quotes are about the failed rows.

## 6. Theorems

### The stage

For every number of levels, every pool size and every `MaxOps`.

| Theorem | States |
|---|---|
| `Invariance` | `Spec => []IInv` |
| `TypeCorrect` | `Spec => []TypeOK` |
| `Contiguous` | `Spec => []AttemptsAreContiguous` |
| `WholeEvidence` | `Spec => []PublishedRowsHaveEvidence` |
| `InFlightCorrect` | `Spec => []InFlightIsExact` |
| `Mix` | `Spec => []FourReadsToOneWrite` |
| `Quiet` | `Spec => DecidedPhaseIsQuiet` |
| `Refinement` | `Spec => ImplementsLedger` |
| `Advances` | `MainLeft` is a natural number that every step of the main thread or its clock lowers, and no other step touches what it counts |

They assume what `MixedPhase` says of its constants (at least one level, at
least one worker each) and nothing else. The argument:

* None of the properties is inductive. A complete row is right because its phase
  returned ok, and that implies all its workers are gone (`OkIsOver`); so
  everything claimed must be in the list. `Accounted` carries this while the
  workers run: a number below the counter is sampled, or held by a worker. With
  `Bounded` and `Unique` it makes the numbers of an ok phase exactly
  *0 .. counter-1*, each once.
* The evidence follows from `NothingDropped` (a sample is written, queued, or in
  the hands of its worker unless the writer failed) and `SentinelIsLast` (behind
  the sentinel there is nothing of an ok phase), with `OnlySamples` for the other
  inclusion.
* The in-flight counter equals a cardinality; each step adds one worker to the
  set, or takes one away.
* The mix is a count over an interval: the numbers of a complete level are
  *0 .. n-1* (`Contiguous`), the writes among them are the *5k+4*, so the reads
  are within one of *4n/5*.
* The refinement maps each step to one ledger action or to none.
* `MainLeft` counts at most six steps for each phase to come, and the ticks and
  steps left in this one.

### The campaign

For any databases, number of levels, `--database` arguments and number of
invocations, with failures, interrupts and kills.

| Theorem | States |
|---|---|
| `Invariance` | `Spec => []CampaignInv` |
| `TypeCorrect` | `Spec => []TypeOK` |
| `NoSecondRow` | `Spec => []OneRowPerLevel` |
| `BackedRows` | `Spec => []FreshRowsAreBacked` |
| `AgreeingRows` | `Spec => []SummariesAgree` |
| `WholeIndex` | `Spec => []FlushedFailuresAreIndexed` |
| `NoCompetitor` | `Spec => []CompetitorsStopped` if `InspectFails = FALSE` |
| `Advances` | `StepsLeft` is a natural number that each step of a running invocation lowers, or ends the invocation |

They assume what `Containers` and `MixedCampaign` say of their constants. The
argument:

* One row per level needs to know, inside the loop, how far the current database
  has got (`RowsSoFar`): a level about to be measured has no row, because the old
  ones were dropped and the levels come in order. The file needs nothing more,
  being a copy of the rows at one moment.
* What this invocation measured is told from what it found by `NoRowAhead`: no
  row, in memory or on disk, is of a later invocation, so a new one starts with
  none of its own.
* The evidence of a fresh complete row is in the buffer or in the file
  (`EvidenceOnItsWay`), and the writer was closed without an error on the way to
  `rebuild`; nothing is added to the file between the index and the manifest.
* Agreement of the two summaries holds for what is fresh or about to be
  (`FreshAgree`). It does not hold for what was found: a kill between the two
  files leaves them apart.
* Isolation: between databases nothing runs, since a container that does not stop
  ends the loop (`Isolated`).
* The end: three steps for each level left, those around the levels, and as many
  again for each database left. A repair sends the loop back from `prepare` to
  `preflight`; it is known as one while it is made (`RepairIsKnown`), so that way
  is taken once. The writer may empty its buffer once after each of these steps.

### The read campaign

For any databases, workloads, rounds (two or more), attempts and invocations.

| Theorem | States |
|---|---|
| `Invariance`, `TypeCorrect` | `Spec => []IInv`, `Spec => []TypeOK` |
| `ValidIsMeasuredOnce` | `Spec => []ValidMeansMeasuredOnce` |
| `RowsStandOnRaw` | `Spec => []CompleteRowsStandOnRaw` |
| `HopsCorrect` | `Spec => []CompleteHopsAreCorrect` |
| `SharedHost` | `Spec => []SharedHostIsRecorded` if `InspectFails = FALSE` |
| `FailuresListed` | `Spec => []SummarisedFailuresAreListed` if `Kills = FALSE` |
| `Advances` | `StepsLeft` is a natural number that each step of a running invocation lowers, or ends the invocation |

`validate_final_campaign` sees numbers of attempts, not who made them. The
argument that they cannot come from two invocations: what an invocation measured
of a database it measured in order and from the start (`MeasuredSoFar`,
`NothingAhead`, `Prefixes`). Suppose a valid campaign has samples of a database
from two. The second round of its first workload is not empty, and whoever
measured a sample there has filled the first round before; the other invocation
has at least the first sample of that round, which is one too many
(`OneRunWhenValid`). This is where two rounds are needed. Rows stand
on whole sets of records (`Backed`), a wrong answer ends its invocation's work on
that database (`WrongIsLast`), and what the manifest says is true of the raw
file it was written beside (`TrueManifest`). `Recorded` and `Listed` carry the
properties of the errors. `StepsLeft` counts samples, drift checks and summaries:
a round is its samples and one check, a workload its rounds and one summary, and
`MeasuredSoFar` says where in them the loop stands. No run asks for it: the model states no fairness
for this campaign.

### Prepare

For files of any length, any batch size, any subset of the families.

| Theorem | States |
|---|---|
| `Invariance`, `TypeCorrect` | `Spec => []IInv`, `Spec => []TypeOK` |
| `NoDuplicates` | `Spec => []NothingTwice` |
| `ReadyIsCanonical` | `Spec => []ReadyMeansCanonical` |
| `PrepareEndsReady` | without faults, a prepare that ends has the verdict `"ready"` |
| `Advances` | `StepsLeft` is a natural number that each step of a running command lowers |

`LoadedSoFar`: a load starts on what the reset deleted, so a batch finds the rows
of the batches before it and none of those to come, and even CREATE makes nothing
twice. With `NothingTwice` the graph is a subset of the canonical one, and a
subset with the right number of elements is all of it (`Counted`): that is why the
counts are enough and the fixtures need not be.

The last two are what `PrepareRepairs` says but for fairness. `OnItsWay` follows an
undisturbed prepare: falkordb finds its indexes, drops them and creates them anew,
so none without contents is left behind the load (`IndexesSoFar`); the rows up to
`next` are in the graph, all of them, because a batch makes each of its rows
once and no MATCH skips one (`RowsSoFar`). So no check has a reason to refuse
(`NothingFound`). A batch takes at least one row, which is why `Size` may not be 0.

### The checks after the workload

For any databases in any order.

| Theorem | States |
|---|---|
| `Invariance`, `TypeCorrect` | `Spec => []IInv`, `Spec => []TypeOK` |
| `RepairedIsCanonical` | `Spec => []PassedAfterRepair` |
| `CompleteDocument` | `Spec => []WrittenIsComplete` |
| `NoCompetitor` | `Spec => []CompetitorsStopped` if `InspectFails = FALSE` |
| `Advances` | `StepsLeft` is a natural number that each step of a running validation lowers, or ends it |

`Isolated` says what runs between databases, `ResultsSoFar` that the loop has a
result for every database it has passed, `RepairsNamed` that a repair is named
when it is done and not when its result is known. `WholeAfterRepair` says that
the second check of a database is made on a graph that is whole again; a repair
that was cut short leads past it, to a result that is no pass. That a pass stays
true needs `EachOnce`: no database comes twice, so nothing is loaded again after
its result is known.

### The data set

For any seeds and sizes of the tables.

| Theorem | States |
|---|---|
| `Invariance`, `TypeCorrect` | `Spec => []IInv`, `Spec => []TypeOK` |
| `TrueMetadata` | `Spec => []MetadataDescribeTheSource` |
| `ReadyIsWhole` | `Spec => []ReadyMeansWhole` |
| `OnlyUnreadableStops` | `Spec => [][Step /\ command = "prepare" /\ pc' = "off" => result' = "ready" \/ Unreadable]_vars` |
| `UnreadableStays` | a command in front of an unreadable file is not accepted and leaves it there |
| `Advances` | `StepsLeft` is a natural number that each step of a running command lowers |

`Progress` says that a preparation finds at every point what it has written before
it, over a complete source. `ReadyMeansWhole` needs `MetadataDescribeTheSource`,
which is about earlier commands: `verify` judges the tables by the metadata, so
metadata that are true and a table that lacks rows cannot agree.

The last three are what `PrepareRepairs` says but for fairness. A preparation that
has read its source ends in `VerifyAtTheEnd` in front of what it wrote
(`Progress`), and that is accepted; before, it can stop by itself only where
`verify` breaks or the source is short. Giving the command again therefore repairs
what kills, full disks and other seeds leave, except those two kinds of files.

### The audit

For any databases, levels, fingerprints, size of a campaign and number of
campaigns.

| Theorem | States |
|---|---|
| `Invariance`, `TypeCorrect` | `Spec => []IInv`, `Spec => []TypeOK` |
| `MeasuredOnceIfAudited` | `Spec => []AuditedMeansMeasuredOnce` |
| `FrozenReads` | `Spec => []FrozenReadsAreAudited` |

They assume that the databases are finitely many, since the audit counts them,
and what else `IntegrityAudit` says of its constants. No record carries the
invocation that made it, so the audit has only numbers to go by:

* Reads. A row that reconciles stands on a whole set of samples (`ReadRowsBacked`)
  and its attempts are all the samples of that database; a second set, of another
  campaign, has at least one more. So each database has the samples of one.
* Loads. Each row of the summary has the load before it (`LoadsBacked`), and there
  are as many loads as databases: a map from a finite set onto one of the same
  size is one to one, so these loads are the only ones, and a load and the samples
  of a database are of one campaign.
* Mixed. A complete row is the row of a sample on record (`MixedRowsBacked`), and
  the attempts of a level leave room for one.
* Between the verdict and the freeze nothing happens (`AboutToFreeze`); a read
  campaign lifts the freeze before it measures (`Unfrozen`), so a frozen directory
  still has the reads and the loads that were audited.

### Path counts and statistics

For every finite multigraph, on any nodes, and every list of samples with
natural durations.

| Theorem | States |
|---|---|
| `OracleIsRight` | `RefSpec => []CountsAreOfWalks` |
| `QueriesAreEquivalent` | `RefSpec => []QueriesAgree` |
| `AuditAgreesAlways` | `RefSpec => []AuditAgrees` |
| `PercentilesSplit` | `RefSpec => []PercentilesSplitTheSamples` |

None of them needs induction over the graph or the list, because what the loops
compute is the size of a set:

* `TotalByKey`: a loop over keys that counts the elements of each key counts the
  elements. With it both `path_count` and the reference definition are numbers of
  sequences of relationships: of paths that use none twice, and of all walks.
* A walk of three that repeats has the first relationship twice running, or the
  last, or the first as the last; each two of these together are the third
  (`Same123`), so the numbers add up by inclusion and exclusion. A repeated
  relationship is a loop, or one of a pair there and back, which is how
  `Repeating` counts them from the numbers of edges between nodes.
* The queries: the rows of each family, as assignments to a pattern, as rows of
  clauses, as a traversal, correspond one to one to the paths of the oracle.
* Places (`PlaceOnce`, `PlaceTaken`): each value has one, and each place a value,
  equal ones in the order they came; so the sorted list exists without sorting.
  `SortedCounts` counts what is below, at and above the k-th value, and
  `RankedIsSorted` concludes that the audit's value of rank k, of which there is
  only one, is the (k+1)-th.
* Percentiles: the position is *100 l + f*, so the percentile is between the
  values at *l* and at the next (`Proportion`), and is the value at *l* when *f* is
  0. Either way enough values are on each side of it. A higher percentile is
  further in the same gap, or in a later one.

### Only model-checked

Liveness (`StageEnds`, `ProcessEnds`, `InvocationEnds`, `PrepareRepairs`):
fairness and ENABLED are out of the prover's reach. What the theorems called
`Advances` take out of it is the bound: a run to the end has no cycle and no
unbounded retry, for every value of the constants. What stays with TLC is
that some step can be taken until the end, and that fairness takes it; for
`ProcessEnds` also the bound, since how often a worker goes round is up to the
clock. Every invariant and action property that a passing run checks is also a
theorem.

## 7. Not modelled

* The servers, the drivers and their connections. The cypher driver's pool holds
  40 connections (cypher.py:45), the largest concurrency level; what it does when a
  straggler holds one more is the driver's matter, and the repository says nothing
  of it.
* Configuration, value types, environment capture, `doctor`, the transport
  baselines and dry runs: they parse, print, or write one document that no
  later step reads.
* The command line: each command is an `Invoke` or a `Start` of a module.
* The drawing of the charts and tables, the audit's scan of artifacts and its
  resource audit, all wording and csv copies.
* Latencies as numbers outside `Metrics`; warm-ups of the read campaign.
* The post-correctness report of the mixed campaign's own databases beyond its
  result, and the row-by-row arithmetic of `validate_final_campaign`, which
  restates how the row was made.
