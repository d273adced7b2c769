----------------------------- MODULE MixedPhase -----------------------------
(***************************************************************************)
(* The mixed read/write stage of one database (graphbench/mixed.py).  The  *)
(* main thread walks the concurrency levels; each level is a warm-up phase *)
(* followed by a measured phase, and each phase runs a pool of worker      *)
(* threads against the shared adapter until a deadline.  Workers share an  *)
(* operation counter, an in-flight counter, the list of samples and the    *)
(* queue of a writer thread that persists every sample as a line of        *)
(* mixed_raw.jsonl.  A phase whose watchdog expires is abandoned: its      *)
(* unfinished workers ("stragglers") keep running beside later phases.     *)
(*                                                                         *)
(* Phases are numbered in the order they run: level l is warmed up in      *)
(* phase 2l-1 and measured in phase 2l.                                    *)
(***************************************************************************)
EXTENDS Integers, Sequences, FiniteSets

CONSTANTS
    NumLevels,      \* how many concurrency levels the profile has
    Concurrency,    \* Concurrency[l]: the worker threads of level l
    MaxOps          \* bound: MaxOps[p] operations are claimed in phase p

ASSUME LevelsAssumption == NumLevels \in Nat \ {0}
ASSUME ConcurrencyAssumption == Concurrency \in [1..NumLevels -> Nat \ {0}]
ASSUME MaxOpsAssumption == MaxOps \in [1..(2 * NumLevels) -> Nat]

VARIABLES
    pc,         \* where the main thread is
    phase,      \* the phase started last, 0 before the first
    clock,      \* how far the time limits of that phase have passed
    verdict,    \* what _phase returned for each phase
    tpc,        \* tpc[p][w]: where worker w of phase p is
    tseq,       \* tseq[p][w]: the sequence number that worker claimed last
    sequence,   \* sequence[p]: the phase's shared operation counter
    current,    \* current[p]: _InFlight.current
    maximum,    \* maximum[p]: _InFlight.maximum
    samples,    \* samples[p]: the collected samples
    queue,      \* the items put to the raw writer and not yet taken
    wstate,     \* the raw writer thread
    raw,        \* the records it has written
    rows        \* rows[l]: the summary row of level l

phaseVars  == <<pc, phase, clock, verdict, rows>>
threadVars == <<tpc, tseq, sequence, current, maximum, samples>>
writerVars == <<wstate, raw>>
vars == <<pc, phase, clock, verdict, tpc, tseq, sequence, current, maximum,
          samples, queue, wstate, raw, rows>>

-----------------------------------------------------------------------------
Level  == 1..NumLevels
Phase  == 1..(2 * NumLevels)

LevelOf(p)  == (p + 1) \div 2
IsWarmup(p) == p % 2 = 1

Pool(p) == 0..(Concurrency[LevelOf(p)] - 1)
Worker  == UNION {Pool(p) : p \in Phase}

Record == [phase: Phase, worker: Worker, seq: Nat]

\* SimpleQueue.put(None): an item no record is equal to.
Sentinel == [phase |-> 0, worker |-> 0, seq |-> 0]
Item     == Record \cup {Sentinel}

\* The fields of a summary row the properties speak of; "none": not written yet.
Row == [status: {"none", "complete", "failed"}, samples: SUBSET Record, maxInFlight: Nat]

\* Mutant: one read, then four writes.
WritesFirst(seq) == seq % 5 = 4

\* _operation_plan: four reads, then one write.
IsRead(seq) == seq % 5 < 4

Busy     == {"op", "emit", "leave", "unwind"}   \* inside in_flight
Finished == {"idle", "done", "raised"}
ThreadPC == {"poll", "claim", "enter"} \cup Busy \cup Finished

InFlight(p) == {w \in Worker : tpc[p][w] \in Busy}

\* stop.is_set() or the deadline has passed, as a worker of phase p sees it
Stopped(p) == verdict[p] # "none" \/ clock # "open"

-----------------------------------------------------------------------------
NoRow == [status |-> "none", samples |-> {}, maxInFlight |-> 0]

Init ==
    /\ pc = "reset" /\ phase = 0 /\ clock = "open"
    /\ verdict  = [p \in Phase |-> "none"]
    /\ tpc      = [p \in Phase |-> [w \in Worker |-> "idle"]]
    /\ tseq     = [p \in Phase |-> [w \in Worker |-> 0]]
    /\ sequence = [p \in Phase |-> 0]
    /\ current  = [p \in Phase |-> 0]
    /\ maximum  = [p \in Phase |-> 0]
    /\ samples  = [p \in Phase |-> {}]
    /\ queue = <<>> /\ wstate = "run" /\ raw = {}
    /\ rows = [l \in Level |-> NoRow]

-----------------------------------------------------------------------------
(* Worker threads: the body of _phase.worker.                              *)

Goto(p, w, label) == tpc' = [tpc EXCEPT ![p][w] = label]

\* Mutant: the stopped worker goes round again instead of returning.
PollContinues(p, w) ==
    /\ tpc[p][w] = "poll"
    /\ \/ Stopped(p) /\ Goto(p, w, "poll")
       \/ ~ Stopped(p) /\ sequence[p] < MaxOps[p] /\ Goto(p, w, "claim")
    /\ UNCHANGED <<phaseVars, writerVars, tseq, sequence, current, maximum, samples, queue>>

\* while not stop.is_set(): ... deadline: the worker returns, or goes on.
\* The bound MaxOps keeps a worker waiting here until the deadline.
Poll(p, w) ==
    /\ tpc[p][w] = "poll"
    /\ \/ Stopped(p) /\ Goto(p, w, "done")
       \/ /\ ~ Stopped(p)
          /\ sequence[p] + Cardinality({v \in Worker : tpc[p][v] = "claim"}) < MaxOps[p]
          /\ Goto(p, w, "claim")
    /\ UNCHANGED <<phaseVars, writerVars, tseq, sequence, current, maximum, samples, queue>>

\* Mutant: without the lock an increment can be lost.
ClaimUnlocked(p, w) ==
    /\ tpc[p][w] = "claim"
    /\ tseq' = [tseq EXCEPT ![p][w] = sequence[p]]
    /\ \E lost \in {0, 1} : sequence' = [sequence EXCEPT ![p] = @ + 1 - lost]
    /\ Goto(p, w, "enter")
    /\ UNCHANGED <<phaseVars, writerVars, current, maximum, samples, queue>>

\* with sequence_lock
Claim(p, w) ==
    /\ tpc[p][w] = "claim"
    /\ tseq' = [tseq EXCEPT ![p][w] = sequence[p]]
    /\ sequence' = [sequence EXCEPT ![p] = @ + 1]
    /\ Goto(p, w, "enter")
    /\ UNCHANGED <<phaseVars, writerVars, current, maximum, samples, queue>>

Enter(p, w) ==
    /\ tpc[p][w] = "enter"
    /\ current' = [current EXCEPT ![p] = @ + 1]
    /\ maximum' = [maximum EXCEPT ![p] = IF @ < current[p] + 1 THEN current[p] + 1 ELSE @]
    /\ Goto(p, w, "op")
    /\ UNCHANGED <<phaseVars, writerVars, tseq, sequence, samples, queue>>

\* result_count is called outside timed_operation's try: no sample.
Raise(p, w) ==
    /\ tpc[p][w] = "op"
    /\ Goto(p, w, "unwind")
    /\ UNCHANGED <<phaseVars, writerVars, tseq, sequence, current, maximum, samples, queue>>

Sample(p, w) == [phase |-> p, worker |-> w, seq |-> tseq[p][w]]

\* The operation returns, or fails: timed_operation gives a sample either way,
\* and _Collector.add appends it to the list under its lock ...
Collect(p, w) ==
    /\ tpc[p][w] = "op"
    /\ samples' = [samples EXCEPT ![p] = @ \cup {Sample(p, w)}]
    /\ Goto(p, w, "emit")
    /\ UNCHANGED <<phaseVars, writerVars, tseq, sequence, current, maximum, queue>>

\* ... and the put to the raw writer after it.
Emit(p, w) ==
    /\ tpc[p][w] = "emit"
    /\ queue' = Append(queue, Sample(p, w))
    /\ Goto(p, w, "leave")
    /\ UNCHANGED <<phaseVars, writerVars, tseq, sequence, current, maximum, samples>>

\* Mutant: no finally, an exception skips in_flight.leave().
LeaveOnReturn(p, w) ==
    /\ tpc[p][w] \in {"leave", "unwind"}
    /\ current' = [current EXCEPT ![p] = IF tpc[p][w] = "leave" THEN @ - 1 ELSE @]
    /\ Goto(p, w, IF tpc[p][w] = "leave" THEN "poll" ELSE "raised")
    /\ UNCHANGED <<phaseVars, writerVars, tseq, sequence, maximum, samples, queue>>

\* finally: in_flight.leave(), on the normal way and on the exceptional one.
Leave(p, w) ==
    /\ tpc[p][w] \in {"leave", "unwind"}
    /\ current' = [current EXCEPT ![p] = @ - 1]
    /\ Goto(p, w, IF tpc[p][w] = "leave" THEN "poll" ELSE "raised")
    /\ UNCHANGED <<phaseVars, writerVars, tseq, sequence, maximum, samples, queue>>

WorkerStep(p, w) ==
    \/ Poll(p, w)  \/ Claim(p, w)   \/ Enter(p, w)
    \/ Raise(p, w) \/ Collect(p, w) \/ Emit(p, w)  \/ Leave(p, w)

-----------------------------------------------------------------------------
(* The main thread.                                                        *)

\* reset_write_state succeeded: _phase submits one worker per thread.
StartPhase ==
    /\ pc = "reset"
    /\ phase < 2 * NumLevels
    /\ phase' = phase + 1
    /\ clock' = "open"
    /\ pc' = "wait"
    /\ tpc' = [tpc EXCEPT ![phase + 1] =
                 [w \in Worker |-> IF w \in Pool(phase + 1) THEN "poll" ELSE "idle"]]
    /\ UNCHANGED <<writerVars, verdict, rows, tseq, sequence, current, maximum, samples, queue>>

\* Mutant: wait() without a timeout.
TickToDeadline ==
    /\ pc = "wait"
    /\ clock = "open"
    /\ clock' = "deadline"
    /\ UNCHANGED <<threadVars, writerVars, pc, phase, verdict, queue, rows>>

\* First the deadline of the current phase passes, then its watchdog.
Tick ==
    /\ pc = "wait"
    /\ clock # "watchdog"
    /\ clock' = IF clock = "open" THEN "deadline" ELSE "watchdog"
    /\ UNCHANGED <<threadVars, writerVars, pc, phase, verdict, queue, rows>>

Decide(v) ==
    /\ verdict' = [verdict EXCEPT ![phase] = v]
    /\ pc' = IF IsWarmup(phase) THEN "reset" ELSE "summarise"
    /\ UNCHANGED <<threadVars, writerVars, phase, clock, queue, rows>>

\* Mutant: future.result() is not asked for the worker's exception.
AwaitIgnoringFailures ==
    /\ pc = "wait"
    /\ \A w \in Worker : tpc[phase][w] \in Finished
    /\ Decide("ok")

\* Mutant: wait() returns with the first future.
AwaitFirst ==
    /\ pc = "wait"
    /\ \E w \in Pool(phase) : tpc[phase][w] \in Finished
    /\ Decide(IF \E w \in Worker : tpc[phase][w] = "raised" THEN "workerFailed" ELSE "ok")

\* wait() returns with every future done.
Await ==
    /\ pc = "wait"
    /\ \A w \in Worker : tpc[phase][w] \in Finished
    /\ Decide(IF \E w \in Worker : tpc[phase][w] = "raised" THEN "workerFailed" ELSE "ok")

\* wait() gives up: stop is set and the pool is shut down without waiting.
WatchdogFires ==
    /\ pc = "wait"
    /\ clock = "watchdog"
    /\ \E w \in Worker : tpc[phase][w] \notin Finished
    /\ Decide("timeout")

FailedRow(most) == [status |-> "failed", samples |-> {}, maxInFlight |-> most]

\* Mutant: the level is judged by its counts alone.
SummariseByCounts ==
    /\ pc = "summarise"
    /\ \E countsMatch \in BOOLEAN :
         rows' = [rows EXCEPT ![LevelOf(phase)] =
             IF countsMatch
             THEN [status |-> "complete", samples |-> samples[phase], maxInFlight |-> maximum[phase]]
             ELSE FailedRow(maximum[phase])]
    /\ pc' = IF phase = 2 * NumLevels THEN "close" ELSE "reset"
    /\ UNCHANGED <<threadVars, writerVars, phase, clock, verdict, queue>>

\* The row of the level just measured, after verify_counts.
Summarise ==
    /\ pc = "summarise"
    /\ LET l    == LevelOf(phase)
           most == IF maximum[phase - 1] < maximum[phase] THEN maximum[phase]
                                                          ELSE maximum[phase - 1]
       IN \E countsMatch \in BOOLEAN :
            rows' = [rows EXCEPT ![l] =
                IF countsMatch /\ verdict[phase - 1] = "ok" /\ verdict[phase] = "ok"
                THEN [status |-> "complete", samples |-> samples[phase], maxInFlight |-> most]
                ELSE FailedRow(most)]
    /\ pc' = IF phase = 2 * NumLevels THEN "close" ELSE "reset"
    /\ UNCHANGED <<threadVars, writerVars, phase, clock, verdict, queue>>

\* reset_write_state, observe_resources or verify_counts raised: every level
\* without a row gets a failed one and the database is given up.
AbortDatabase ==
    /\ pc \in {"reset", "summarise"}
    /\ rows' = [l \in Level |-> IF rows[l].status = "none" THEN FailedRow(0) ELSE rows[l]]
    /\ pc' = "close"
    /\ UNCHANGED <<threadVars, writerVars, phase, clock, verdict, queue>>

\* _RawWriter.close
CloseWriter ==
    /\ pc = "close"
    /\ queue' = Append(queue, Sentinel)
    /\ pc' = "join"
    /\ UNCHANGED <<threadVars, writerVars, phase, clock, verdict, rows>>

\* Mutant: close() does not look at the writer's error.
JoinIgnoringError ==
    /\ pc = "join"
    /\ wstate # "run"
    /\ pc' = "published"
    /\ UNCHANGED <<threadVars, writerVars, phase, clock, verdict, queue, rows>>

\* join returned in time; an error of the writer thread surfaces only here.
JoinWriter ==
    /\ pc = "join"
    /\ wstate # "run"
    /\ pc' = IF wstate = "exited" THEN "published" ELSE "raised"
    /\ UNCHANGED <<threadVars, writerVars, phase, clock, verdict, queue, rows>>

\* join(timeout=60) ran out
JoinTimesOut ==
    /\ pc = "join"
    /\ wstate = "run"
    /\ pc' = "raised"
    /\ UNCHANGED <<threadVars, writerVars, phase, clock, verdict, queue, rows>>

\* The interpreter joins the pool threads before the process ends; the exit
\* code tells whether the stage returned or raised.
Exit ==
    /\ pc \in {"published", "raised"}
    /\ \A p \in Phase, w \in Worker : tpc[p][w] \in Finished
    /\ pc' = IF pc = "published" THEN "exit0" ELSE "exit1"
    /\ UNCHANGED <<threadVars, writerVars, phase, clock, verdict, queue, rows>>

MainStep ==
    \/ StartPhase  \/ Await      \/ WatchdogFires \/ Summarise \/ AbortDatabase
    \/ CloseWriter \/ JoinWriter \/ JoinTimesOut  \/ Exit

-----------------------------------------------------------------------------
(* The raw writer thread: _RawWriter._run.                                 *)

WriterTakes ==
    /\ wstate = "run"
    /\ queue # <<>>
    /\ queue' = Tail(queue)
    /\ IF Head(queue) = Sentinel
       THEN wstate' = "exited" /\ UNCHANGED raw
       ELSE raw' = raw \cup {Head(queue)} /\ UNCHANGED wstate
    /\ UNCHANGED <<phaseVars, threadVars>>

\* open, write or the flush on close fails; the thread keeps the error for
\* close() and takes nothing more.
WriterFails ==
    /\ wstate = "run"
    /\ wstate' = "failed"
    /\ UNCHANGED <<phaseVars, threadVars, queue, raw>>

WriterStep == WriterTakes \/ WriterFails

-----------------------------------------------------------------------------
Ended == pc \in {"exit0", "exit1"} /\ UNCHANGED vars

Next ==
    \/ MainStep
    \/ Tick
    \/ WriterStep
    \/ \E p \in Phase, w \in Worker : WorkerStep(p, w)
    \/ Ended

Spec == Init /\ [][Next]_vars

\* Time passes and the main thread is never blocked for ever.  Nothing is
\* assumed of the workers, whose operations may hang in the database.
FairSpec == Spec /\ WF_vars(MainStep) /\ WF_vars(Tick)

-----------------------------------------------------------------------------
(* What the stage promises.                                                *)

\* Every variable stays in its domain (the dataclasses and locals of mixed.py).
TypeOK ==
    /\ pc \in {"reset", "wait", "summarise", "close", "join", "published", "raised",
              "exit0", "exit1"}
    /\ phase \in 0..(2 * NumLevels)
    /\ clock \in {"open", "deadline", "watchdog"}
    /\ verdict  \in [Phase -> {"none", "ok", "timeout", "workerFailed"}]
    /\ tpc      \in [Phase -> [Worker -> ThreadPC]]
    /\ tseq     \in [Phase -> [Worker -> Nat]]
    /\ sequence \in [Phase -> Nat]
    /\ current  \in [Phase -> Int]
    /\ maximum  \in [Phase -> Nat]
    /\ samples  \in [Phase -> SUBSET Record]
    /\ queue    \in Seq(Item)
    /\ wstate   \in {"run", "exited", "failed"}
    /\ raw      \in SUBSET Record
    /\ rows     \in [Level -> Row]

Published   == pc \in {"published", "exit0"}
Complete(l) == rows[l].status = "complete"

\* A level is reported complete only with every claimed operation sampled
\* exactly once: the sequence numbers of its samples are 0, 1, ... up to the
\* counter's final value, with no gap (an operation lost by a worker that
\* failed or is still running) and no repeat (two workers with one number).
AttemptsAreContiguous ==
    \A l \in Level : Complete(l) =>
        /\ {r.seq : r \in rows[l].samples} = 0..(sequence[2 * l] - 1)
        /\ \A r, s \in rows[l].samples : r.seq = s.seq => r = s

\* A complete level holds the advertised mix of four reads to one write, up to
\* the tolerance of one operation the integrity audit allows, whatever order
\* the workers took the numbers in and whenever the deadline fell.
FourReadsToOneWrite ==
    \A l \in Level : Complete(l) =>
        LET S     == rows[l].samples
            reads == Cardinality({r \in S : IsRead(r.seq)})
            n     == Cardinality(S)
        IN  5 * reads - 4 * n \in -5..5

\* When the stage returns normally, the raw evidence and the summary agree: the
\* lines of mixed_raw.jsonl for a complete level are exactly the samples its
\* row was computed from, in spite of the queue, the writer thread and the
\* late records of abandoned workers.
PublishedRowsHaveEvidence ==
    Published =>
        \A l \in Level : Complete(l) =>
            {r \in raw : r.phase = 2 * l} = rows[l].samples

\* The in-flight counter is the number of workers inside the try block, and its
\* high-water mark never passes the pool's size, also when a worker fails.
InFlightIsExact ==
    \A p \in Phase :
        /\ current[p] = Cardinality(InFlight(p))
        /\ current[p] <= maximum[p] \/ current[p] = 0
        /\ maximum[p] <= Concurrency[LevelOf(p)]

LeavesDecidedAlone ==
    \A p \in Phase : verdict[p] = "ok" =>
        /\ samples'[p] = samples[p] /\ sequence'[p] = sequence[p]
        /\ current'[p] = current[p] /\ maximum'[p] = maximum[p]
        /\ verdict'[p] = "ok"

\* A phase reported ok is over: no later step adds a sample to it, claims an
\* operation in it or moves its counters, so the row built from them stays true.
DecidedPhaseIsQuiet == [][LeavesDecidedAlone]_vars

\* The watchdogs and the join timeout let the stage end even when operations
\* hang for ever and the raw writer is stuck.
StageEnds == <>(pc \in {"published", "raised", "exit0", "exit1"})

\* If operations answer, however late, the process itself ends: no abandoned
\* worker keeps the interpreter waiting.
OperationsAnswer == \A p \in Phase, w \in Worker : WF_vars(WorkerStep(p, w))
ProcessEnds == OperationsAnswer => <>(pc \in {"exit0", "exit1"})

=============================================================================
