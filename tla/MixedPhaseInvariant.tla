------------------------- MODULE MixedPhaseInvariant ------------------------
(***************************************************************************)
(* The inductive invariant behind the theorems about MixedPhase, and the   *)
(* mapping under which MixedPhase implements OperationLedger.              *)
(***************************************************************************)
EXTENDS MixedPhase

\* The worker has claimed a number for which no sample exists (yet, or ever).
Holds(p, w) == tpc[p][w] \in {"enter", "op", "unwind", "raised"}

\* Every number below the counter is sampled or held by a worker.
Accounted ==
    \A p \in Phase : \A n \in 0..(sequence[p] - 1) :
        \/ \E r \in samples[p] : r.seq = n
        \/ \E w \in Worker : Holds(p, w) /\ tseq[p][w] = n

\* Numbers sampled or held are below the counter.
Bounded ==
    \A p \in Phase :
        /\ \A r \in samples[p] : r.phase = p /\ r.seq < sequence[p]
        /\ \A w \in Worker : Holds(p, w) => tseq[p][w] < sequence[p]

\* No number is sampled twice, held twice, or both sampled and held.
Unique ==
    \A p \in Phase :
        /\ \A r, s \in samples[p] : r.seq = s.seq => r = s
        /\ \A v, w \in Worker :
             Holds(p, v) /\ Holds(p, w) /\ tseq[p][v] = tseq[p][w] => v = w
        /\ \A r \in samples[p], w \in Worker : Holds(p, w) => r.seq # tseq[p][w]

\* Phases run in order: those ahead have not begun, those behind are decided.
InOrder ==
    /\ pc = "reset" => phase < 2 * NumLevels
    /\ pc \in {"wait", "summarise"} => phase \in Phase
    /\ pc = "summarise" => phase = 2 * LevelOf(phase)
    /\ \A p \in Phase : p > phase =>
         verdict[p] = "none" /\ \A w \in Worker : tpc[p][w] = "idle"
    /\ pc = "wait" => verdict[phase] = "none"

\* The pool of a phase that returned ok has finished without an exception.
OkIsOver ==
    \A p \in Phase : verdict[p] = "ok" =>
        \A w \in Worker : tpc[p][w] \in {"idle", "done"}

\* A complete row stands for two phases that returned ok.
RowsAreOfOkPhases ==
    \A l \in Level : Complete(l) =>
        /\ verdict[2 * l] = "ok"
        /\ rows[l].samples = samples[2 * l]

\* A level is reported after its measured phase, and only once.
ReportedOnce ==
    \A l \in Level : Complete(l) =>
        2 * l <= phase /\ (2 * l = phase => pc \notin {"wait", "summarise"})

Queued == {queue[i] : i \in DOMAIN queue}

\* Nothing is written or queued that is not a sample, except the sentinel.
OnlySamples ==
    /\ \A r \in raw : r \in samples[r.phase]
    /\ \A r \in Queued : r # Sentinel => r \in samples[r.phase]
    /\ \A p \in Phase, w \in Worker :
         tpc[p][w] = "emit" => Sample(p, w) \in samples[p]

\* While the writer has not failed, a sample is written, queued or about to be.
NothingDropped ==
    wstate # "failed" => \A p \in Phase : \A r \in samples[p] :
        \/ r \in raw \/ r \in Queued
        \/ tpc[p][r.worker] = "emit" /\ r = Sample(p, r.worker)

Closing == {"join", "published", "raised", "exit0", "exit1"}

\* The sentinel comes after everything an ok phase put into the queue.
SentinelIsLast ==
    /\ pc \notin Closing => Sentinel \notin Queued /\ wstate # "exited"
    /\ \A i, j \in DOMAIN queue :
         i < j /\ queue[i] = Sentinel /\ queue[j] # Sentinel => verdict[queue[j].phase] # "ok"
    /\ wstate = "exited" => \A j \in DOMAIN queue :
         queue[j] # Sentinel => verdict[queue[j].phase] # "ok"
    /\ Published => wstate = "exited"

IInv ==
    /\ TypeOK /\ Accounted /\ Bounded /\ Unique /\ InOrder /\ OkIsOver
    /\ RowsAreOfOkPhases /\ ReportedOnce /\ OnlySamples /\ NothingDropped /\ SentinelIsLast

-----------------------------------------------------------------------------
(* The ledger the stage keeps.                                             *)

recordedSeqs == [p \in Phase |-> {r.seq : r \in samples[p]}]
writtenSeqs  == [p \in Phase |-> {r.seq : r \in {x \in raw : x.phase = p}}]
completed    == {p \in Phase : ~ IsWarmup(p) /\ Complete(LevelOf(p))}

Ledger == INSTANCE OperationLedger WITH
    Phases <- Phase, issued <- sequence, recorded <- recordedSeqs,
    evidence <- writtenSeqs, committed <- completed, published <- Published

\* The threaded stage implements the ledger: with every interleaving of the
\* workers, the writer and the main thread, an operation is recorded once,
\* after it was issued, in a phase not yet reported; a level is reported only
\* with all its operations; the stage returns only with whole evidence.
ImplementsLedger == Ledger!Spec
=============================================================================
