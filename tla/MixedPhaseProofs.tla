-------------------------- MODULE MixedPhaseProofs --------------------------
(***************************************************************************)
(* Theorems about the mixed stage, for every number of levels, every       *)
(* concurrency and every bound on the operations.                          *)
(***************************************************************************)
EXTENDS MixedPhaseInvariant, FunctionTheorems, FiniteSetTheorems, TLAPS

LEMMA PhaseArithmetic ==
    /\ Phase \subseteq Nat
    /\ \A p \in Phase : LevelOf(p) \in Level
    /\ \A l \in Level : 2 * l \in Phase /\ 2 * l - 1 \in Phase /\ LevelOf(2 * l) = l
    /\ \A p \in Phase : ~ IsWarmup(p) => p = 2 * LevelOf(p) /\ p - 1 \in Phase
BY LevelsAssumption DEF LevelOf, IsWarmup, Level, Phase

LEMMA GotoTyped ==
    ASSUME tpc \in [Phase -> [Worker -> ThreadPC]],
           NEW p \in Phase, NEW w \in Worker, NEW label \in ThreadPC, Goto(p, w, label)
    PROVE  tpc' \in [Phase -> [Worker -> ThreadPC]]
BY DEF Goto

LEMMA SampleTyped ==
    ASSUME tseq \in [Phase -> [Worker -> Nat]], NEW p \in Phase, NEW w \in Worker
    PROVE  Sample(p, w) \in Record /\ Sample(p, w) \in Item
BY DEF Sample, Record, Item

LEMMA TypeInit == Init => TypeOK
BY LevelsAssumption DEF Init, TypeOK, Phase, ThreadPC, Finished, Busy, NoRow, Row

LEMMA TypeNext == TypeOK /\ InOrder /\ [Next]_vars => TypeOK'
<1> SUFFICES ASSUME TypeOK, InOrder, [Next]_vars PROVE TypeOK'
  OBVIOUS
<1> USE DEF phaseVars, threadVars, writerVars, vars
<1>1. ASSUME NEW p \in Phase, NEW w \in Worker, WorkerStep(p, w) PROVE TypeOK'
  <2>0. \A label \in {"poll", "claim", "enter", "op", "emit", "leave", "unwind", "done", "raised"} :
            label \in ThreadPC
    BY DEF ThreadPC, Busy, Finished
  <2>1. CASE Poll(p, w)
    <3>1. tpc' \in [Phase -> [Worker -> ThreadPC]]
      BY <2>0, <2>1, GotoTyped DEF Poll, TypeOK
    <3> QED BY <2>1, <3>1 DEF Poll, TypeOK
  <2>2. CASE Claim(p, w)
    <3>1. tpc' \in [Phase -> [Worker -> ThreadPC]]
      BY <2>0, <2>2, GotoTyped DEF Claim, TypeOK
    <3>2. tseq' \in [Phase -> [Worker -> Nat]]
      BY <2>2 DEF Claim, TypeOK
    <3>3. sequence' \in [Phase -> Nat]
      <4>1. sequence \in [Phase -> Nat] /\ sequence' = [sequence EXCEPT ![p] = sequence[p] + 1]
        BY <2>2 DEF Claim, TypeOK
      <4> QED BY ONLY <4>1
    <3> QED BY <2>2, <3>1, <3>2, <3>3 DEF Claim, TypeOK
  <2>3. CASE Enter(p, w)
    <3>1. tpc' \in [Phase -> [Worker -> ThreadPC]]
      BY <2>0, <2>3, GotoTyped DEF Enter, TypeOK
    <3>2. current' \in [Phase -> Int]
      <4>1. current \in [Phase -> Int] /\ current' = [current EXCEPT ![p] = current[p] + 1]
        BY <2>3 DEF Enter, TypeOK
      <4> QED BY ONLY <4>1
    <3>3. maximum' \in [Phase -> Nat]
      <4>1. /\ maximum \in [Phase -> Nat] /\ current \in [Phase -> Int]
            /\ maximum' = [maximum EXCEPT ![p] =
                             IF maximum[p] < current[p] + 1 THEN current[p] + 1 ELSE maximum[p]]
        BY <2>3 DEF Enter, TypeOK
      <4>2. (IF maximum[p] < current[p] + 1 THEN current[p] + 1 ELSE maximum[p]) \in Nat
        BY <4>1
      <4> QED BY ONLY <4>1, <4>2
    <3> QED BY <2>3, <3>1, <3>2, <3>3 DEF Enter, TypeOK
  <2>4. CASE Raise(p, w)
    <3>1. tpc' \in [Phase -> [Worker -> ThreadPC]]
      BY <2>0, <2>4, GotoTyped DEF Raise, TypeOK
    <3> QED BY <2>4, <3>1 DEF Raise, TypeOK
  <2>5. CASE Collect(p, w)
    <3>1. tpc' \in [Phase -> [Worker -> ThreadPC]]
      BY <2>0, <2>5, GotoTyped DEF Collect, TypeOK
    <3>2. samples' \in [Phase -> SUBSET Record]
      BY <2>5, SampleTyped DEF Collect, TypeOK
    <3> QED BY <2>5, <3>1, <3>2 DEF Collect, TypeOK
  <2>6. CASE Emit(p, w)
    <3>1. tpc' \in [Phase -> [Worker -> ThreadPC]]
      BY <2>0, <2>6, GotoTyped DEF Emit, TypeOK
    <3>2. queue' \in Seq(Item)
      <4>1. queue \in Seq(Item) /\ Sample(p, w) \in Item
        BY SampleTyped DEF TypeOK
      <4>2. queue' = Append(queue, Sample(p, w))
        BY <2>6 DEF Emit
      <4> QED BY ONLY <4>1, <4>2
    <3> QED BY <2>6, <3>1, <3>2 DEF Emit, TypeOK
  <2>7. CASE Leave(p, w)
    <3>1. tpc' \in [Phase -> [Worker -> ThreadPC]]
      BY <2>0, <2>7, GotoTyped DEF Leave, TypeOK
    <3>2. current' \in [Phase -> Int]
      <4>1. current \in [Phase -> Int] /\ current' = [current EXCEPT ![p] = current[p] - 1]
        BY <2>7 DEF Leave, TypeOK
      <4> QED BY ONLY <4>1
    <3> QED BY <2>7, <3>1, <3>2 DEF Leave, TypeOK
  <2> QED BY <1>1, <2>1, <2>2, <2>3, <2>4, <2>5, <2>6, <2>7 DEF WorkerStep
<1>2. CASE MainStep
  <2>1. CASE StartPhase
    <3>1. phase + 1 \in Phase /\ phase' \in 0..(2 * NumLevels)
      BY <2>1, LevelsAssumption DEF StartPhase, TypeOK, Phase
    <3>2. tpc' \in [Phase -> [Worker -> ThreadPC]]
      BY <2>1, <3>1 DEF StartPhase, TypeOK, ThreadPC, Finished
    <3> QED BY <2>1, <3>1, <3>2 DEF StartPhase, TypeOK
  <2>2. CASE Await         BY <2>2 DEF Await, Decide, TypeOK
  <2>3. CASE WatchdogFires BY <2>3 DEF WatchdogFires, Decide, TypeOK
  <2>4. CASE Summarise
    <3>1. rows' \in [Level -> Row]
      <4> DEFINE most == IF maximum[phase - 1] < maximum[phase] THEN maximum[phase]
                                                               ELSE maximum[phase - 1]
      <4>1. phase \in Phase /\ phase - 1 \in Phase /\ LevelOf(phase) \in Level
        BY <2>4, PhaseArithmetic DEF Summarise, InOrder
      <4>2. most \in Nat /\ samples[phase] \in SUBSET Record
        BY <4>1 DEF TypeOK
      <4>3. \/ rows' = [rows EXCEPT ![LevelOf(phase)] =
                         [status |-> "complete", samples |-> samples[phase], maxInFlight |-> most]]
            \/ rows' = [rows EXCEPT ![LevelOf(phase)] = FailedRow(most)]
        BY <2>4 DEF Summarise
      <4>4. /\ [status |-> "complete", samples |-> samples[phase], maxInFlight |-> most] \in Row
            /\ FailedRow(most) \in Row
        BY <4>2 DEF FailedRow, Row
      <4>5. rows \in [Level -> Row]
        BY DEF TypeOK
      <4> HIDE DEF most
      <4> QED BY <4>1, <4>3, <4>4, <4>5
    <3> QED BY <2>4, <3>1 DEF Summarise, TypeOK
  <2>5. CASE AbortDatabase
    <3>1. rows' \in [Level -> Row]
      BY <2>5 DEF AbortDatabase, FailedRow, TypeOK, Row
    <3> QED BY <2>5, <3>1 DEF AbortDatabase, TypeOK
  <2>6. CASE CloseWriter
    <3>1. queue' \in Seq(Item)
      BY <2>6 DEF CloseWriter, TypeOK, Item
    <3> QED BY <2>6, <3>1 DEF CloseWriter, TypeOK
  <2>7. CASE JoinWriter    BY <2>7 DEF JoinWriter, TypeOK
  <2>8. CASE JoinTimesOut  BY <2>8 DEF JoinTimesOut, TypeOK
  <2>9. CASE Exit          BY <2>9 DEF Exit, TypeOK
  <2> QED BY <1>2, <2>1, <2>2, <2>3, <2>4, <2>5, <2>6, <2>7, <2>8, <2>9 DEF MainStep
<1>3. CASE Tick        BY <1>3 DEF Tick, TypeOK
<1>4. CASE WriterTakes
  <2>1. Head(queue) \in Item /\ Tail(queue) \in Seq(Item)
    <3>1. queue \in Seq(Item) /\ queue # << >>
      BY <1>4 DEF WriterTakes, TypeOK
    <3> QED BY ONLY <3>1
  <2>2. queue' \in Seq(Item) /\ raw' \in SUBSET Record /\ wstate' \in {"run", "exited", "failed"}
    BY <1>4, <2>1 DEF WriterTakes, TypeOK, Item
  <2> QED BY <1>4, <2>2 DEF WriterTakes, TypeOK
<1>5. CASE WriterFails BY <1>5 DEF WriterFails, TypeOK
<1>6. CASE Ended \/ UNCHANGED vars BY <1>6 DEF Ended, TypeOK
<1> QED BY <1>1, <1>2, <1>3, <1>4, <1>5, <1>6 DEF Next, WriterStep

-----------------------------------------------------------------------------
(* What a step leaves alone.                                               *)

LEMMA GotoEffect ==
    ASSUME TypeOK, NEW p \in Phase, NEW w \in Worker, NEW label \in ThreadPC, Goto(p, w, label)
    PROVE  /\ tpc'[p][w] = label
           /\ \A q \in Phase, v \in Worker : q # p \/ v # w => tpc'[q][v] = tpc[q][v]
<1>1. tpc \in [Phase -> [Worker -> ThreadPC]] /\ tpc' = [tpc EXCEPT ![p][w] = label]
  BY DEF TypeOK, Goto
<1> QED BY ONLY <1>1

\* A worker step moves one unfinished worker and no part of the main thread.
LEMMA WorkerFrame ==
    ASSUME TypeOK, NEW p \in Phase, NEW w \in Worker, WorkerStep(p, w)
    PROVE  /\ UNCHANGED <<phaseVars, writerVars>>
           /\ tpc[p][w] \notin Finished
           /\ \A q \in Phase, v \in Worker : q # p \/ v # w => tpc'[q][v] = tpc[q][v]
<1> USE DEF Finished
<1>0. \A label \in {"poll", "claim", "enter", "op", "emit", "leave", "unwind", "done", "raised"} :
          label \in ThreadPC
  BY DEF ThreadPC, Busy
<1>1. CASE Poll(p, w)    BY <1>0, <1>1, GotoEffect DEF Poll
<1>2. CASE Claim(p, w)   BY <1>0, <1>2, GotoEffect DEF Claim
<1>3. CASE Enter(p, w)   BY <1>0, <1>3, GotoEffect DEF Enter
<1>4. CASE Raise(p, w)   BY <1>0, <1>4, GotoEffect DEF Raise
<1>5. CASE Collect(p, w) BY <1>0, <1>5, GotoEffect DEF Collect
<1>6. CASE Emit(p, w)    BY <1>0, <1>6, GotoEffect DEF Emit
<1>7. CASE Leave(p, w)   BY <1>0, <1>7, GotoEffect DEF Leave
<1> QED BY <1>1, <1>2, <1>3, <1>4, <1>5, <1>6, <1>7 DEF WorkerStep

\* Only starting a phase touches the workers from the main thread, and only
\* closing the writer touches the queue.
LEMMA MainFrame ==
    ASSUME MainStep
    PROVE  /\ UNCHANGED writerVars
           /\ UNCHANGED threadVars \/ StartPhase
           /\ UNCHANGED queue \/ CloseWriter
BY DEF MainStep, StartPhase, Await, WatchdogFires, Decide, Summarise, AbortDatabase,
       CloseWriter, JoinWriter, JoinTimesOut, Exit, threadVars

LEMMA StartEffect ==
    ASSUME TypeOK, InOrder, StartPhase
    PROVE  /\ phase + 1 \in Phase /\ phase' = phase + 1
           /\ \A w \in Worker : tpc[phase + 1][w] = "idle"
           /\ \A w \in Worker : tpc'[phase + 1][w] \in {"idle", "poll"}
           /\ \A q \in Phase, w \in Worker : q # phase + 1 => tpc'[q][w] = tpc[q][w]
           /\ UNCHANGED <<verdict, rows, tseq, sequence, current, maximum, samples, queue>>
<1>1. phase + 1 \in Phase /\ phase + 1 > phase
  BY LevelsAssumption DEF StartPhase, TypeOK, Phase
<1>2. \A w \in Worker : tpc[phase + 1][w] = "idle"
  BY <1>1 DEF InOrder
<1>3. /\ tpc \in [Phase -> [Worker -> ThreadPC]]
      /\ tpc' = [tpc EXCEPT ![phase + 1] =
                   [w \in Worker |-> IF w \in Pool(phase + 1) THEN "poll" ELSE "idle"]]
  BY DEF StartPhase, TypeOK
<1>4. \A w \in Worker : tpc'[phase + 1][w] \in {"idle", "poll"}
  BY <1>1, <1>3
<1>5. \A q \in Phase, w \in Worker : q # phase + 1 => tpc'[q][w] = tpc[q][w]
  BY <1>1, <1>3
<1> QED BY <1>1, <1>2, <1>4, <1>5 DEF StartPhase

-----------------------------------------------------------------------------
(* Phases run in order, and a phase that returned ok is over.              *)

LEMMA OrderNext == TypeOK /\ InOrder /\ [Next]_vars => InOrder'
<1> SUFFICES ASSUME TypeOK, InOrder, [Next]_vars PROVE InOrder'
  OBVIOUS
<1>1. ASSUME NEW p \in Phase, NEW w \in Worker, WorkerStep(p, w) PROVE InOrder'
  <2>1. UNCHANGED <<pc, phase, verdict>> /\ tpc[p][w] # "idle"
    BY <1>1, WorkerFrame DEF phaseVars, Finished
  <2>2. ASSUME NEW q \in Phase, q > phase, NEW v \in Worker PROVE tpc'[q][v] = "idle"
    BY <1>1, <2>1, <2>2, WorkerFrame DEF InOrder
  <2> QED BY <2>1, <2>2 DEF InOrder
<1>2. CASE MainStep
  <2>1. CASE StartPhase
    <3>1. /\ phase' = phase + 1 /\ phase' \in Phase /\ pc' = "wait" /\ UNCHANGED verdict
          /\ phase \in Nat
      BY <2>1, StartEffect DEF StartPhase, TypeOK
    <3>2. \A q \in Phase : q > phase' => q > phase /\ q # phase + 1
      BY <3>1, PhaseArithmetic
    <3>3. phase' > phase
      BY <3>1
    <3>4. \A q \in Phase : q > phase' => verdict'[q] = "none" /\ \A w \in Worker : tpc'[q][w] = "idle"
      BY <2>1, <3>1, <3>2, StartEffect DEF InOrder
    <3>5. verdict'[phase'] = "none"
      BY <3>1, <3>3 DEF InOrder
    <3> QED BY <3>1, <3>4, <3>5 DEF InOrder
  <2>2. ASSUME NEW v, Decide(v), pc = "wait" PROVE InOrder'
    <3>1. phase \in Phase /\ UNCHANGED <<phase, tpc>> /\ verdict' = [verdict EXCEPT ![phase] = v]
      BY <2>2 DEF Decide, InOrder, threadVars
    <3>2. \A q \in Phase : q > phase => q # phase
      BY <3>1, PhaseArithmetic
    <3>3. \A q \in Phase : q > phase => verdict'[q] = verdict[q]
      BY <3>1, <3>2 DEF TypeOK
    <3>4. /\ pc' \in {"reset", "summarise"}
          /\ pc' = "summarise" => phase = 2 * LevelOf(phase)
          /\ pc' = "reset" => IsWarmup(phase)
      BY <2>2, <3>1, PhaseArithmetic DEF Decide
    <3>5. IsWarmup(phase) => phase < 2 * NumLevels
      BY <3>1, LevelsAssumption DEF IsWarmup, Phase
    <3> QED BY <3>1, <3>3, <3>4, <3>5 DEF InOrder
  <2>3. CASE Summarise
    <3>1. UNCHANGED <<phase, tpc, verdict>> /\ pc' = (IF phase = 2 * NumLevels THEN "close" ELSE "reset")
      BY <2>3 DEF Summarise, threadVars
    <3>2. phase # 2 * NumLevels => phase < 2 * NumLevels
      <4>1. phase \in 0..(2 * NumLevels)
        BY DEF TypeOK
      <4> QED BY <4>1, LevelsAssumption
    <3> QED BY <3>1, <3>2 DEF InOrder
  <2>4. CASE AbortDatabase \/ CloseWriter \/ JoinWriter \/ JoinTimesOut \/ Exit
    <3>1. UNCHANGED <<phase, tpc, verdict>> /\ pc' \notin {"reset", "wait", "summarise"}
      BY <2>4 DEF AbortDatabase, CloseWriter, JoinWriter, JoinTimesOut, Exit, threadVars
    <3> QED BY <3>1 DEF InOrder
  <2> QED BY <1>2, <2>1, <2>2, <2>3, <2>4 DEF MainStep, Await, WatchdogFires
<1>3. CASE Tick \/ WriterStep \/ Ended \/ UNCHANGED vars
  <2>1. UNCHANGED <<pc, phase, tpc, verdict>>
    BY <1>3 DEF Tick, WriterStep, WriterTakes, WriterFails, Ended, vars, threadVars, phaseVars
  <2> QED BY <2>1 DEF InOrder
<1> QED BY <1>1, <1>2, <1>3 DEF Next

LEMMA OkIsOverNext == TypeOK /\ InOrder /\ OkIsOver /\ [Next]_vars => OkIsOver'
<1> SUFFICES ASSUME TypeOK, InOrder, OkIsOver, [Next]_vars,
                    NEW q \in Phase, verdict'[q] = "ok", NEW v \in Worker
             PROVE  tpc'[q][v] \in {"idle", "done"}
  BY DEF OkIsOver
<1>1. ASSUME NEW p \in Phase, NEW w \in Worker, WorkerStep(p, w)
      PROVE  tpc'[q][v] \in {"idle", "done"}
  <2>1. verdict[q] = "ok" /\ tpc[p][w] \notin {"idle", "done"}
    BY <1>1, WorkerFrame DEF phaseVars, Finished
  <2> QED BY <1>1, <2>1, WorkerFrame DEF OkIsOver
<1>2. CASE StartPhase
  <2>1. phase + 1 \in Phase /\ phase + 1 > phase /\ UNCHANGED verdict
    <3>1. phase \in 0..(2 * NumLevels)
      BY DEF TypeOK
    <3> QED BY <1>2, <3>1, StartEffect
  <2>2. verdict[phase + 1] = "none"
    BY <2>1 DEF InOrder
  <2>3. q # phase + 1 /\ verdict[q] = "ok"
    BY <2>1, <2>2
  <2> QED BY <1>2, <2>3, StartEffect DEF OkIsOver
<1>3. CASE Await
  <2>1. CASE q = phase
    <3>1. tpc[q][v] \in Finished /\ tpc[q][v] # "raised"
      BY <1>3, <2>1 DEF Await, Decide, TypeOK
    <3> QED BY <1>3, <3>1 DEF Await, Decide, threadVars, Finished
  <2>2. CASE q # phase
    <3>1. verdict[q] = "ok"
      BY <1>3, <2>2 DEF Await, Decide, TypeOK
    <3> QED BY <1>3, <3>1 DEF Await, Decide, threadVars, OkIsOver
  <2> QED BY <2>1, <2>2
<1>4. CASE WatchdogFires
  <2>1. q # phase /\ verdict[q] = "ok"
    BY <1>4 DEF WatchdogFires, Decide, TypeOK
  <2> QED BY <1>4, <2>1 DEF WatchdogFires, Decide, threadVars, OkIsOver
<1>5. CASE \/ Summarise \/ AbortDatabase \/ CloseWriter \/ JoinWriter \/ JoinTimesOut \/ Exit
           \/ Tick \/ WriterStep \/ Ended \/ UNCHANGED vars
  <2>1. UNCHANGED <<tpc, verdict>>
    BY <1>5 DEF Summarise, AbortDatabase, CloseWriter, JoinWriter, JoinTimesOut, Exit,
       Tick, WriterStep, WriterTakes, WriterFails, Ended, vars, threadVars, phaseVars
  <2> QED BY <2>1 DEF OkIsOver
<1> QED BY <1>1, <1>2, <1>3, <1>4, <1>5 DEF Next, MainStep

-----------------------------------------------------------------------------
(* Every number is claimed once and sampled at most once.                  *)

Counting == Accounted /\ Bounded /\ Unique

\* Steps that claim nothing and sample nothing keep every holder.
LEMMA CountingFrame ==
    ASSUME Counting, UNCHANGED <<sequence, tseq, samples>>,
           \A q \in Phase, v \in Worker : Holds(q, v)' <=> Holds(q, v)
    PROVE  Counting'
<1>1. Accounted'
  BY DEF Counting, Accounted
<1>2. Bounded'
  BY DEF Counting, Bounded
<1>3. Unique'
  BY DEF Counting, Unique
<1> QED BY <1>1, <1>2, <1>3 DEF Counting

LEMMA ClaimCounts ==
    ASSUME TypeOK, Counting, NEW p \in Phase, NEW w \in Worker, Claim(p, w)
    PROVE  Counting'
<1>1. /\ tpc[p][w] = "claim" /\ tpc'[p][w] = "enter"
      /\ \A q \in Phase, v \in Worker : q # p \/ v # w => tpc'[q][v] = tpc[q][v]
  BY GotoEffect DEF Claim, ThreadPC
<1>2. /\ tseq'[p][w] = sequence[p]
      /\ \A q \in Phase, v \in Worker : q # p \/ v # w => tseq'[q][v] = tseq[q][v]
  BY DEF Claim, TypeOK
<1>3. /\ sequence[p] \in Nat /\ sequence'[p] = sequence[p] + 1
      /\ \A q \in Phase : q # p => sequence'[q] = sequence[q]
      /\ UNCHANGED samples
  <2>1. sequence \in [Phase -> Nat] /\ sequence' = [sequence EXCEPT ![p] = sequence[p] + 1]
    BY DEF Claim, TypeOK
  <2> QED BY <2>1 DEF Claim
<1>4. /\ ~ Holds(p, w) /\ Holds(p, w)'
      /\ \A q \in Phase, v \in Worker : q # p \/ v # w => (Holds(q, v)' <=> Holds(q, v))
  BY <1>1 DEF Holds
<1>5. /\ \A q \in Phase, v \in Worker : tseq[q][v] \in Nat
      /\ \A q \in Phase : \A r \in samples[q] : r.seq \in Nat
  <2>1. tseq \in [Phase -> [Worker -> Nat]] /\ samples \in [Phase -> SUBSET Record]
    BY DEF TypeOK
  <2>2. \A r \in Record : r.seq \in Nat
    BY DEF Record
  <2> QED BY ONLY <2>1, <2>2
<1>6. Accounted'
  <2> SUFFICES ASSUME NEW q \in Phase, NEW n \in 0..(sequence'[q] - 1)
               PROVE  \/ \E r \in samples[q] : r.seq = n
                      \/ \E v \in Worker : Holds(q, v)' /\ tseq'[q][v] = n
    BY <1>3 DEF Accounted
  <2>1. CASE q = p /\ n = sequence[p]
    BY <2>1, <1>2, <1>4
  <2>2. CASE ~ (q = p /\ n = sequence[p])
    <3>1. n \in 0..(sequence[q] - 1)
      <4>1. CASE q = p
        BY <2>2, <4>1, <1>3
      <4>2. CASE q # p
        BY <4>2, <1>3
      <4> QED BY <4>1, <4>2
    <3>2. \/ \E r \in samples[q] : r.seq = n
          \/ \E v \in Worker : Holds(q, v) /\ tseq[q][v] = n
      BY <3>1 DEF Counting, Accounted
    <3>3. ASSUME NEW v \in Worker, Holds(q, v), tseq[q][v] = n
          PROVE  Holds(q, v)' /\ tseq'[q][v] = n
      <4>1. q # p \/ v # w
        BY <3>3, <1>4
      <4> QED BY <3>3, <4>1, <1>2, <1>4
    <3> QED BY <3>2, <3>3
  <2> QED BY <2>1, <2>2
<1>7. Bounded'
  <2> SUFFICES ASSUME NEW q \in Phase
               PROVE  /\ \A r \in samples[q] : r.phase = q /\ r.seq < sequence'[q]
                      /\ \A v \in Worker : Holds(q, v)' => tseq'[q][v] < sequence'[q]
    BY <1>3 DEF Bounded
  <2>1. sequence[q] \in Nat /\ sequence'[q] \in {sequence[q], sequence[q] + 1}
    <3>1. sequence[q] \in Nat
      BY DEF TypeOK
    <3>2. CASE q = p
      BY <3>1, <3>2, <1>3
    <3>3. CASE q # p
      BY <3>1, <3>3, <1>3
    <3> QED BY <3>2, <3>3
  <2>2. ASSUME NEW r \in samples[q] PROVE r.phase = q /\ r.seq < sequence'[q]
    <3>1. r.phase = q /\ r.seq < sequence[q] /\ r.seq \in Nat
      BY <1>5 DEF Counting, Bounded
    <3> QED BY ONLY <2>1, <3>1
  <2>3. ASSUME NEW v \in Worker, Holds(q, v)' PROVE tseq'[q][v] < sequence'[q]
    <3>1. CASE q = p /\ v = w
      BY <3>1, <1>2, <1>3
    <3>2. CASE ~ (q = p /\ v = w)
      <4>1. tseq'[q][v] = tseq[q][v] /\ tseq[q][v] < sequence[q] /\ tseq[q][v] \in Nat
        BY <2>3, <3>2, <1>2, <1>4, <1>5 DEF Counting, Bounded
      <4> QED BY ONLY <2>1, <4>1
    <3> QED BY <3>1, <3>2
  <2> QED BY <2>2, <2>3
<1>8. Unique'
  <2> SUFFICES ASSUME NEW q \in Phase
               PROVE  /\ \A r, s \in samples[q] : r.seq = s.seq => r = s
                      /\ \A u, v \in Worker :
                           Holds(q, u)' /\ Holds(q, v)' /\ tseq'[q][u] = tseq'[q][v] => u = v
                      /\ \A r \in samples[q], v \in Worker :
                           Holds(q, v)' => r.seq # tseq'[q][v]
    BY <1>3 DEF Unique
  <2>1. \A v \in Worker : q # p \/ v # w =>
            tseq'[q][v] = tseq[q][v] /\ (Holds(q, v)' <=> Holds(q, v))
    BY <1>2, <1>4
  <2>2. CASE q = p
    <3>1. \A v \in Worker : Holds(q, v) => tseq[q][v] # tseq'[p][w]
      BY <2>2, <1>2, <1>5, <1>3 DEF Counting, Bounded
    <3>2. \A r \in samples[q] : r.seq # tseq'[p][w]
      BY <2>2, <1>2, <1>5, <1>3 DEF Counting, Bounded
    <3> QED BY <2>1, <2>2, <3>1, <3>2 DEF Counting, Unique
  <2>3. CASE q # p
    BY <2>1, <2>3 DEF Counting, Unique
  <2> QED BY <2>2, <2>3
<1> QED BY <1>6, <1>7, <1>8 DEF Counting

LEMMA CollectCounts ==
    ASSUME TypeOK, Counting, NEW p \in Phase, NEW w \in Worker, Collect(p, w)
    PROVE  Counting'
<1>1. /\ tpc[p][w] = "op" /\ tpc'[p][w] = "emit"
      /\ \A q \in Phase, v \in Worker : q # p \/ v # w => tpc'[q][v] = tpc[q][v]
  BY GotoEffect DEF Collect, ThreadPC, Busy
<1>2. /\ samples'[p] = samples[p] \cup {Sample(p, w)}
      /\ \A q \in Phase : q # p => samples'[q] = samples[q]
      /\ UNCHANGED <<sequence, tseq>>
  BY DEF Collect, TypeOK
<1>3. /\ Holds(p, w) /\ ~ Holds(p, w)'
      /\ \A q \in Phase, v \in Worker : q # p \/ v # w => (Holds(q, v)' <=> Holds(q, v))
  BY <1>1 DEF Holds
<1>4. Sample(p, w).phase = p /\ Sample(p, w).seq = tseq[p][w]
  BY DEF Sample
<1>5. Accounted'
  <2> SUFFICES ASSUME NEW q \in Phase, NEW n \in 0..(sequence[q] - 1)
               PROVE  \/ \E r \in samples'[q] : r.seq = n
                      \/ \E v \in Worker : Holds(q, v)' /\ tseq[q][v] = n
    BY <1>2 DEF Accounted
  <2>1. CASE q = p /\ n = tseq[p][w]
    BY <2>1, <1>2, <1>4
  <2>2. CASE ~ (q = p /\ n = tseq[p][w])
    <3>1. \/ \E r \in samples[q] : r.seq = n
          \/ \E v \in Worker : Holds(q, v) /\ tseq[q][v] = n
      BY DEF Counting, Accounted
    <3>2. ASSUME NEW v \in Worker, Holds(q, v), tseq[q][v] = n PROVE Holds(q, v)'
      BY <3>2, <2>2, <1>3
    <3>3. samples[q] \subseteq samples'[q]
      BY <1>2
    <3> QED BY <3>1, <3>2, <3>3
  <2> QED BY <2>1, <2>2
<1>6. Bounded'
  BY <1>2, <1>3, <1>4 DEF Counting, Bounded
<1>7. Unique'
  <2> SUFFICES ASSUME NEW q \in Phase
               PROVE  /\ \A r, s \in samples'[q] : r.seq = s.seq => r = s
                      /\ \A u, v \in Worker :
                           Holds(q, u)' /\ Holds(q, v)' /\ tseq[q][u] = tseq[q][v] => u = v
                      /\ \A r \in samples'[q], v \in Worker :
                           Holds(q, v)' => r.seq # tseq[q][v]
    BY <1>2 DEF Unique
  <2>1. CASE q = p
    <3>1. \A v \in Worker : Holds(q, v)' => v # w /\ Holds(q, v)
      BY <2>1, <1>3
    <3>2. \A r \in samples[q] : r.seq # tseq[p][w]
      BY <2>1, <1>3 DEF Counting, Unique
    <3>3. \A v \in Worker : Holds(q, v)' => tseq[q][v] # tseq[p][w]
      BY <2>1, <1>3, <3>1 DEF Counting, Unique
    <3> QED BY <2>1, <1>2, <1>4, <3>1, <3>2, <3>3 DEF Counting, Unique
  <2>2. CASE q # p
    BY <2>2, <1>2, <1>3 DEF Counting, Unique
  <2> QED BY <2>1, <2>2
<1> QED BY <1>5, <1>6, <1>7 DEF Counting

LEMMA CountingNext == TypeOK /\ InOrder /\ Counting /\ [Next]_vars => Counting'
<1> SUFFICES ASSUME TypeOK, InOrder, Counting, [Next]_vars PROVE Counting'
  OBVIOUS
<1>1. ASSUME NEW p \in Phase, NEW w \in Worker, WorkerStep(p, w) PROVE Counting'
  <2>1. CASE Claim(p, w)   BY <2>1, ClaimCounts
  <2>2. CASE Collect(p, w) BY <2>2, CollectCounts
  <2>3. CASE Poll(p, w) \/ Enter(p, w) \/ Raise(p, w) \/ Emit(p, w) \/ Leave(p, w)
    <3>1. UNCHANGED <<sequence, tseq, samples>>
      BY <2>3 DEF Poll, Enter, Raise, Emit, Leave
    <3>2. /\ tpc[p][w] \in {"enter", "op", "unwind"} => tpc'[p][w] \in {"op", "unwind", "raised"}
          /\ tpc[p][w] \notin {"enter", "op", "unwind"} => tpc'[p][w] \in {"claim", "done", "leave", "poll"}
      BY <2>3, GotoEffect DEF Poll, Enter, Raise, Emit, Leave, ThreadPC, Busy, Finished
    <3>3. Holds(p, w)' <=> Holds(p, w)
      BY <1>1, <3>2, WorkerFrame DEF Holds, Finished
    <3>4. \A q \in Phase, v \in Worker : Holds(q, v)' <=> Holds(q, v)
      BY <1>1, <3>3, WorkerFrame DEF Holds
    <3> QED BY <3>1, <3>4, CountingFrame
  <2> QED BY <1>1, <2>1, <2>2, <2>3 DEF WorkerStep
<1>2. CASE MainStep
  <2>1. CASE StartPhase
    <3>1. \A q \in Phase, v \in Worker : Holds(q, v)' <=> Holds(q, v)
      BY <2>1, StartEffect DEF Holds
    <3> QED BY <2>1, <3>1, StartEffect, CountingFrame
  <2>2. CASE UNCHANGED threadVars
    BY <2>2, CountingFrame DEF threadVars, Holds
  <2> QED BY <1>2, <2>1, <2>2, MainFrame
<1>3. CASE Tick \/ WriterStep \/ Ended \/ UNCHANGED vars
  <2>1. UNCHANGED <<tpc, sequence, tseq, samples>>
    BY <1>3 DEF Tick, WriterStep, WriterTakes, WriterFails, Ended, vars, threadVars
  <2> QED BY <2>1, CountingFrame DEF Holds
<1> QED BY <1>1, <1>2, <1>3 DEF Next

-----------------------------------------------------------------------------
(* A complete row keeps telling the truth about its phase.                 *)

LEMMA RowsNext ==
    TypeOK /\ InOrder /\ OkIsOver /\ RowsAreOfOkPhases /\ [Next]_vars => RowsAreOfOkPhases'
<1> SUFFICES ASSUME TypeOK, InOrder, OkIsOver, RowsAreOfOkPhases, [Next]_vars,
                    NEW l \in Level, Complete(l)'
             PROVE  verdict'[2 * l] = "ok" /\ rows'[l].samples = samples'[2 * l]
  BY DEF RowsAreOfOkPhases
<1>0. 2 * l \in Phase
  BY PhaseArithmetic
<1>1. ASSUME NEW p \in Phase, NEW w \in Worker, WorkerStep(p, w)
      PROVE  verdict'[2 * l] = "ok" /\ rows'[l].samples = samples'[2 * l]
  <2>1. UNCHANGED <<rows, verdict>> /\ tpc[p][w] \notin Finished
    BY <1>1, WorkerFrame DEF phaseVars
  <2>2. verdict[2 * l] = "ok" /\ rows[l].samples = samples[2 * l]
    BY <2>1 DEF RowsAreOfOkPhases, Complete
  <2>3. p # 2 * l
    BY <2>1, <2>2, <1>0 DEF OkIsOver, Finished
  <2>4. samples'[2 * l] = samples[2 * l]
    BY <1>1, <2>3, <1>0 DEF WorkerStep, Poll, Claim, Enter, Raise, Collect, Emit, Leave, TypeOK
  <2> QED BY <2>1, <2>2, <2>4
<1>2. CASE Summarise
  <2>1. phase \in Phase /\ phase = 2 * LevelOf(phase) /\ LevelOf(phase) \in Level
    BY <1>2, PhaseArithmetic DEF Summarise, InOrder
  <2>2. UNCHANGED <<samples, verdict>>
    BY <1>2 DEF Summarise, threadVars
  <2>3. CASE l = LevelOf(phase)
    <3> DEFINE most == IF maximum[phase - 1] < maximum[phase] THEN maximum[phase]
                                                             ELSE maximum[phase - 1]
    <3>1. PICK countsMatch \in BOOLEAN : rows' = [rows EXCEPT ![LevelOf(phase)] =
              IF countsMatch /\ verdict[phase - 1] = "ok" /\ verdict[phase] = "ok"
              THEN [status |-> "complete", samples |-> samples[phase], maxInFlight |-> most]
              ELSE FailedRow(most)]
      BY <1>2 DEF Summarise
    <3> HIDE DEF most
    <3>2. rows'[l] = IF countsMatch /\ verdict[phase - 1] = "ok" /\ verdict[phase] = "ok"
              THEN [status |-> "complete", samples |-> samples[phase], maxInFlight |-> most]
              ELSE FailedRow(most)
      BY <3>1, <2>3 DEF TypeOK
    <3> QED BY <2>1, <2>2, <2>3, <3>2 DEF Complete, FailedRow
  <2>4. CASE l # LevelOf(phase)
    <3>1. rows'[l] = rows[l]
      BY <1>2, <2>4 DEF Summarise, TypeOK
    <3> QED BY <3>1, <2>2 DEF Complete, RowsAreOfOkPhases
  <2> QED BY <2>3, <2>4
<1>3. CASE AbortDatabase
  <2>1. rows'[l] = rows[l]
    BY <1>3 DEF AbortDatabase, FailedRow, Complete
  <2> QED BY <1>3, <2>1 DEF AbortDatabase, threadVars, Complete, RowsAreOfOkPhases
<1>4. ASSUME NEW v, Decide(v), pc = "wait"
      PROVE  verdict'[2 * l] = "ok" /\ rows'[l].samples = samples'[2 * l]
  <2>1. verdict[2 * l] = "ok" /\ rows[l].samples = samples[2 * l]
    BY <1>4 DEF Decide, Complete, RowsAreOfOkPhases
  <2>2. 2 * l # phase
    BY <1>4, <2>1 DEF InOrder
  <2> QED BY <1>0, <1>4, <2>1, <2>2 DEF Decide, threadVars, TypeOK
<1>5. CASE \/ StartPhase \/ CloseWriter \/ JoinWriter \/ JoinTimesOut \/ Exit
           \/ Tick \/ WriterStep \/ Ended \/ UNCHANGED vars
  <2>1. UNCHANGED <<rows, samples, verdict>>
    BY <1>5 DEF StartPhase, CloseWriter, JoinWriter, JoinTimesOut, Exit,
       Tick, WriterStep, WriterTakes, WriterFails, Ended, vars, threadVars, phaseVars
  <2> QED BY <2>1 DEF Complete, RowsAreOfOkPhases
<1> QED BY <1>1, <1>2, <1>3, <1>4, <1>5 DEF Next, MainStep, Await, WatchdogFires

LEMMA ReportedOnceNext ==
    TypeOK /\ InOrder /\ ReportedOnce /\ [Next]_vars => ReportedOnce'
<1> SUFFICES ASSUME TypeOK, InOrder, ReportedOnce, [Next]_vars, NEW l \in Level, Complete(l)'
             PROVE  2 * l <= phase' /\ (2 * l = phase' => pc' \notin {"wait", "summarise"})
  BY DEF ReportedOnce
<1>0. phase \in Nat /\ 2 * l \in Nat
  <2>1. phase \in 0..(2 * NumLevels)
    BY DEF TypeOK
  <2> QED BY <2>1, LevelsAssumption DEF Level
<1>1. ASSUME UNCHANGED rows PROVE 2 * l <= phase /\ (2 * l = phase => pc \notin {"wait", "summarise"})
  BY <1>1 DEF ReportedOnce, Complete
<1>2. CASE StartPhase
  <2>1. phase' = phase + 1 /\ UNCHANGED rows
    BY <1>2 DEF StartPhase
  <2>2. 2 * l < phase'
    BY <1>0, <1>1, <2>1
  <2> QED BY <1>0, <2>1, <2>2
<1>3. CASE Summarise
  <2>1. /\ phase \in Phase /\ phase = 2 * LevelOf(phase) /\ phase' = phase
        /\ pc' \in {"close", "reset"}
    BY <1>3 DEF Summarise, InOrder
  <2>2. CASE l = LevelOf(phase)
    BY <2>1, <2>2, <1>0
  <2>3. CASE l # LevelOf(phase)
    <3>1. rows'[l] = rows[l]
      BY <1>3, <2>3 DEF Summarise, TypeOK
    <3> QED BY <2>1, <3>1 DEF ReportedOnce, Complete
  <2> QED BY <2>2, <2>3
<1>4. CASE AbortDatabase
  <2>1. rows'[l] = rows[l]
    BY <1>4 DEF AbortDatabase, FailedRow, Complete
  <2> QED BY <1>4, <2>1 DEF AbortDatabase, ReportedOnce, Complete
<1>5. ASSUME NEW v, Decide(v), pc = "wait"
      PROVE  2 * l <= phase' /\ (2 * l = phase' => pc' \notin {"wait", "summarise"})
  BY <1>1, <1>5 DEF Decide
<1>6. CASE CloseWriter \/ JoinWriter \/ JoinTimesOut \/ Exit
  BY <1>1, <1>6 DEF CloseWriter, JoinWriter, JoinTimesOut, Exit
<1>7. ASSUME UNCHANGED <<rows, phase, pc>>
      PROVE  2 * l <= phase' /\ (2 * l = phase' => pc' \notin {"wait", "summarise"})
  BY <1>1, <1>7
<1>8. CASE \E p \in Phase, w \in Worker : WorkerStep(p, w)
  BY <1>7, <1>8, WorkerFrame DEF phaseVars
<1>9. CASE Tick \/ WriterStep \/ Ended \/ UNCHANGED vars
  BY <1>7, <1>9 DEF Tick, WriterStep, WriterTakes, WriterFails, Ended, vars, phaseVars
<1> QED BY <1>2, <1>3, <1>4, <1>5, <1>6, <1>8, <1>9 DEF Next, MainStep, Await, WatchdogFires

-----------------------------------------------------------------------------
(* The queue and the raw file.                                             *)

Evidence == OnlySamples /\ NothingDropped /\ SentinelIsLast

LEMMA Appended ==
    ASSUME queue \in Seq(Item), NEW e \in Item, queue' = Append(queue, e)
    PROVE  /\ Queued' = Queued \cup {e}
           /\ DOMAIN queue' = DOMAIN queue \cup {Len(queue) + 1} /\ queue'[Len(queue) + 1] = e
           /\ \A i \in DOMAIN queue : i \in Nat /\ i <= Len(queue) /\ queue'[i] = queue[i]
<1>1. /\ DOMAIN queue = 1..Len(queue) /\ Len(queue) \in Nat
      /\ DOMAIN queue' = 1..(Len(queue) + 1) /\ queue'[Len(queue) + 1] = e
      /\ \A i \in 1..Len(queue) : queue'[i] = queue[i]
  OBVIOUS
<1>2. DOMAIN queue' = DOMAIN queue \cup {Len(queue) + 1}
  BY <1>1
<1>3. Queued' = Queued \cup {e}
  BY <1>1, <1>2 DEF Queued
<1> QED BY <1>1, <1>2, <1>3

LEMMA Taken ==
    ASSUME queue \in Seq(Item), queue # <<>>, queue' = Tail(queue)
    PROVE  /\ Queued = Queued' \cup {Head(queue)}
           /\ 1 \in DOMAIN queue /\ Head(queue) = queue[1]
           /\ \A i \in DOMAIN queue' :
                i \in Nat /\ i >= 1 /\ i + 1 \in DOMAIN queue /\ queue'[i] = queue[i + 1]
<1>1. /\ DOMAIN queue = 1..Len(queue) /\ Len(queue) \in Nat \ {0} /\ Head(queue) = queue[1]
      /\ DOMAIN queue' = 1..(Len(queue) - 1)
      /\ \A i \in 1..(Len(queue) - 1) : queue'[i] = queue[i + 1]
  OBVIOUS
<1>2. \A i \in DOMAIN queue : i = 1 \/ (i - 1 \in DOMAIN queue' /\ queue[i] = queue'[i - 1])
  BY <1>1
<1>3. \A i \in DOMAIN queue' :
         i \in Nat /\ i >= 1 /\ i + 1 \in DOMAIN queue /\ queue'[i] = queue[i + 1]
  BY <1>1
<1>4. Queued \subseteq Queued' \cup {Head(queue)}
  <2> SUFFICES ASSUME NEW i \in DOMAIN queue PROVE queue[i] \in Queued' \cup {Head(queue)}
    BY DEF Queued
  <2>1. CASE i = 1
    BY <2>1, <1>1
  <2>2. CASE i - 1 \in DOMAIN queue' /\ queue[i] = queue'[i - 1]
    BY <2>2 DEF Queued
  <2> QED BY <1>2, <2>1, <2>2
<1>5. Queued' \cup {Head(queue)} \subseteq Queued
  BY <1>1, <1>3 DEF Queued
<1> QED BY <1>1, <1>3, <1>4, <1>5

LEMMA SentinelIsNoRecord == \A r \in Record : r # Sentinel /\ r.phase \in Phase
<1>1. 0 \notin Phase
  BY PhaseArithmetic DEF Phase
<1> QED BY <1>1 DEF Record, Sentinel

LEMMA RecordsTyped ==
    ASSUME TypeOK
    PROVE  /\ \A q \in Phase : \A r \in samples[q] : r \in Record /\ r.worker \in Worker
           /\ \A r \in raw : r \in Record /\ r.phase \in Phase
           /\ \A r \in Queued : r # Sentinel => r \in Record /\ r.phase \in Phase
           /\ \A i \in DOMAIN queue : queue[i] \in Item
<1>1. \A r \in Record : r.worker \in Worker /\ r.phase \in Phase
  BY DEF Record
<1>2. /\ samples \in [Phase -> SUBSET Record] /\ raw \in SUBSET Record /\ queue \in Seq(Item)
  BY DEF TypeOK
<1>3. \A i \in DOMAIN queue : queue[i] \in Item
  BY ONLY <1>2
<1>4. \A r \in Queued : r # Sentinel => r \in Record
  BY <1>3 DEF Queued, Item
<1>5. \A q \in Phase : \A r \in samples[q] : r \in Record
  BY ONLY <1>2
<1> QED BY <1>1, <1>2, <1>3, <1>4, <1>5

\* The part of a step the evidence does not see.
LEMMA EvidenceFrame ==
    ASSUME TypeOK, Evidence,
           UNCHANGED <<queue, raw, wstate, samples>>,
           \A q \in Phase, v \in Worker :
               /\ tpc'[q][v] = "emit" <=> tpc[q][v] = "emit"
               /\ tpc[q][v] = "emit" => tseq'[q][v] = tseq[q][v],
           pc' \notin Closing => pc \notin Closing,
           Published' => wstate = "exited",
           UNCHANGED verdict \/ pc \notin Closing
    PROVE  Evidence'
<1>1. \A q \in Phase, v \in Worker : tpc[q][v] = "emit" => Sample(q, v)' = Sample(q, v)
  BY DEF Sample
<1>2. Queued' = Queued
  BY DEF Queued
<1>3. OnlySamples'
  BY <1>1, <1>2 DEF Evidence, OnlySamples
<1>4. NothingDropped'
  <2> SUFFICES ASSUME wstate # "failed", NEW q \in Phase, NEW r \in samples[q]
               PROVE  \/ r \in raw \/ r \in Queued
                      \/ tpc'[q][r.worker] = "emit" /\ r = Sample(q, r.worker)'
    BY <1>2 DEF NothingDropped
  <2>1. r.worker \in Worker
    BY RecordsTyped
  <2> QED BY <1>1, <2>1 DEF Evidence, NothingDropped
<1>5. SentinelIsLast'
  <2>1. pc' \notin Closing => Sentinel \notin Queued' /\ wstate' # "exited"
    BY <1>2 DEF Evidence, SentinelIsLast
  <2>2. CASE UNCHANGED verdict
    BY <2>1, <2>2, <1>2 DEF Evidence, SentinelIsLast
  <2>3. CASE pc \notin Closing
    <3>1. Sentinel \notin Queued /\ wstate # "exited"
      BY <2>3 DEF Evidence, SentinelIsLast
    <3>2. \A i \in DOMAIN queue : queue[i] # Sentinel
      BY <3>1 DEF Queued
    <3> QED BY <2>1, <3>1, <3>2 DEF SentinelIsLast
  <2> QED BY <2>2, <2>3
<1> QED BY <1>3, <1>4, <1>5 DEF Evidence

LEMMA CollectKeepsEvidence ==
    ASSUME TypeOK, Evidence, NEW p \in Phase, NEW w \in Worker, Collect(p, w)
    PROVE  Evidence'
<1>1. /\ tpc[p][w] = "op" /\ tpc'[p][w] = "emit"
      /\ \A q \in Phase, v \in Worker : q # p \/ v # w => tpc'[q][v] = tpc[q][v]
  BY GotoEffect DEF Collect, ThreadPC, Busy
<1>2. /\ samples'[p] = samples[p] \cup {Sample(p, w)}
      /\ \A q \in Phase : q # p => samples'[q] = samples[q]
      /\ UNCHANGED <<tseq, queue, raw, wstate, verdict, pc>>
  BY DEF Collect, TypeOK, phaseVars, writerVars
<1>3. /\ Queued' = Queued /\ Sample(p, w).worker = w
      /\ \A q \in Phase, v \in Worker : Sample(q, v)' = Sample(q, v)
  BY <1>2 DEF Queued, Sample
<1>4. \A q \in Phase : samples[q] \subseteq samples'[q]
  BY <1>2
<1>5. OnlySamples'
  <2>1. \A r \in raw : r.phase \in Phase
    BY RecordsTyped
  <2>2. \A r \in Queued : r # Sentinel => r.phase \in Phase
    BY RecordsTyped
  <2> QED BY <1>1, <1>2, <1>3, <1>4, <2>1, <2>2 DEF Evidence, OnlySamples
<1>6. NothingDropped'
  <2> SUFFICES ASSUME wstate # "failed", NEW q \in Phase, NEW r \in samples'[q]
               PROVE  \/ r \in raw \/ r \in Queued
                      \/ tpc'[q][r.worker] = "emit" /\ r = Sample(q, r.worker)'
    BY <1>2, <1>3 DEF NothingDropped
  <2>1. CASE q = p /\ r = Sample(p, w)
    BY <2>1, <1>1, <1>3
  <2>2. CASE r \in samples[q]
    <3>1. r.worker \in Worker
      BY <2>2, RecordsTyped
    <3>2. \/ r \in raw \/ r \in Queued
          \/ tpc[q][r.worker] = "emit" /\ r = Sample(q, r.worker)
      BY <2>2 DEF Evidence, NothingDropped
    <3> QED BY <3>1, <3>2, <1>1, <1>3
  <2> QED BY <2>1, <2>2, <1>2
<1>7. SentinelIsLast'
  BY <1>2, <1>3 DEF Evidence, SentinelIsLast, Closing, Published
<1> QED BY <1>5, <1>6, <1>7 DEF Evidence

LEMMA EmitKeepsEvidence ==
    ASSUME TypeOK, OkIsOver, Evidence, NEW p \in Phase, NEW w \in Worker, Emit(p, w)
    PROVE  Evidence'
<1>1. /\ tpc[p][w] = "emit" /\ tpc'[p][w] = "leave"
      /\ \A q \in Phase, v \in Worker : q # p \/ v # w => tpc'[q][v] = tpc[q][v]
  BY GotoEffect DEF Emit, ThreadPC, Busy
<1>2. UNCHANGED <<samples, tseq, raw, wstate, verdict, pc>>
  BY DEF Emit, phaseVars, writerVars
<1>3. queue \in Seq(Item) /\ Sample(p, w) \in Record /\ Sample(p, w) \in Item
  BY SampleTyped DEF TypeOK
<1>4. queue' = Append(queue, Sample(p, w))
  BY DEF Emit
<1>5. /\ Queued' = Queued \cup {Sample(p, w)}
      /\ \A q \in Phase, v \in Worker : Sample(q, v)' = Sample(q, v)
  BY <1>2, <1>3, <1>4, Appended DEF Sample
<1>6. Sample(p, w) \in samples[p] /\ Sample(p, w).phase = p /\ verdict[p] # "ok"
  BY <1>1 DEF Evidence, OnlySamples, Sample, OkIsOver
<1>7. OnlySamples'
  BY <1>1, <1>2, <1>5, <1>6 DEF Evidence, OnlySamples
<1>8. NothingDropped'
  <2> SUFFICES ASSUME wstate # "failed", NEW q \in Phase, NEW r \in samples[q]
               PROVE  \/ r \in raw \/ r \in Queued'
                      \/ tpc'[q][r.worker] = "emit" /\ r = Sample(q, r.worker)'
    BY <1>2 DEF NothingDropped
  <2>1. r.worker \in Worker
    BY RecordsTyped
  <2>2. \/ r \in raw \/ r \in Queued
        \/ tpc[q][r.worker] = "emit" /\ r = Sample(q, r.worker)
    BY DEF Evidence, NothingDropped
  <2> QED BY <2>1, <2>2, <1>1, <1>5
<1>9. SentinelIsLast'
  <2>1. /\ DOMAIN queue' = DOMAIN queue \cup {Len(queue) + 1}
        /\ queue'[Len(queue) + 1] = Sample(p, w)
        /\ \A i \in DOMAIN queue : i \in Nat /\ i <= Len(queue) /\ queue'[i] = queue[i]
    BY <1>3, <1>4, Appended
  <2>2. \A i, j \in DOMAIN queue' :
           i < j /\ queue'[i] = Sentinel /\ queue'[j] # Sentinel => verdict[queue'[j].phase] # "ok"
    <3> SUFFICES ASSUME NEW i \in DOMAIN queue', NEW j \in DOMAIN queue', i < j,
                        queue'[i] = Sentinel, queue'[j] # Sentinel
                 PROVE  verdict[queue'[j].phase] # "ok"
      OBVIOUS
    <3>1. CASE j = Len(queue) + 1
      BY <3>1, <2>1, <1>6
    <3>2. CASE j \in DOMAIN queue
      <4>1. i \in DOMAIN queue
        BY <3>2, <2>1, <1>3
      <4> QED BY <3>2, <4>1, <2>1 DEF Evidence, SentinelIsLast
    <3> QED BY <3>1, <3>2, <2>1
  <2>3. ASSUME wstate = "exited", NEW j \in DOMAIN queue', queue'[j] # Sentinel
        PROVE  verdict[queue'[j].phase] # "ok"
    <3>1. CASE j = Len(queue) + 1
      BY <3>1, <2>1, <1>6
    <3>2. CASE j \in DOMAIN queue
      BY <2>3, <3>2, <2>1 DEF Evidence, SentinelIsLast
    <3> QED BY <3>1, <3>2, <2>1
  <2>4. Sample(p, w) # Sentinel
    BY <1>3, SentinelIsNoRecord
  <2> QED BY <1>2, <1>5, <2>2, <2>3, <2>4 DEF Evidence, SentinelIsLast, Published
<1> QED BY <1>7, <1>8, <1>9 DEF Evidence

LEMMA CloseKeepsEvidence ==
    ASSUME TypeOK, Evidence, CloseWriter
    PROVE  Evidence'
<1>1. /\ UNCHANGED <<tpc, tseq, samples, raw, wstate, verdict>>
      /\ pc = "close" /\ pc' = "join" /\ queue' = Append(queue, Sentinel)
  BY DEF CloseWriter, threadVars, writerVars
<1>2. queue \in Seq(Item) /\ Sentinel \in Item
  BY DEF TypeOK, Item
<1>3. /\ Queued' = Queued \cup {Sentinel}
      /\ DOMAIN queue' = DOMAIN queue \cup {Len(queue) + 1} /\ queue'[Len(queue) + 1] = Sentinel
      /\ \A i \in DOMAIN queue : i \in Nat /\ i <= Len(queue) /\ queue'[i] = queue[i]
  BY <1>1, <1>2, Appended
<1>4. \A q \in Phase, v \in Worker : Sample(q, v)' = Sample(q, v)
  BY <1>1 DEF Sample
<1>5. OnlySamples'
  BY <1>1, <1>3, <1>4 DEF Evidence, OnlySamples
<1>6. NothingDropped'
  <2> SUFFICES ASSUME wstate # "failed", NEW q \in Phase, NEW r \in samples[q]
               PROVE  \/ r \in raw \/ r \in Queued'
                      \/ tpc[q][r.worker] = "emit" /\ r = Sample(q, r.worker)'
    BY <1>1 DEF NothingDropped
  <2> QED BY <1>3, <1>4, RecordsTyped DEF Evidence, NothingDropped
<1>7. SentinelIsLast'
  <2>1. Sentinel \notin Queued /\ wstate # "exited"
    BY <1>1 DEF Evidence, SentinelIsLast, Closing
  <2>2. \A i \in DOMAIN queue : queue'[i] # Sentinel
    BY <2>1, <1>3 DEF Queued
  <2>3. ASSUME NEW i \in DOMAIN queue', NEW j \in DOMAIN queue', i < j, queue'[i] = Sentinel
        PROVE  FALSE
    <3>1. i = Len(queue) + 1
      BY <2>2, <2>3, <1>3
    <3> QED BY <3>1, <2>3, <1>2, <1>3
  <2> QED BY <2>1, <2>3, <1>1 DEF SentinelIsLast, Closing, Published
<1> QED BY <1>5, <1>6, <1>7 DEF Evidence

LEMMA TakeKeepsEvidence ==
    ASSUME TypeOK, Evidence, WriterTakes
    PROVE  Evidence'
<1>1. /\ UNCHANGED <<tpc, tseq, samples, verdict, pc>>
      /\ wstate = "run" /\ queue # <<>> /\ queue' = Tail(queue)
      /\ \/ Head(queue) = Sentinel /\ wstate' = "exited" /\ raw' = raw
         \/ Head(queue) # Sentinel /\ wstate' = "run" /\ raw' = raw \cup {Head(queue)}
  BY DEF WriterTakes, threadVars, phaseVars
<1>2. queue \in Seq(Item)
  BY DEF TypeOK
<1>3. /\ Queued = Queued' \cup {Head(queue)}
      /\ 1 \in DOMAIN queue /\ Head(queue) = queue[1]
      /\ \A i \in DOMAIN queue' :
           i \in Nat /\ i >= 1 /\ i + 1 \in DOMAIN queue /\ queue'[i] = queue[i + 1]
  BY <1>1, <1>2, Taken
<1>4. \A q \in Phase, v \in Worker : Sample(q, v)' = Sample(q, v)
  BY <1>1 DEF Sample
<1>5. OnlySamples'
  BY <1>1, <1>3, <1>4 DEF Evidence, OnlySamples
<1>6. NothingDropped'
  <2> SUFFICES ASSUME NEW q \in Phase, NEW r \in samples[q]
               PROVE  \/ r \in raw' \/ r \in Queued'
                      \/ tpc[q][r.worker] = "emit" /\ r = Sample(q, r.worker)'
    BY <1>1 DEF NothingDropped
  <2>1. r # Sentinel /\ r.worker \in Worker
    BY RecordsTyped, SentinelIsNoRecord
  <2>2. \/ r \in raw \/ r \in Queued
        \/ tpc[q][r.worker] = "emit" /\ r = Sample(q, r.worker)
    BY <1>1 DEF Evidence, NothingDropped
  <2> QED BY <2>1, <2>2, <1>1, <1>3, <1>4
<1>7. SentinelIsLast'
  <2>1. \A i, j \in DOMAIN queue' :
           i < j /\ queue'[i] = Sentinel /\ queue'[j] # Sentinel => verdict[queue'[j].phase] # "ok"
    <3> SUFFICES ASSUME NEW i \in DOMAIN queue', NEW j \in DOMAIN queue', i < j,
                        queue'[i] = Sentinel, queue'[j] # Sentinel
                 PROVE  verdict[queue'[j].phase] # "ok"
      OBVIOUS
    <3>1. i + 1 \in DOMAIN queue /\ j + 1 \in DOMAIN queue /\ i + 1 < j + 1
      BY <1>3
    <3> QED BY <3>1, <1>3 DEF Evidence, SentinelIsLast
  <2>2. CASE Head(queue) = Sentinel
    <3>1. ASSUME NEW j \in DOMAIN queue', queue'[j] # Sentinel
          PROVE  verdict[queue'[j].phase] # "ok"
      <4>1. j + 1 \in DOMAIN queue /\ 1 < j + 1 /\ queue[1] = Sentinel /\ queue'[j] = queue[j + 1]
        BY <1>3, <2>2
      <4> QED BY <3>1, <4>1, <1>3 DEF Evidence, SentinelIsLast
    <3>2. pc \in Closing
      BY <2>2, <1>3 DEF Evidence, SentinelIsLast
    <3> QED BY <2>1, <2>2, <3>1, <3>2, <1>1 DEF SentinelIsLast, Evidence
  <2>3. CASE Head(queue) # Sentinel
    <3>1. wstate' = "run" /\ ~ Published'
      BY <2>3, <1>1 DEF Evidence, SentinelIsLast, Published
    <3>2. pc' \notin Closing => Sentinel \notin Queued'
      BY <1>1, <1>3 DEF Evidence, SentinelIsLast
    <3> QED BY <2>1, <3>1, <3>2, <1>1 DEF SentinelIsLast
  <2> QED BY <2>2, <2>3
<1> QED BY <1>5, <1>6, <1>7 DEF Evidence

LEMMA EvidenceNext == TypeOK /\ InOrder /\ OkIsOver /\ Evidence /\ [Next]_vars => Evidence'
<1> SUFFICES ASSUME TypeOK, InOrder, OkIsOver, Evidence, [Next]_vars PROVE Evidence'
  OBVIOUS
<1>0. Published => wstate = "exited"
  BY DEF Evidence, SentinelIsLast
<1>1. ASSUME NEW p \in Phase, NEW w \in Worker, WorkerStep(p, w) PROVE Evidence'
  <2>1. CASE Collect(p, w) BY <2>1, CollectKeepsEvidence
  <2>2. CASE Emit(p, w)    BY <2>2, EmitKeepsEvidence
  <2>3. CASE Poll(p, w) \/ Claim(p, w) \/ Enter(p, w) \/ Raise(p, w) \/ Leave(p, w)
    <3>1. UNCHANGED <<queue, raw, wstate, samples, verdict, pc>>
      BY <2>3 DEF Poll, Claim, Enter, Raise, Leave, phaseVars, writerVars
    <3>2. tpc[p][w] # "emit" /\ tpc'[p][w] # "emit"
      BY <2>3, GotoEffect DEF Poll, Claim, Enter, Raise, Leave, ThreadPC, Busy, Finished
    <3>3. \A q \in Phase, v \in Worker : q # p \/ v # w =>
             tpc'[q][v] = tpc[q][v] /\ tseq'[q][v] = tseq[q][v]
      <4>1. \A q \in Phase, v \in Worker : q # p \/ v # w => tseq'[q][v] = tseq[q][v]
        <5>1. tseq' = tseq \/ tseq' = [tseq EXCEPT ![p][w] = sequence[p]]
          BY <2>3 DEF Poll, Claim, Enter, Raise, Leave
        <5>2. tseq \in [Phase -> [Worker -> Nat]]
          BY DEF TypeOK
        <5> QED BY ONLY <5>1, <5>2
      <4>2. \A q \in Phase, v \in Worker : q # p \/ v # w => tpc'[q][v] = tpc[q][v]
        BY <1>1, WorkerFrame
      <4> QED BY <4>1, <4>2
    <3>4. \A q \in Phase, v \in Worker :
             /\ tpc'[q][v] = "emit" <=> tpc[q][v] = "emit"
             /\ tpc[q][v] = "emit" => tseq'[q][v] = tseq[q][v]
      BY <3>2, <3>3
    <3>5. (Published' <=> Published) /\ (pc' \notin Closing => pc \notin Closing)
      BY <3>1 DEF Published
    <3> QED BY <1>0, <3>1, <3>4, <3>5, EvidenceFrame
  <2> QED BY <1>1, <2>1, <2>2, <2>3 DEF WorkerStep
<1>2. CASE MainStep
  <2>1. CASE CloseWriter   BY <2>1, CloseKeepsEvidence
  <2>2. CASE StartPhase
    <3>1. /\ UNCHANGED <<queue, raw, wstate, samples, verdict, tseq>>
          /\ pc \notin Closing /\ ~ Published'
      BY <2>2 DEF StartPhase, writerVars, Closing, Published
    <3>2. \A q \in Phase, v \in Worker : tpc'[q][v] = "emit" <=> tpc[q][v] = "emit"
      BY <2>2, StartEffect
    <3> QED BY <3>1, <3>2, EvidenceFrame
  <2>3. CASE Await \/ WatchdogFires \/ Summarise
    <3>1. UNCHANGED <<queue, raw, wstate, samples, tpc, tseq>> /\ pc \notin Closing /\ ~ Published'
      BY <2>3 DEF Await, WatchdogFires, Decide, Summarise, threadVars, writerVars, Closing, Published
    <3> QED BY <3>1, EvidenceFrame
  <2>4. CASE AbortDatabase
    <3>1. UNCHANGED <<queue, raw, wstate, samples, tpc, tseq, verdict>> /\ pc \notin Closing /\ ~ Published'
      BY <2>4 DEF AbortDatabase, threadVars, writerVars, Closing, Published
    <3> QED BY <3>1, EvidenceFrame
  <2>5. CASE JoinWriter \/ JoinTimesOut \/ Exit
    <3>1. /\ UNCHANGED <<queue, raw, wstate, samples, tpc, tseq, verdict>>
          /\ pc' \in Closing /\ (Published' => wstate = "exited")
      BY <1>0, <2>5 DEF JoinWriter, JoinTimesOut, Exit, threadVars, writerVars, Closing, Published
    <3> QED BY <3>1, EvidenceFrame
  <2> QED BY <1>2, <2>1, <2>2, <2>3, <2>4, <2>5 DEF MainStep
<1>3. CASE WriterTakes BY <1>3, TakeKeepsEvidence
<1>4. CASE WriterFails
  <2>1. /\ UNCHANGED <<queue, raw, samples, tpc, tseq, verdict, pc>>
        /\ wstate = "run" /\ wstate' = "failed"
    BY <1>4 DEF WriterFails, threadVars, phaseVars
  <2>2. Queued' = Queued /\ \A q \in Phase, v \in Worker : Sample(q, v)' = Sample(q, v)
    BY <2>1 DEF Queued, Sample
  <2>3. OnlySamples'
    BY <2>1, <2>2 DEF Evidence, OnlySamples
  <2>4. NothingDropped'
    BY <2>1 DEF NothingDropped
  <2>5. SentinelIsLast'
    BY <2>1, <2>2 DEF Evidence, SentinelIsLast, Published
  <2> QED BY <2>3, <2>4, <2>5 DEF Evidence
<1>5. CASE Tick \/ Ended \/ UNCHANGED vars
  <2>1. UNCHANGED <<queue, raw, wstate, samples, tpc, tseq, verdict, pc>>
    BY <1>5 DEF Tick, Ended, vars, threadVars, writerVars
  <2> QED BY <1>0, <2>1, EvidenceFrame DEF Published
<1> QED BY <1>1, <1>2, <1>3, <1>4, <1>5 DEF Next, WriterStep

-----------------------------------------------------------------------------
(* The inductive invariant and what follows from it.                       *)

LEMMA IInvInit == Init => IInv
<1> SUFFICES ASSUME Init PROVE IInv
  OBVIOUS
<1>1. TypeOK
  BY TypeInit
<1>2. Counting
  BY DEF Init, Counting, Accounted, Bounded, Unique, Holds
<1>3. InOrder /\ OkIsOver
  BY LevelsAssumption DEF Init, InOrder, OkIsOver
<1>4. RowsAreOfOkPhases /\ ReportedOnce
  BY DEF Init, RowsAreOfOkPhases, ReportedOnce, Complete, NoRow
<1>5. Evidence
  BY DEF Init, Evidence, OnlySamples, NothingDropped, SentinelIsLast, Queued, Published
<1> QED BY <1>1, <1>2, <1>3, <1>4, <1>5 DEF IInv, Counting, Evidence

LEMMA IInvNext == IInv /\ [Next]_vars => IInv'
BY TypeNext, OrderNext, OkIsOverNext, CountingNext, RowsNext, ReportedOnceNext, EvidenceNext
   DEF IInv, Counting, Evidence

\* The inductive invariant holds in every behaviour of the stage.
THEOREM Invariance == Spec => []IInv
<1>1. Init => IInv
  BY IInvInit
<1>2. IInv /\ [Next]_vars => IInv'
  BY IInvNext
<1> QED BY <1>1, <1>2, PTL DEF Spec

\* Every variable keeps its type.
THEOREM TypeCorrect == Spec => []TypeOK
<1>1. IInv => TypeOK
  BY DEF IInv
<1> QED BY <1>1, Invariance, PTL

\* With every number accounted for by a sample or a holder, and no holder left
\* in a phase that returned ok, nothing is missing.
LEMMA OkSamples ==
    ASSUME IInv, NEW p \in Phase, verdict[p] = "ok"
    PROVE  {r.seq : r \in samples[p]} = 0..(sequence[p] - 1)
<1>1. \A w \in Worker : ~ Holds(p, w)
  BY DEF IInv, OkIsOver, Holds
<1>2. \A n \in 0..(sequence[p] - 1) : \E r \in samples[p] : r.seq = n
  BY <1>1 DEF IInv, Accounted
<1>3. ASSUME NEW r \in samples[p] PROVE r.seq \in 0..(sequence[p] - 1)
  <2>1. r.seq < sequence[p] /\ r \in Record
    BY RecordsTyped DEF IInv, Bounded
  <2>2. r.seq \in Nat
    BY <2>1 DEF Record
  <2>3. sequence[p] \in Nat
    BY DEF IInv, TypeOK
  <2> QED BY <2>1, <2>2, <2>3
<1> QED BY <1>2, <1>3

\* Complete rows hold the samples 0, 1, ... up to the counter, each once.
THEOREM Contiguous == Spec => []AttemptsAreContiguous
<1>1. IInv => AttemptsAreContiguous
  <2> SUFFICES ASSUME IInv, NEW l \in Level, Complete(l)
               PROVE  /\ {r.seq : r \in rows[l].samples} = 0..(sequence[2 * l] - 1)
                      /\ \A r, s \in rows[l].samples : r.seq = s.seq => r = s
    BY DEF AttemptsAreContiguous
  <2>1. /\ 2 * l \in Phase /\ verdict[2 * l] = "ok" /\ rows[l].samples = samples[2 * l]
    BY PhaseArithmetic DEF IInv, RowsAreOfOkPhases
  <2>2. {r.seq : r \in samples[2 * l]} = 0..(sequence[2 * l] - 1)
    BY <2>1, OkSamples
  <2> QED BY <2>1, <2>2 DEF IInv, Unique
<1> QED BY <1>1, Invariance, PTL

\* Once the writer has taken the sentinel, the lines of an ok phase are its
\* samples: whatever is left in the queue belongs to phases that failed.
LEMMA OkEvidence ==
    ASSUME IInv, wstate = "exited", NEW p \in Phase, verdict[p] = "ok"
    PROVE  {r \in raw : r.phase = p} = samples[p]
<1>1. ASSUME NEW r \in raw, r.phase = p PROVE r \in samples[p]
  BY <1>1 DEF IInv, OnlySamples
<1>2. ASSUME NEW r \in samples[p] PROVE r \in raw /\ r.phase = p
  <2>1. r.phase = p /\ r \in Record /\ r # Sentinel /\ r.worker \in Worker
    BY RecordsTyped, SentinelIsNoRecord DEF IInv, Bounded
  <2>2. r \notin Queued
    BY <2>1 DEF IInv, SentinelIsLast, Queued
  <2>3. tpc[p][r.worker] # "emit"
    BY <2>1 DEF IInv, OkIsOver
  <2> QED BY <2>1, <2>2, <2>3 DEF IInv, NothingDropped
<1> QED BY <1>1, <1>2

\* When the stage returns, the raw lines of a complete level are exactly the
\* samples of its row: the sentinel follows all of them through the queue, and
\* the stage returns only after the writer has taken the sentinel.
THEOREM WholeEvidence == Spec => []PublishedRowsHaveEvidence
<1>1. IInv => PublishedRowsHaveEvidence
  BY OkEvidence, PhaseArithmetic
     DEF IInv, PublishedRowsHaveEvidence, RowsAreOfOkPhases, SentinelIsLast
<1> QED BY <1>1, Invariance, PTL

-----------------------------------------------------------------------------
(* The counters of a phase: the in-flight counter, the mix of reads and     *)
(* writes, and the stillness of a phase that returned ok.                  *)

\* A phase that returned ok is never touched again: all its workers have
\* ended, and the main thread decides each phase once.
THEOREM Quiet == Spec => DecidedPhaseIsQuiet
<1>1. IInv /\ [Next]_vars => [LeavesDecidedAlone]_vars
  <2> SUFFICES ASSUME IInv, Next, NEW q \in Phase, verdict[q] = "ok"
               PROVE  /\ samples'[q] = samples[q] /\ sequence'[q] = sequence[q]
                      /\ current'[q] = current[q] /\ maximum'[q] = maximum[q]
                      /\ verdict'[q] = "ok"
    BY DEF LeavesDecidedAlone
  <2>0. TypeOK
    BY DEF IInv
  <2>1. ASSUME NEW p \in Phase, NEW w \in Worker, WorkerStep(p, w)
        PROVE  /\ samples'[q] = samples[q] /\ sequence'[q] = sequence[q]
               /\ current'[q] = current[q] /\ maximum'[q] = maximum[q]
               /\ verdict'[q] = "ok"
    <3>1. UNCHANGED verdict /\ p # q
      BY <2>0, <2>1, WorkerFrame DEF phaseVars, Finished, IInv, OkIsOver
    <3>2. sequence'[q] = sequence[q]
      BY <2>0, <2>1, <3>1 DEF WorkerStep, Poll, Claim, Enter, Raise, Collect, Emit, Leave, TypeOK
    <3>3. samples'[q] = samples[q]
      BY <2>0, <2>1, <3>1 DEF WorkerStep, Poll, Claim, Enter, Raise, Collect, Emit, Leave, TypeOK
    <3>4. current'[q] = current[q]
      BY <2>0, <2>1, <3>1 DEF WorkerStep, Poll, Claim, Enter, Raise, Collect, Emit, Leave, TypeOK
    <3>5. maximum'[q] = maximum[q]
      BY <2>0, <2>1, <3>1 DEF WorkerStep, Poll, Claim, Enter, Raise, Collect, Emit, Leave, TypeOK
    <3> QED BY <3>1, <3>2, <3>3, <3>4, <3>5
  <2>2. ASSUME NEW v, Decide(v), pc = "wait"
        PROVE  UNCHANGED threadVars /\ verdict'[q] = "ok"
    <3>1. q # phase
      BY <2>2 DEF IInv, InOrder
    <3> QED BY <2>0, <2>2, <3>1 DEF Decide, TypeOK
  <2>3. CASE \/ StartPhase \/ Summarise \/ AbortDatabase \/ CloseWriter \/ JoinWriter
             \/ JoinTimesOut \/ Exit \/ Tick \/ WriterStep \/ Ended
    BY <2>3 DEF StartPhase, Summarise, AbortDatabase, CloseWriter, JoinWriter, JoinTimesOut, Exit,
       Tick, WriterStep, WriterTakes, WriterFails, Ended, vars, threadVars, phaseVars
  <2> QED BY <2>1, <2>2, <2>3 DEF Next, MainStep, Await, WatchdogFires, threadVars
<1> QED BY <1>1, Invariance, PTL DEF Spec, DecidedPhaseIsQuiet

-----------------------------------------------------------------------------
(* Four reads to one write.                                                *)

Writes(n) == {k \in 0..(n - 1) : k % 5 = 4}
Reads(n)  == {k \in 0..(n - 1) : IsRead(k)}

LEMMA WritesCount ==
    ASSUME NEW n \in Nat
    PROVE  IsFiniteSet(Writes(n)) /\ Cardinality(Writes(n)) = n \div 5
<1> DEFINE J == 0..((n \div 5) - 1)
           f == [j \in J |-> 5 * j + 4]
<1>1. n \div 5 \in Nat /\ 5 * (n \div 5) <= n /\ n < 5 * (n \div 5) + 5
  OBVIOUS
<1>2. IsFiniteSet(J) /\ Cardinality(J) = n \div 5
  BY <1>1, FS_Interval
<1>3. \A j \in J : 5 * j + 4 \in Writes(n)
  BY <1>1 DEF Writes
<1>4. \A k \in Writes(n) : k \div 5 \in J /\ k = 5 * (k \div 5) + 4
  BY <1>1 DEF Writes
<1>5. f \in [J -> Writes(n)] /\ \A i, j \in J : f[i] = f[j] => i = j
  BY <1>3
<1>6. \A k \in Writes(n) : \E j \in J : f[j] = k
  BY <1>4
<1>7. f \in Bijection(J, Writes(n))
  BY <1>5, <1>6 DEF Bijection, Injection, Surjection, IsInjective
<1>8. ExistsBijection(J, Writes(n))
  BY <1>7 DEF ExistsBijection
<1> QED BY <1>2, <1>8, FS_Bijection

LEMMA ReadsCount ==
    ASSUME NEW n \in Nat
    PROVE  IsFiniteSet(Reads(n)) /\ Cardinality(Reads(n)) = n - n \div 5
<1>1. IsFiniteSet(0..(n - 1)) /\ Cardinality(0..(n - 1)) = n
  BY FS_Interval
<1>2. IsFiniteSet(Reads(n)) /\ Cardinality(Reads(n)) \in Nat
  BY <1>1, FS_Subset, FS_CardinalityType DEF Reads
<1>3. \A k \in 0..(n - 1) : (k % 5 < 4) <=> ~ (k % 5 = 4)
  OBVIOUS
<1>4. Reads(n) \cup Writes(n) = 0..(n - 1) /\ Reads(n) \cap Writes(n) = {}
  BY <1>3 DEF Reads, Writes, IsRead
<1>5. /\ IsFiniteSet(Writes(n)) /\ Cardinality(Writes(n)) = n \div 5
  BY WritesCount
<1>6. n = Cardinality(Reads(n)) + n \div 5 - Cardinality({})
  BY <1>1, <1>2, <1>4, <1>5, FS_Union
<1>7. Cardinality({}) = 0
  BY FS_EmptySet
<1> QED BY <1>2, <1>6, <1>7

\* The samples of a contiguous phase, and the reads among them, are as many as
\* their sequence numbers.
LEMMA CountBySeq ==
    ASSUME NEW S, NEW N, IsFiniteSet(N),
           {r.seq : r \in S} = N, \A r, s \in S : r.seq = s.seq => r = s
    PROVE  IsFiniteSet(S) /\ Cardinality(S) = Cardinality(N)
<1> DEFINE f == [r \in S |-> r.seq]
<1>1. f \in Bijection(S, N)
  BY DEF Bijection, Injection, Surjection, IsInjective
<1>2. ExistsBijection(N, S)
  BY <1>1, Fun_ExistsBijSymmetric DEF ExistsBijection
<1> QED BY <1>2, FS_Bijection

\* A complete level has the advertised mix: its numbers are 0 to n-1, of which
\* n \div 5 are writes.
THEOREM Mix == Spec => []FourReadsToOneWrite
<1>1. TypeOK /\ AttemptsAreContiguous => FourReadsToOneWrite
  <2> SUFFICES ASSUME TypeOK, AttemptsAreContiguous, NEW l \in Level, Complete(l)
               PROVE  5 * Cardinality({r \in rows[l].samples : IsRead(r.seq)})
                        - 4 * Cardinality(rows[l].samples) \in -5..5
    BY DEF FourReadsToOneWrite
  <2> DEFINE S == rows[l].samples
             n == sequence[2 * l]
             R == {r \in S : IsRead(r.seq)}
  <2>1. n \in Nat
    BY PhaseArithmetic DEF TypeOK
  <2>2. {r.seq : r \in S} = 0..(n - 1) /\ \A r, s \in S : r.seq = s.seq => r = s
    BY DEF AttemptsAreContiguous
  <2> HIDE DEF n, S
  <2>3. Cardinality(S) = n
    <3>1. IsFiniteSet(0..(n - 1)) /\ Cardinality(0..(n - 1)) = n
      BY <2>1, FS_Interval
    <3> QED BY <2>2, <3>1, CountBySeq
  <2>4. Cardinality(R) = n - n \div 5
    <3>1. {r.seq : r \in R} = Reads(n) /\ \A r, s \in R : r.seq = s.seq => r = s
      BY <2>2 DEF Reads
    <3> HIDE DEF R
    <3> QED BY <2>1, <3>1, ReadsCount, CountBySeq
  <2>5. 5 * (n - n \div 5) - 4 * n \in -5..5
    BY <2>1
  <2> QED BY <2>3, <2>4, <2>5 DEF S
<1> QED BY <1>1, TypeCorrect, Contiguous, PTL

-----------------------------------------------------------------------------
(* The in-flight counter.                                                  *)

\* Workers outside a phase's pool never start.
PoolOnly == \A p \in Phase, w \in Worker : w \notin Pool(p) => tpc[p][w] = "idle"

InFlightInv == TypeOK /\ InOrder /\ PoolOnly /\ InFlightIsExact

LEMMA PoolSize ==
    ASSUME NEW p \in Phase
    PROVE  /\ IsFiniteSet(Pool(p)) /\ Cardinality(Pool(p)) = Concurrency[LevelOf(p)]
           /\ Concurrency[LevelOf(p)] \in Nat
<1>1. Concurrency[LevelOf(p)] \in Nat \ {0}
  BY PhaseArithmetic, ConcurrencyAssumption DEF Level
<1> QED BY <1>1, FS_Interval DEF Pool

LEMMA InFlightBound ==
    ASSUME PoolOnly, NEW p \in Phase
    PROVE  /\ IsFiniteSet(InFlight(p)) /\ Cardinality(InFlight(p)) \in Nat
           /\ Cardinality(InFlight(p)) <= Concurrency[LevelOf(p)]
<1>1. InFlight(p) \in SUBSET Pool(p)
  BY DEF InFlight, PoolOnly, Busy
<1> QED BY <1>1, PoolSize, FS_Subset, FS_CardinalityType

LEMMA PoolNext == TypeOK /\ InOrder /\ PoolOnly /\ [Next]_vars => PoolOnly'
<1> SUFFICES ASSUME TypeOK, InOrder, PoolOnly, [Next]_vars,
                    NEW q \in Phase, NEW v \in Worker, v \notin Pool(q)
             PROVE  tpc'[q][v] = "idle"
  BY DEF PoolOnly, Pool
<1>0. tpc[q][v] = "idle"
  BY DEF PoolOnly
<1>1. ASSUME NEW p \in Phase, NEW w \in Worker, WorkerStep(p, w) PROVE tpc'[q][v] = "idle"
  BY <1>0, <1>1, WorkerFrame DEF Finished
<1>2. CASE StartPhase
  <2>1. CASE q = phase + 1
    <3>1. tpc' = [tpc EXCEPT ![phase + 1] =
                   [w \in Worker |-> IF w \in Pool(phase + 1) THEN "poll" ELSE "idle"]]
      BY <1>2 DEF StartPhase
    <3> QED BY <3>1, <2>1 DEF TypeOK
  <2>2. CASE q # phase + 1
    BY <1>0, <1>2, <2>2, StartEffect
  <2> QED BY <2>1, <2>2
<1>3. CASE UNCHANGED tpc
  BY <1>0, <1>3
<1> QED BY <1>1, <1>2, <1>3, MainFrame DEF Next, Tick, WriterStep, WriterTakes, WriterFails,
           Ended, vars, threadVars

\* Steps that leave the counters and every worker's side of the try block alone.
LEMMA InFlightFrame ==
    ASSUME InFlightIsExact, UNCHANGED <<current, maximum>>,
           \A q \in Phase, v \in Worker : tpc'[q][v] \in Busy <=> tpc[q][v] \in Busy
    PROVE  InFlightIsExact'
<1>1. \A q \in Phase : InFlight(q)' = InFlight(q)
  BY DEF InFlight
<1> QED BY <1>1 DEF InFlightIsExact

LEMMA EnterIsExact ==
    ASSUME InFlightInv, PoolOnly', NEW p \in Phase, NEW w \in Worker, Enter(p, w)
    PROVE  InFlightIsExact'
<1> USE DEF InFlightInv
<1>1. /\ tpc[p][w] = "enter" /\ tpc'[p][w] = "op"
      /\ \A q \in Phase, v \in Worker : q # p \/ v # w => tpc'[q][v] = tpc[q][v]
  BY GotoEffect DEF Enter, ThreadPC, Busy
<1>2. InFlight(p)' = InFlight(p) \cup {w} /\ w \notin InFlight(p)
  BY <1>1 DEF InFlight, Busy
<1>3. /\ IsFiniteSet(InFlight(p)) /\ Cardinality(InFlight(p)) \in Nat
      /\ Cardinality(InFlight(p)') = Cardinality(InFlight(p)) + 1
  BY <1>2, InFlightBound, FS_AddElement
<1>4. Cardinality(InFlight(p)') <= Concurrency[LevelOf(p)]
  <2>1. InFlight(p)' \in SUBSET Pool(p)
    BY DEF InFlight, PoolOnly, Busy, Pool
  <2> QED BY <2>1, PoolSize, FS_Subset, FS_CardinalityType
<1>5. current[p] = Cardinality(InFlight(p)) /\ maximum[p] <= Concurrency[LevelOf(p)] /\ maximum[p] \in Nat
  BY DEF InFlightIsExact, TypeOK
<1>6. /\ current'[p] = current[p] + 1
      /\ maximum'[p] = IF maximum[p] < current[p] + 1 THEN current[p] + 1 ELSE maximum[p]
      /\ \A q \in Phase : q # p => current'[q] = current[q] /\ maximum'[q] = maximum[q]
  <2>1. current \in [Phase -> Int] /\ maximum \in [Phase -> Nat]
    BY DEF TypeOK
  <2> QED BY <2>1 DEF Enter
<1>7. /\ current'[p] = Cardinality(InFlight(p)') /\ current'[p] <= maximum'[p]
      /\ maximum'[p] <= Concurrency[LevelOf(p)]
  <2>1. Concurrency[LevelOf(p)] \in Nat
    BY PoolSize
  <2>2. current'[p] = Cardinality(InFlight(p)') /\ current'[p] \in Nat
    BY <1>3, <1>5, <1>6
  <2>3. CASE maximum[p] < current[p] + 1
    BY <2>1, <2>2, <2>3, <1>4, <1>6
  <2>4. CASE ~ (maximum[p] < current[p] + 1)
    BY <2>1, <2>2, <2>4, <1>3, <1>5, <1>6
  <2> QED BY <2>2, <2>3, <2>4
<1>8. ASSUME NEW q \in Phase, q # p
      PROVE  /\ current'[q] = Cardinality(InFlight(q)')
             /\ current'[q] <= maximum'[q] \/ current'[q] = 0
             /\ maximum'[q] <= Concurrency[LevelOf(q)]
  <2>1. InFlight(q)' = InFlight(q)
    BY <1>1, <1>8 DEF InFlight
  <2> QED BY <2>1, <1>6, <1>8 DEF InFlightIsExact
<1> QED BY <1>7, <1>8 DEF InFlightIsExact

LEMMA LeaveIsExact ==
    ASSUME InFlightInv, NEW p \in Phase, NEW w \in Worker, Leave(p, w)
    PROVE  InFlightIsExact'
<1> USE DEF InFlightInv
<1>1. /\ tpc[p][w] \in {"leave", "unwind"} /\ tpc'[p][w] \in {"poll", "raised"}
      /\ \A q \in Phase, v \in Worker : q # p \/ v # w => tpc'[q][v] = tpc[q][v]
  BY GotoEffect DEF Leave, ThreadPC, Busy, Finished
<1>2. InFlight(p)' = InFlight(p) \ {w} /\ w \in InFlight(p)
  BY <1>1 DEF InFlight, Busy
<1>3. /\ IsFiniteSet(InFlight(p)) /\ Cardinality(InFlight(p)) \in Nat
      /\ Cardinality(InFlight(p)') = Cardinality(InFlight(p)) - 1
  BY <1>2, InFlightBound, FS_RemoveElement
<1>4. /\ current[p] = Cardinality(InFlight(p)) /\ maximum[p] \in Nat
      /\ current[p] <= maximum[p] \/ current[p] = 0
      /\ maximum[p] <= Concurrency[LevelOf(p)]
  BY DEF InFlightIsExact, TypeOK
<1>5. /\ current'[p] = current[p] - 1 /\ UNCHANGED maximum
      /\ \A q \in Phase : q # p => current'[q] = current[q]
  <2>1. current \in [Phase -> Int]
    BY DEF TypeOK
  <2> QED BY <2>1 DEF Leave
<1>6. Cardinality(InFlight(p)) # 0
  BY <1>2, <1>3, FS_EmptySet
<1>7. current'[p] = Cardinality(InFlight(p)') /\ current'[p] <= maximum'[p]
  BY <1>3, <1>4, <1>5, <1>6
<1>8. ASSUME NEW q \in Phase, q # p
      PROVE  /\ current'[q] = Cardinality(InFlight(q)')
             /\ current'[q] <= maximum'[q] \/ current'[q] = 0
             /\ maximum'[q] <= Concurrency[LevelOf(q)]
  <2>1. InFlight(q)' = InFlight(q)
    BY <1>1, <1>8 DEF InFlight
  <2> QED BY <2>1, <1>5, <1>8 DEF InFlightIsExact
<1> QED BY <1>4, <1>5, <1>7, <1>8 DEF InFlightIsExact

LEMMA InFlightNext == InFlightInv /\ [Next]_vars => InFlightInv'
<1> SUFFICES ASSUME InFlightInv, [Next]_vars PROVE InFlightInv'
  OBVIOUS
<1>0. TypeOK /\ InOrder /\ PoolOnly /\ InFlightIsExact
  BY DEF InFlightInv
<1>1. TypeOK' /\ InOrder' /\ PoolOnly'
  BY <1>0, TypeNext, OrderNext, PoolNext
<1>2. ASSUME NEW p \in Phase, NEW w \in Worker, WorkerStep(p, w) PROVE InFlightIsExact'
  <2>1. CASE Enter(p, w) BY <2>1, <1>1, EnterIsExact
  <2>2. CASE Leave(p, w) BY <2>2, LeaveIsExact
  <2>3. CASE Poll(p, w) \/ Claim(p, w) \/ Raise(p, w) \/ Collect(p, w) \/ Emit(p, w)
    <3>1. UNCHANGED <<current, maximum>>
      BY <2>3 DEF Poll, Claim, Raise, Collect, Emit
    <3>2. tpc'[p][w] \in Busy <=> tpc[p][w] \in Busy
      BY <1>0, <2>3, GotoEffect DEF Poll, Claim, Raise, Collect, Emit, ThreadPC, Busy, Finished
    <3>3. \A q \in Phase, v \in Worker : q # p \/ v # w => tpc'[q][v] = tpc[q][v]
      BY <1>0, <1>2, WorkerFrame
    <3> QED BY <1>0, <3>1, <3>2, <3>3, InFlightFrame
  <2> QED BY <1>2, <2>1, <2>2, <2>3 DEF WorkerStep
<1>3. ASSUME StartPhase PROVE InFlightIsExact'
  <2>1. \A q \in Phase, v \in Worker : tpc'[q][v] \in Busy <=> tpc[q][v] \in Busy
    BY <1>0, <1>3, StartEffect DEF Busy
  <2>2. UNCHANGED <<current, maximum>>
    BY <1>3 DEF StartPhase
  <2> QED BY <1>0, <2>1, <2>2, InFlightFrame
<1>4. ASSUME UNCHANGED threadVars PROVE InFlightIsExact'
  <2>1. UNCHANGED <<current, maximum, tpc>>
    BY <1>4 DEF threadVars
  <2>2. \A q \in Phase, v \in Worker : tpc'[q][v] \in Busy <=> tpc[q][v] \in Busy
    BY <2>1
  <2> QED BY <1>0, <2>1, <2>2, InFlightFrame
<1>5. InFlightIsExact'
  <2>1. CASE MainStep
    BY <2>1, <1>3, <1>4, MainFrame
  <2>2. CASE Tick \/ WriterStep \/ Ended \/ UNCHANGED vars
    <3>1. UNCHANGED threadVars
      BY <2>2 DEF Tick, WriterStep, WriterTakes, WriterFails, Ended, vars, threadVars
    <3> QED BY <3>1, <1>4
  <2> QED BY <1>2, <2>1, <2>2 DEF Next
<1> QED BY <1>1, <1>5 DEF InFlightInv

\* The in-flight counter counts the workers inside the try block, and its
\* high-water mark stays within the pool, because only pool workers ever start.
THEOREM InFlightCorrect == Spec => []InFlightIsExact
<1>1. Init => InFlightInv
  <2> SUFFICES ASSUME Init PROVE InFlightInv
    OBVIOUS
  <2>1. TypeOK /\ InOrder
    BY IInvInit DEF IInv
  <2>2. PoolOnly
    BY DEF Init, PoolOnly
  <2>3. \A p \in Phase : InFlight(p) = {}
    BY DEF Init, InFlight, Busy
  <2>4. InFlightIsExact
    <3> SUFFICES ASSUME NEW p \in Phase
                 PROVE  /\ current[p] = Cardinality(InFlight(p)) /\ current[p] = 0
                        /\ maximum[p] <= Concurrency[LevelOf(p)]
      BY DEF InFlightIsExact
    <3>1. current[p] = 0 /\ maximum[p] = 0
      BY DEF Init
    <3>2. Cardinality(InFlight(p)) = 0
      BY <2>3, FS_EmptySet
    <3> QED BY <3>1, <3>2, PoolSize
  <2> QED BY <2>1, <2>2, <2>4 DEF InFlightInv
<1>2. InFlightInv => InFlightIsExact
  BY DEF InFlightInv
<1> QED BY <1>1, <1>2, InFlightNext, PTL DEF Spec

-----------------------------------------------------------------------------
(* The threaded stage implements OperationLedger.                          *)

LEMMA CompletedIsOk ==
    ASSUME IInv, NEW p \in completed
    PROVE  p \in Phase /\ verdict[p] = "ok"
BY PhaseArithmetic DEF IInv, completed, RowsAreOfOkPhases

\* A worker that still has something to do is in no completed phase.
LEMMA BusyIsOpen ==
    ASSUME IInv, NEW p \in Phase, NEW w \in Worker, tpc[p][w] \notin {"idle", "done"}
    PROVE  p \notin completed
BY CompletedIsOk DEF IInv, OkIsOver

LEMMA InitMaps == Init => Ledger!Init
<1> SUFFICES ASSUME Init PROVE Ledger!Init
  OBVIOUS
<1>1. sequence = [p \in Phase |-> 0] /\ raw = {} /\ samples = [p \in Phase |-> {}]
  BY DEF Init
<1>2. recordedSeqs = [p \in Phase |-> {}] /\ writtenSeqs = [p \in Phase |-> {}]
  BY <1>1 DEF recordedSeqs, writtenSeqs
<1>3. completed = {} /\ ~ Published
  BY PhaseArithmetic DEF Init, completed, Complete, NoRow, Published
<1> QED BY <1>1, <1>2, <1>3 DEF Ledger!Init

LEMMA ClaimMaps ==
    ASSUME IInv, NEW p \in Phase, NEW w \in Worker, Claim(p, w)
    PROVE  Ledger!Issue(p)
<1>1. p \notin completed
  BY BusyIsOpen DEF Claim
<1>2. UNCHANGED <<recordedSeqs, writtenSeqs, completed, Published>>
  BY DEF Claim, phaseVars, writerVars, recordedSeqs, writtenSeqs, completed, Complete, Published
<1>3. sequence' = [sequence EXCEPT ![p] = @ + 1]
  BY DEF Claim
<1> QED BY <1>1, <1>2, <1>3 DEF Ledger!Issue

LEMMA CollectMaps ==
    ASSUME IInv, NEW p \in Phase, NEW w \in Worker, Collect(p, w)
    PROVE  \E n \in 0..(sequence[p] - 1) : Ledger!Record(p, n)
<1>1. p \notin completed
  BY BusyIsOpen DEF Collect
<1>2. Holds(p, w)
  BY DEF Collect, Holds
<1>3. tseq[p][w] \in 0..(sequence[p] - 1)
  <2>1. tseq[p][w] < sequence[p]
    BY <1>2 DEF IInv, Bounded
  <2>2. tseq[p][w] \in Nat /\ sequence[p] \in Nat
    BY DEF IInv, TypeOK
  <2> QED BY <2>1, <2>2
<1>4. tseq[p][w] \notin recordedSeqs[p]
  BY <1>2 DEF IInv, Unique, recordedSeqs
<1>5. recordedSeqs' = [recordedSeqs EXCEPT ![p] = @ \cup {tseq[p][w]}]
  <2>1. /\ samples'[p] = samples[p] \cup {Sample(p, w)}
        /\ \A q \in Phase : q # p => samples'[q] = samples[q]
    BY DEF Collect, IInv, TypeOK
  <2>2. Sample(p, w).seq = tseq[p][w]
    BY DEF Sample
  <2>3. {r.seq : r \in samples'[p]} = {r.seq : r \in samples[p]} \cup {tseq[p][w]}
    BY <2>1, <2>2
  <2> QED BY <2>1, <2>3 DEF recordedSeqs
<1>6. UNCHANGED <<sequence, writtenSeqs, completed, Published>>
  BY DEF Collect, phaseVars, writerVars, writtenSeqs, completed, Complete, Published
<1>7. Ledger!Record(p, tseq[p][w])
  BY <1>1, <1>4, <1>5, <1>6 DEF Ledger!Record
<1> QED BY <1>3, <1>7

LEMMA TakeMaps ==
    ASSUME IInv, WriterTakes
    PROVE  \/ \E p \in Phase : \E n \in recordedSeqs[p] : Ledger!Persist(p, n)
           \/ UNCHANGED Ledger!vars
<1>1. UNCHANGED <<sequence, recordedSeqs, completed, Published>>
  BY DEF WriterTakes, phaseVars, threadVars, recordedSeqs, completed, Complete, Published
<1>2. CASE Head(queue) = Sentinel
  <2>1. UNCHANGED writtenSeqs
    BY <1>2 DEF WriterTakes, writtenSeqs
  <2> QED BY <1>1, <2>1 DEF Ledger!vars
<1>3. CASE Head(queue) # Sentinel
  <2> DEFINE h == Head(queue)
  <2>1. queue \in Seq(Item) /\ queue # <<>> /\ queue' = Tail(queue)
    BY DEF IInv, TypeOK, WriterTakes
  <2>2. h \in Queued
    BY <2>1, Taken
  <2>3. h \in samples[h.phase] /\ h.phase \in Phase
    BY <1>3, <2>2, RecordsTyped DEF IInv, OnlySamples
  <2>4. h.seq \in recordedSeqs[h.phase]
    BY <2>3 DEF recordedSeqs
  <2>5. raw' = raw \cup {h}
    BY <1>3 DEF WriterTakes
  <2> HIDE DEF h
  <2>6. writtenSeqs' = [writtenSeqs EXCEPT ![h.phase] = @ \cup {h.seq}]
    <3>1. \A p \in Phase : p # h.phase =>
             {x \in raw' : x.phase = p} = {x \in raw : x.phase = p}
      BY <2>5
    <3>2. {x \in raw' : x.phase = h.phase} = {x \in raw : x.phase = h.phase} \cup {h}
      BY <2>5
    <3>3. {r.seq : r \in {x \in raw' : x.phase = h.phase}}
             = {r.seq : r \in {x \in raw : x.phase = h.phase}} \cup {h.seq}
      BY <3>2
    <3> QED BY <2>3, <3>1, <3>3 DEF writtenSeqs
  <2>7. Ledger!Persist(h.phase, h.seq)
    BY <1>1, <2>6 DEF Ledger!Persist
  <2> QED BY <2>3, <2>4, <2>7
<1> QED BY <1>2, <1>3

LEMMA SummariseMaps ==
    ASSUME IInv, Summarise
    PROVE  (\E p \in Phase : Ledger!Commit(p)) \/ UNCHANGED Ledger!vars
<1>1. UNCHANGED <<sequence, recordedSeqs, writtenSeqs, Published>>
  BY DEF Summarise, threadVars, writerVars, recordedSeqs, writtenSeqs, Published
<1>2. phase \in Phase /\ phase = 2 * LevelOf(phase) /\ LevelOf(phase) \in Level
  BY PhaseArithmetic DEF Summarise, IInv, InOrder
<1>3. \A l \in Level : l # LevelOf(phase) => rows'[l] = rows[l]
  BY DEF Summarise, IInv, TypeOK
<1>4. \A p \in Phase : ~ IsWarmup(p) /\ p # phase => LevelOf(p) # LevelOf(phase)
  BY <1>2, PhaseArithmetic
<1>5. ~ IsWarmup(phase)
  BY <1>2, PhaseArithmetic DEF IsWarmup, Level
<1>6. ~ Complete(LevelOf(phase))
  BY <1>2 DEF IInv, ReportedOnce, Summarise
<1>7. phase \notin completed
  BY <1>6 DEF completed
<1>8. CASE ~ Complete(LevelOf(phase))'
  <2>1. UNCHANGED completed
    BY <1>3, <1>4, <1>6, <1>8, PhaseArithmetic DEF completed, Complete, Summarise
  <2> QED BY <1>1, <2>1 DEF Ledger!vars
<1>9. CASE Complete(LevelOf(phase))'
  <2>1. verdict[phase] = "ok"
    <3>1. IInv'
      BY IInvNext DEF Next, MainStep
    <3>2. verdict' = verdict /\ phase' = phase
      BY DEF Summarise
    <3>3. rows'[LevelOf(phase)].status = "complete"
      BY <1>9, <3>2 DEF Complete
    <3>4. RowsAreOfOkPhases'
      BY <3>1 DEF IInv
    <3>5. \A l \in Level : rows'[l].status = "complete" => verdict'[2 * l] = "ok"
      BY <3>4 DEF RowsAreOfOkPhases, Complete
    <3> QED BY <1>2, <3>2, <3>3, <3>5
  <2>2. recordedSeqs[phase] = 0..(sequence[phase] - 1)
    BY <1>2, <2>1, OkSamples DEF recordedSeqs
  <2>3. completed' = completed \cup {phase}
    BY <1>2, <1>3, <1>4, <1>5, <1>9, PhaseArithmetic DEF completed, Complete, Summarise
  <2>4. Ledger!Commit(phase)
    BY <1>1, <2>2, <2>3 DEF Ledger!Commit
  <2> QED BY <1>2, <2>4
<1> QED BY <1>8, <1>9

LEMMA JoinMaps ==
    ASSUME IInv, JoinWriter
    PROVE  Ledger!Publish \/ UNCHANGED Ledger!vars
<1>1. UNCHANGED <<sequence, recordedSeqs, writtenSeqs, completed>> /\ ~ Published
  BY DEF JoinWriter, threadVars, writerVars, recordedSeqs, writtenSeqs, completed, Complete, Published
<1>2. CASE wstate = "exited"
  <2>1. Published'
    BY <1>2 DEF JoinWriter, Published
  <2>2. ASSUME NEW p \in completed PROVE writtenSeqs[p] = recordedSeqs[p]
    <3>1. p \in Phase /\ {r \in raw : r.phase = p} = samples[p]
      BY <1>2, CompletedIsOk, OkEvidence
    <3> QED BY <3>1 DEF writtenSeqs, recordedSeqs
  <2> QED BY <1>1, <2>1, <2>2 DEF Ledger!Publish, Published
<1>3. CASE wstate # "exited"
  <2>1. UNCHANGED Published
    BY <1>3 DEF JoinWriter, Published
  <2> QED BY <1>1, <2>1 DEF Ledger!vars
<1> QED BY <1>2, <1>3

LEMMA StepMaps == IInv /\ [Next]_vars => [Ledger!Next]_(Ledger!vars)
<1> SUFFICES ASSUME IInv, [Next]_vars PROVE Ledger!Next \/ UNCHANGED Ledger!vars
  OBVIOUS
<1>1. ASSUME UNCHANGED <<sequence, samples, raw, rows, Published>> PROVE UNCHANGED Ledger!vars
  BY <1>1 DEF Ledger!vars, recordedSeqs, writtenSeqs, completed, Complete
<1>2. ASSUME NEW p \in Phase, NEW w \in Worker, WorkerStep(p, w)
      PROVE  Ledger!Next \/ UNCHANGED Ledger!vars
  <2>1. CASE Claim(p, w)   BY <2>1, ClaimMaps DEF Ledger!Next
  <2>2. CASE Collect(p, w) BY <2>2, CollectMaps DEF Ledger!Next
  <2>3. CASE Poll(p, w) \/ Enter(p, w) \/ Raise(p, w) \/ Emit(p, w) \/ Leave(p, w)
    BY <1>1, <2>3 DEF Poll, Enter, Raise, Emit, Leave, phaseVars, writerVars, Published
  <2> QED BY <1>2, <2>1, <2>2, <2>3 DEF WorkerStep
<1>3. CASE MainStep
  <2>1. CASE Summarise  BY <2>1, SummariseMaps DEF Ledger!Next
  <2>2. CASE JoinWriter BY <2>2, JoinMaps DEF Ledger!Next
  <2>3. CASE AbortDatabase
    <3>1. UNCHANGED <<sequence, recordedSeqs, writtenSeqs>>
      BY <2>3 DEF AbortDatabase, threadVars, writerVars, recordedSeqs, writtenSeqs
    <3>2. ~ Published /\ ~ Published'
      BY <2>3 DEF AbortDatabase, Published
    <3>4. \A l \in Level : rows'[l].status = "complete" <=> rows[l].status = "complete"
      BY <2>3 DEF AbortDatabase, FailedRow
    <3>5. \A p \in Phase : LevelOf(p) \in Level
      BY PhaseArithmetic
    <3>6. UNCHANGED completed
      BY <3>4, <3>5 DEF completed, Complete
    <3>3. UNCHANGED Published
      BY <3>2 DEF Published
    <3> QED BY <3>1, <3>6, <3>3 DEF Ledger!vars
  <2>4. CASE StartPhase \/ Await \/ WatchdogFires \/ CloseWriter \/ JoinTimesOut \/ Exit
    <3>1. UNCHANGED <<sequence, samples, raw, rows>>
      BY <2>4 DEF StartPhase, Await, WatchdogFires, Decide, CloseWriter, JoinTimesOut, Exit,
         threadVars, writerVars
    <3>2. Published' <=> Published
      <4>1. CASE Exit
        BY <4>1 DEF Exit, Published
      <4>2. CASE StartPhase \/ CloseWriter \/ JoinTimesOut
        BY <4>2 DEF StartPhase, CloseWriter, JoinTimesOut, Published
      <4>3. CASE Await \/ WatchdogFires
        BY <4>3 DEF Await, WatchdogFires, Decide, Published
      <4> QED BY <2>4, <4>1, <4>2, <4>3
    <3>3. UNCHANGED Published
      BY <3>2 DEF Published
    <3> QED BY <1>1, <3>1, <3>3
  <2> QED BY <1>3, <2>1, <2>2, <2>3, <2>4 DEF MainStep
<1>4. CASE WriterTakes
  <2>1. CASE \E p \in Phase : \E n \in recordedSeqs[p] : Ledger!Persist(p, n)
    BY <2>1 DEF Ledger!Next
  <2>2. CASE UNCHANGED Ledger!vars
    BY <2>2
  <2> QED BY <1>4, <2>1, <2>2, TakeMaps
<1>5. CASE Tick \/ WriterFails \/ Ended \/ UNCHANGED vars
  <2>1. UNCHANGED <<sequence, samples, raw, rows, pc>>
    BY <1>5 DEF Tick, WriterFails, Ended, vars, threadVars, writerVars, phaseVars
  <2> QED BY <1>1, <2>1 DEF Published
<1> QED BY <1>2, <1>3, <1>4, <1>5 DEF Next, WriterStep

\* The threaded stage implements the ledger: claiming issues, collecting
\* records, the writer persists, a complete row commits and the join publishes.
THEOREM Refinement == Spec => ImplementsLedger
<1>1. Spec => Ledger!Spec
  BY InitMaps, StepMaps, Invariance, PTL DEF Spec, Ledger!Spec
<1> QED BY <1>1 DEF ImplementsLedger

-----------------------------------------------------------------------------
(* Why the stage comes to its end.                                         *)

\* How far the main thread and the clock of its phase have to go: at most six
\* steps for each phase that has not begun, and those of where it stands.
Stands ==
    CASE pc = "wait" /\ clock = "open"     -> 8
      [] pc = "wait" /\ clock = "deadline" -> 7
      [] pc = "wait" /\ clock = "watchdog" -> 6
      [] pc = "summarise"                  -> 5
      [] pc = "reset"                      -> 4
      [] pc = "close"                      -> 3
      [] pc = "join"                       -> 2
      [] pc \in {"published", "raised"}    -> 1
      [] pc \in {"exit0", "exit1"}         -> 0

MainLeft == 6 * (2 * NumLevels - phase) + Stands

LEMMA StandsType == TypeOK => Stands \in 0..8
BY DEF TypeOK, Stands

LEMMA Forward ==
    ASSUME NEW n \in Nat, NEW p \in Nat, NEW q \in Nat, NEW s \in Int, NEW t \in Int,
           (q = p /\ t < s) \/ (q = p + 1 /\ t < s + 6)
    PROVE  6 * (2 * n - q) + t < 6 * (2 * n - p) + s
OBVIOUS

LEMMA MainStepLeft ==
    ASSUME TypeOK, TypeOK', MainStep \/ Tick
    PROVE  MainLeft' < MainLeft
<1>1. NumLevels \in Nat /\ phase \in Nat /\ phase' \in Nat
  BY LevelsAssumption DEF TypeOK
<1>2. Stands \in 0..8 /\ Stands' \in 0..8
  <2>1. (TypeOK => Stands \in 0..8)'
    BY StandsType, PTL
  <2> QED
    BY <2>1, StandsType
<1>3. \/ phase' = phase /\ Stands' < Stands
      \/ phase' = phase + 1 /\ Stands' < Stands + 6
  <2>1. CASE StartPhase
    <3>1. phase' = phase + 1 /\ Stands = 4 /\ Stands' = 8
      BY <2>1 DEF StartPhase, Stands
    <3> QED
      BY <3>1
  <2>2. CASE Tick
    <3>1. phase' = phase /\ pc = "wait" /\ pc' = "wait"
      BY <2>2 DEF Tick
    <3>2. (clock = "open" /\ clock' = "deadline") \/ (clock = "deadline" /\ clock' = "watchdog")
      BY <2>2 DEF Tick, TypeOK
    <3> QED
      BY <3>1, <3>2 DEF Stands
  <2>3. CASE Await \/ WatchdogFires
    <3>1. /\ phase' = phase /\ pc = "wait" /\ pc' \in {"reset", "summarise"}
          /\ clock \in {"open", "deadline", "watchdog"}
      BY <2>3 DEF Await, WatchdogFires, Decide, TypeOK
    <3>2. Stands \in 6..8 /\ Stands' \in 4..5
      BY <3>1 DEF Stands
    <3> QED
      BY <3>1, <3>2
  <2>4. CASE Summarise
    <3>1. phase' = phase /\ pc = "summarise" /\ pc' \in {"reset", "close"}
      BY <2>4 DEF Summarise
    <3> QED
      BY <3>1 DEF Stands
  <2>5. CASE AbortDatabase \/ CloseWriter
    BY <2>5 DEF AbortDatabase, CloseWriter, Stands
  <2>6. CASE JoinWriter \/ JoinTimesOut \/ Exit
    BY <2>6 DEF JoinWriter, JoinTimesOut, Exit, Stands
  <2> QED
    BY <2>1, <2>2, <2>3, <2>4, <2>5, <2>6 DEF MainStep
<1> HIDE DEF Stands
<1>4. Stands \in Int /\ Stands' \in Int
  BY <1>2
<1>5. 6 * (2 * NumLevels - phase') + Stands' < 6 * (2 * NumLevels - phase) + Stands
  BY <1>1, <1>3, <1>4, Forward
<1> QED
  BY <1>5 DEF MainLeft

\* The main thread and its clock only go forward, by a bounded number of steps,
\* and no worker, straggler or raw writer sets them back or moves them at all.
\* What is left of StageEnds is that the clock ticks and the main thread runs.
THEOREM Advances ==
    Spec => /\ [](MainLeft \in Nat)
            /\ [][MainLeft' < MainLeft \/ UNCHANGED <<pc, phase, clock>>]_vars
<1>1. TypeOK => MainLeft \in Nat
  <2> SUFFICES ASSUME TypeOK PROVE MainLeft \in Nat
    OBVIOUS
  <2>1. 2 * NumLevels - phase \in Nat
    BY LevelsAssumption DEF TypeOK
  <2> QED
    BY <2>1, StandsType DEF MainLeft
<1>2. TypeOK /\ TypeOK' /\ [Next]_vars =>
        [MainLeft' < MainLeft \/ UNCHANGED <<pc, phase, clock>>]_vars
  <2> SUFFICES ASSUME TypeOK, TypeOK', Next
               PROVE  MainLeft' < MainLeft \/ UNCHANGED <<pc, phase, clock>>
    OBVIOUS
  <2>1. CASE MainStep \/ Tick
    BY <2>1, MainStepLeft
  <2>2. CASE WriterStep \/ Ended
    BY <2>2 DEF WriterStep, WriterTakes, WriterFails, Ended, vars, phaseVars
  <2>3. CASE \E p \in Phase, w \in Worker : WorkerStep(p, w)
    BY <2>3 DEF WorkerStep, Poll, Claim, Enter, Raise, Collect, Emit, Leave, phaseVars
  <2> QED
    BY <2>1, <2>2, <2>3 DEF Next
<1> QED
  BY <1>1, <1>2, TypeCorrect, PTL DEF Spec
=============================================================================
