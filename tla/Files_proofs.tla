---------------------------- MODULE Files_proofs ----------------------------
(***************************************************************************)
(* Proofs about the programs that leave files, each for all its constants. *)
(* TrainingRun, for every schedule, boundary and number of processes:      *)
(* resuming is exact, the journal is true, a published report is that of   *)
(* an uninterrupted run, and segments are enough for a report.             *)
(* BenchmarkComparison: the two files of a comparison are paired, and a    *)
(* verdict is given of comparable runs only, and is the right one.         *)
(* BenchmarkRun: a run that loads is what it says, and its evidence        *)
(* survives.                                                               *)
(* StoryData, for every source, number of worlds and tones and amount: the *)
(* quotas are exact, so is the selection whatever the order of the rows,   *)
(* and what is published is not lost.                                      *)
(***************************************************************************)
EXTENDS TrainingRun, BenchmarkComparison, StoryData, CollectionTheorems

-----------------------------------------------------------------------------
(* Arithmetic of schedules.                                                *)

\* The number of events due before a step grows by one after a step at which
\* an event is due, and only then.
LEMMA EventsCounted ==
    ASSUME NEW n \in Nat, NEW d \in Nat \ {0}
    PROVE  /\ n \div d \in Nat
           /\ Due(n, d) => (n + 1) \div d = (n \div d) + 1
           /\ ~Due(n, d) => (n + 1) \div d = n \div d
<1> DEFINE q == n \div d
           r == n % d
<1>1. q \in Int /\ r \in 0 .. d - 1 /\ n = d * q + r
    OBVIOUS
<1>2. q \in Nat
    BY <1>1, SMTT(30)
<1>3. CASE r = d - 1
    <2>1. n + 1 = d * (q + 1)
        BY <1>1, <1>3
    <2> DEFINE m == n + 1
               p == q + 1
    <2> HIDE DEF m, p, q, r
    <2>2. m = d * p + 0 /\ m \in Nat /\ p \in Nat
        BY <1>2, <2>1 DEF m, p
    <2>3. m \div d = p /\ m % d = 0
        BY <2>2, SMTT(30)
    <2>4. QED
        BY <1>2, <2>3 DEF Due, m, p, q
<1>4. CASE r < d - 1
    <2>1. n + 1 = d * q + (r + 1) /\ r + 1 \in 1 .. d - 1
        BY <1>1, <1>4
    <2>2. (n + 1) \div d = q /\ (n + 1) % d = r + 1
        BY <1>2, <2>1, SMTT(30)
    <2>3. QED
        BY <1>2, <2>1, <2>2 DEF Due
<1>5. QED
    BY <1>1, <1>3, <1>4

\* The i-th due event is that of step i * d - 1.
LEMMA StepOfEvent ==
    ASSUME NEW i \in Nat \ {0}, NEW d \in Nat \ {0}
    PROVE  i * d - 1 \in Nat /\ (i * d - 1) \div d = i - 1
<1>1. i * d - 1 = d * (i - 1) + (d - 1)
    BY SMT
<1>2. d * (i - 1) \in Nat
    BY SMT
<1>3. QED
    BY <1>1, <1>2, SMTT(30)

\* The event that is due at step n is number n \div d + 1.
LEMMA EventOfStep ==
    ASSUME NEW n \in Nat, NEW d \in Nat \ {0}, Due(n, d)
    PROVE  (n \div d + 1) * d - 1 = n
<1> DEFINE q == n \div d
           r == n % d
<1>1. q \in Int /\ r \in 0 .. d - 1 /\ n = d * q + r
    OBVIOUS
<1>2. q \in Nat
    BY <1>1, SMTT(30)
<1>3. r = d - 1
    <2>1. CASE r < d - 1
        <3>1. n + 1 = d * q + (r + 1) /\ r + 1 \in 1 .. d - 1
            BY <1>1, <2>1
        <3>2. (n + 1) \div d = q /\ (n + 1) % d = r + 1
            BY <1>2, <3>1, SMTT(30)
        <3>3. QED
            BY <3>1, <3>2 DEF Due
    <2>2. QED
        BY <1>1, <2>1
<1> HIDE DEF q, r
<1>4. (q + 1) * d = d * q + d
    BY <1>2
<1>5. QED
    BY <1>1, <1>2, <1>3, <1>4 DEF q

-----------------------------------------------------------------------------
(* One step of an uninterrupted run.                                       *)

\* What is in memory between a step and its sample.
BeforeSample(n) == [Uninterrupted(n + 1) EXCEPT !.sample = n \div SampleInterval]

\* A new process is at the beginning of an uninterrupted run.
LEMMA FreshIsUninterrupted == Fresh = Uninterrupted(0)
<1>1. 0 \div EvalInterval = 0 /\ 0 \div SampleInterval = 0
    BY TrainingAssumption
<1>2. [i \in 1 .. 0 |-> <<i - 1, i - 1>>] = << >>
    OBVIOUS
<1>3. EvalBatches * 0 = 0
    BY TrainingAssumption
<1>4. QED
    BY <1>1, <1>2, <1>3 DEF Fresh, Uninterrupted

\* A step from the state of an uninterrupted run leads to its next state.
LEMMA StepIsExact ==
    ASSUME NEW n \in Nat
    PROVE  /\ Due(n, SampleInterval) => Trained(Uninterrupted(n), n) = BeforeSample(n)
           /\ ~Due(n, SampleInterval) => Trained(Uninterrupted(n), n) = Uninterrupted(n + 1)
<1> DEFINE w(k) == [i \in 1 .. k |-> <<i - 1, i - 1>>]
<1>1. Append(w(n), <<n, n>>) = w(n + 1)
    <2>1. w(n) \in Seq(Nat \X Nat) /\ Len(w(n)) = n
        OBVIOUS
    <2>2. w(n + 1) \in Seq(Nat \X Nat) /\ Len(w(n + 1)) = n + 1
        OBVIOUS
    <2>3. /\ Append(w(n), <<n, n>>) \in Seq(Nat \X Nat)
          /\ Len(Append(w(n), <<n, n>>)) = n + 1
          /\ \A i \in 1 .. n + 1 : Append(w(n), <<n, n>>)[i] = w(n + 1)[i]
        BY <2>1
    <2>4. QED
        BY <2>2, <2>3
<1>2. IF Due(n, EvalInterval)
      THEN EvalBatches * (n \div EvalInterval) + EvalBatches = EvalBatches * ((n + 1) \div EvalInterval)
      ELSE EvalBatches * (n \div EvalInterval) = EvalBatches * ((n + 1) \div EvalInterval)
    <2> DEFINE q == n \div EvalInterval
    <2>1. /\ q \in Nat
          /\ Due(n, EvalInterval) => (n + 1) \div EvalInterval = q + 1
          /\ ~Due(n, EvalInterval) => (n + 1) \div EvalInterval = q
        BY EventsCounted, TrainingAssumption
    <2> HIDE DEF q
    <2>2. EvalBatches * (q + 1) = EvalBatches * q + EvalBatches
        BY <2>1, TrainingAssumption
    <2>3. QED
        BY <2>1, <2>2 DEF q
<1>3. ~Due(n, SampleInterval) => (n + 1) \div SampleInterval = n \div SampleInterval
    BY EventsCounted, TrainingAssumption
<1> DEFINE e(k) == EvalBatches * (k \div EvalInterval)
           t(k) == k \div SampleInterval
<1>4. \A k : Uninterrupted(k) = [weights |-> w(k), train |-> k, dropout |-> k,
                               val |-> e(k), sample |-> t(k)]
    BY DEF Uninterrupted
<1>5. e(n + 1) = IF Due(n, EvalInterval) THEN e(n) + EvalBatches ELSE e(n)
    BY <1>2
<1>6. ~Due(n, SampleInterval) => t(n + 1) = t(n)
    BY <1>3
<1>7. BeforeSample(n) = [Uninterrupted(n + 1) EXCEPT !.sample = t(n)]
    BY DEF BeforeSample
<1> HIDE DEF w, e, t
<1>8. Trained(Uninterrupted(n), n) =
        [weights |-> w(n + 1), train |-> n + 1, dropout |-> n + 1,
         val |-> e(n + 1), sample |-> t(n)]
    <2> DEFINE m == Uninterrupted(n)
    <2>1. m = [weights |-> w(n), train |-> n, dropout |-> n, val |-> e(n), sample |-> t(n)]
        BY <1>4
    <2> HIDE DEF m
    <2>2. m.weights = w(n) /\ m.train = n /\ m.dropout = n /\ m.val = e(n) /\ m.sample = t(n)
        BY <2>1
    <2>3. Trained(m, n) =
            [weights |-> Append(w(n), <<n, n>>), train |-> n + 1, dropout |-> n + 1,
             val |-> IF Due(n, EvalInterval) THEN e(n) + EvalBatches ELSE e(n),
             sample |-> t(n)]
        BY <2>2, Zenon DEF Trained
    <2>4. QED
        BY <1>1, <1>5, <2>3, Zenon DEF m
<1>9. BeforeSample(n) =
        [weights |-> w(n + 1), train |-> n + 1, dropout |-> n + 1,
         val |-> e(n + 1), sample |-> t(n)]
    BY <1>4, <1>7
<1>10. QED
    BY <1>4, <1>6, <1>8, <1>9

\* Drawing the sample that is due completes the step.
LEMMA SampleIsExact ==
    ASSUME NEW n \in Nat, Due(n, SampleInterval)
    PROVE  [BeforeSample(n) EXCEPT !.sample = @ + 1] = Uninterrupted(n + 1)
<1>1. (n + 1) \div SampleInterval = n \div SampleInterval + 1
    BY EventsCounted, TrainingAssumption
<1> DEFINE u == Uninterrupted(n + 1)
<1>2. /\ u = [weights |-> u.weights, train |-> u.train, dropout |-> u.dropout,
               val |-> u.val, sample |-> u.sample]
      /\ u.sample = (n + 1) \div SampleInterval
    BY DEF Uninterrupted
<1> HIDE DEF u
<1>3. BeforeSample(n) = [u EXCEPT !.sample = n \div SampleInterval]
    BY DEF BeforeSample, u
<1>4. QED
    BY <1>1, <1>2, <1>3 DEF u

-----------------------------------------------------------------------------
(* The inductive invariant.                                                *)

Stages == {"idle", "load", "clear", "step", "sample", "save", "saving", "saved",
           "complete", "failed"}

\* What an uninterrupted run writes after step n.
CheckpointOf(n) == Checkpoint(Uninterrupted(n + 1), n)
Line(n) == RecordOf(Uninterrupted(n), n)
Text(n) == SampleOf(BeforeSample(n), n)

Checkpoints == {CheckpointOf(n) : n \in Nat}
Lines == {Line(n) : n \in Nat}
Texts == {Text(n) : n \in Nat}

Processes ==
  [pc : Stages, journaled : BOOLEAN, resume : Checkpoints \cup {None},
   boundary : Nat, start : Nat, step : Nat, saved : BOOLEAN]

Segments ==
  [status : {"running", "completed", "failed"}, resume : Checkpoints \cup {None},
   checkpoint : Checkpoints \cup {None}, final : Int]

\* What survives is what an uninterrupted run has written at some time.
FilesExact ==
  /\ latest \in Checkpoints \cup {None} /\ kept \in Checkpoints \cup {None}
  /\ metrics \in Seq(Lines) /\ samples \in Seq(Texts)
  /\ journal \in Seq(Segments)

\* A process is where an uninterrupted run is between two of its steps.
MemoryExact ==
  /\ process \in Processes
  /\ At("load") => process.step = 0
  /\ At("clear") => memory = Fresh /\ process.step = 0
  /\ At("step") => memory = Uninterrupted(process.step)
  /\ At("sample") => memory = BeforeSample(process.step) /\ Due(process.step, SampleInterval)
  /\ process.pc \in {"save", "saving", "saved"} => memory = Uninterrupted(process.step + 1)
  /\ At("saved") => temporary = CheckpointOf(process.step)
  /\ At("complete") => latest = CheckpointOf(process.step)
  /\ process.saved => At("complete")

\* Segments follow one another, each from the output of the one before it.
Linked(j) ==
  \A i \in 1 .. Len(j) :
    /\ i < Len(j) => j[i].status = "completed"
    /\ j[i].status = "completed" =>
         /\ j[i].checkpoint \in Checkpoints
         /\ j[i].final = j[i].checkpoint.step
         /\ j[i].resume # None => j[i].final > j[i].resume.step
    /\ i > 1 => j[i].resume = j[i - 1].checkpoint

\* The segment of a process that is under way is the last one of the journal.
JournalFollows ==
  /\ process.pc # "idle" /\ process.journaled =>
       /\ journal # <<>> /\ LastOf(journal).status = "running"
       /\ LastOf(journal).resume = process.resume
  /\ process.pc \notin {"idle", "load", "failed"} /\ process.resume # None =>
       process.step > process.resume.step
  /\ Linked(journal)

Reports ==
  [kind : {"report"}, metrics : {UninterruptedMetrics}, samples : {UninterruptedSamples},
   checkpoint : {CheckpointOf(MaxSteps - 1)}, copy : Seq(Texts)]

ReportStages ==
  [pc : {"copy", "publish"}, metrics : {UninterruptedMetrics}, samples : {UninterruptedSamples},
   checkpoint : {CheckpointOf(MaxSteps - 1)}, copy : Seq(Texts)]

ReportsExact ==
  /\ reporter \in ReportStages \cup {NoReport}
  /\ published \in Reports \cup {None}

IInv == FilesExact /\ MemoryExact /\ JournalFollows

\* Nobody knows a checkpoint to resume from that is none.
LEMMA CheckpointsAreCheckpoints ==
    ASSUME NEW c \in Checkpoints
    PROVE  /\ c # None /\ c.kind = "checkpoint" /\ c.step \in Nat
           /\ c = CheckpointOf(c.step) /\ c.state = Uninterrupted(c.step + 1)
<1>1. PICK n \in Nat : c = CheckpointOf(n)
    BY DEF Checkpoints
<1>2. c.kind = "checkpoint" /\ c.step = n /\ c.state = Uninterrupted(n + 1)
    BY <1>1 DEF CheckpointOf, Checkpoint
<1>3. None.kind = "none"
    BY DEF None
<1>4. QED
    BY <1>1, <1>2, <1>3

\* The invariant holds in the beginning.
LEMMA InitExact == Init => IInv
<1> SUFFICES ASSUME Init PROVE IInv
    OBVIOUS
<1>1. FilesExact
    BY DEF Init, FilesExact
<1>2. MemoryExact
    BY DEF Init, MemoryExact, Processes, Stages, Idle, At
<1>3. JournalFollows
    BY DEF Init, JournalFollows, Linked, Idle
<1>4. QED
    BY <1>1, <1>2, <1>3 DEF IInv

\* What a process does once it has recorded a step's events.
LEMMA NextStage ==
    ASSUME NEW p \in Processes,
           p.pc # "complete",
           p.saved => p.pc = "saved"
    PROVE  /\ AfterEvents(p) \in Processes
           /\ AfterEvents(p).pc \in {"step", "complete", "save"}
           /\ AfterEvents(p).pc = "step" => AfterEvents(p).step = p.step + 1
           /\ AfterEvents(p).pc # "step" => AfterEvents(p).step = p.step
           /\ AfterEvents(p).pc = "complete" => p.saved
           /\ AfterEvents(p).saved => AfterEvents(p).pc = "complete"
           /\ AfterEvents(p).journaled = p.journaled
           /\ AfterEvents(p).resume = p.resume
<1> DEFINE q == AfterEvents(p)
<1>1. CASE p.step + 1 < p.boundary
    <2> DEFINE k == p.step + 1
    <2>1. q = [p EXCEPT !.pc = "step", !.step = k, !.saved = FALSE]
        BY <1>1, Zenon DEF AfterEvents
    <2>2. k \in Nat
        BY DEF Processes
    <2> HIDE DEF k, q
    <2>3. q \in Processes /\ q.pc = "step" /\ q.step = k /\ ~q.saved
          /\ q.journaled = p.journaled /\ q.resume = p.resume
        BY <2>1, <2>2 DEF Processes, Stages
    <2>4. QED
        BY <2>3 DEF k, q
<1>2. CASE p.step + 1 >= p.boundary /\ p.saved
    <2>1. q = [p EXCEPT !.pc = "complete"]
        BY <1>2 DEF AfterEvents, Processes
    <2>2. QED
        BY <1>2, <2>1 DEF Processes, Stages
<1>3. CASE p.step + 1 >= p.boundary /\ ~p.saved
    <2>1. q = [p EXCEPT !.pc = "save"]
        BY <1>3 DEF AfterEvents, Processes
    <2>2. QED
        BY <1>3, <2>1 DEF Processes, Stages
<1>4. QED
    BY <1>1, <1>2, <1>3 DEF Processes

\* ... and once it has recorded its metrics.
LEMMA StageAfterSample ==
    ASSUME NEW p \in Processes, p.pc # "complete", ~p.saved
    PROVE  /\ AfterSample(p) \in Processes
           /\ AfterSample(p).pc \in {"step", "save"}
           /\ AfterSample(p).pc = "step" => AfterSample(p).step = p.step + 1
           /\ AfterSample(p).pc = "save" => AfterSample(p).step = p.step
           /\ ~AfterSample(p).saved
           /\ AfterSample(p).journaled = p.journaled
           /\ AfterSample(p).resume = p.resume
<1>1. CASE Due(p.step, CheckpointInterval)
    <2>1. AfterSample(p) = [p EXCEPT !.pc = "save"]
        BY <1>1 DEF AfterSample
    <2>2. QED
        BY <2>1 DEF Processes, Stages
<1>2. CASE ~Due(p.step, CheckpointInterval)
    <2>1. AfterSample(p) = AfterEvents(p)
        BY <1>2 DEF AfterSample
    <2>2. QED
        BY <2>1, NextStage
<1>3. QED
    BY <1>1, <1>2

\* A new segment that the journal allows.
LEMMA SegmentBegun ==
    ASSUME NEW j \in Seq(Segments), Linked(j), NEW r \in Checkpoints \cup {None},
           Completed(j), j # <<>> => r = LastOf(j).checkpoint
    PROVE  /\ Append(j, Segment(r)) \in Seq(Segments)
           /\ Linked(Append(j, Segment(r)))
           /\ LastOf(Append(j, Segment(r))) = Segment(r)
<1> DEFINE k == Append(j, Segment(r))
           n == Len(j) + 1
<1>1. Segment(r) \in Segments
    BY DEF Segment, Segments
<1>2. /\ k \in Seq(Segments) /\ Len(k) = n /\ k[n] = Segment(r) /\ n \in Nat /\ n >= 1
      /\ \A i \in 1 .. Len(j) : k[i] = j[i]
    BY <1>1
<1> HIDE DEF k
<1>3. Linked(k)
    <2> SUFFICES ASSUME NEW i \in 1 .. n
                 PROVE  /\ i < n => k[i].status = "completed"
                        /\ k[i].status = "completed" =>
                             /\ k[i].checkpoint \in Checkpoints
                             /\ k[i].final = k[i].checkpoint.step
                             /\ k[i].resume # None => k[i].final > k[i].resume.step
                        /\ i > 1 => k[i].resume = k[i - 1].checkpoint
        BY <1>2 DEF Linked
    <2>1. CASE i = n
        <3>1. k[i].status = "running" /\ k[i].resume = r
            BY <1>2, <2>1 DEF Segment
        <3>2. i > 1 => j # <<>> /\ k[i - 1] = LastOf(j)
            BY <1>2, <2>1 DEF LastOf
        <3>3. QED
            BY <2>1, <3>1, <3>2
    <2>2. CASE i # n
        <3>1. i \in 1 .. Len(j) /\ k[i] = j[i] /\ (i > 1 => k[i - 1] = j[i - 1])
            BY <1>2, <2>2
        <3>2. QED
            BY <3>1 DEF Linked, Completed
    <2>3. QED
        BY <2>1, <2>2
<1>4. LastOf(k) = Segment(r)
    BY <1>2 DEF LastOf
<1>5. QED
    BY <1>2, <1>3, <1>4 DEF k

\* The end of the last segment.
LEMMA SegmentEnded ==
    ASSUME NEW j \in Seq(Segments), Linked(j), j # <<>>, NEW s \in Segments,
           s.resume = LastOf(j).resume,
           s.status = "completed" =>
             /\ s.checkpoint \in Checkpoints /\ s.final = s.checkpoint.step
             /\ s.resume # None => s.final > s.resume.step
    PROVE  LET k == [j EXCEPT ![Len(j)] = s] IN k \in Seq(Segments) /\ Linked(k)
<1> DEFINE n == Len(j)
           k == [j EXCEPT ![n] = s]
<1>1. /\ k \in Seq(Segments) /\ Len(k) = n /\ k[n] = s /\ n \in Nat /\ n >= 1
      /\ \A i \in 1 .. n : i # n => k[i] = j[i]
    OBVIOUS
<1> HIDE DEF k
<1>2. Linked(k)
    <2> SUFFICES ASSUME NEW i \in 1 .. n
                 PROVE  /\ i < n => k[i].status = "completed"
                        /\ k[i].status = "completed" =>
                             /\ k[i].checkpoint \in Checkpoints
                             /\ k[i].final = k[i].checkpoint.step
                             /\ k[i].resume # None => k[i].final > k[i].resume.step
                        /\ i > 1 => k[i].resume = k[i - 1].checkpoint
        BY <1>1 DEF Linked
    <2>1. i > 1 => k[i - 1] = j[i - 1]
        BY <1>1
    <2>2. k[i].resume = j[i].resume
        BY <1>1 DEF LastOf
    <2>3. i # n => k[i] = j[i]
        BY <1>1
    <2>4. i = n => k[i] = s
        BY <1>1
    <2>5. i < n => j[i].status = "completed"
        BY DEF Linked
    <2>6. j[i].status = "completed" =>
             /\ j[i].checkpoint \in Checkpoints
             /\ j[i].final = j[i].checkpoint.step
             /\ j[i].resume # None => j[i].final > j[i].resume.step
        BY DEF Linked
    <2>7. i > 1 => j[i].resume = j[i - 1].checkpoint
        BY DEF Linked
    <2>8. QED
        BY <2>1, <2>2, <2>3, <2>4, <2>5, <2>6, <2>7
<1>3. QED
    BY <1>1, <1>2 DEF k

-----------------------------------------------------------------------------
(* Every step keeps the invariant.                                         *)

\* Starting: a segment is appended to a journal that allows it.
LEMMA StartKeeps == IInv /\ StartProcess => IInv'
<1> SUFFICES ASSUME IInv, StartProcess PROVE IInv'
    OBVIOUS
<1> USE DEF IInv
<1>1. PICK resume \in {None, latest, kept}, boundary \in Boundaries, journaled \in BOOLEAN :
        /\ At("idle")
        /\ journaled => JournalAllows(resume)
        /\ process' = [Idle EXCEPT !.pc = "load", !.journaled = journaled, !.resume = resume,
                                   !.boundary = boundary]
        /\ journal' = IF journaled THEN Append(journal, Segment(resume)) ELSE journal
        /\ UNCHANGED <<memory, metrics, samples, latest, temporary, kept>>
    BY Zenon DEF StartProcess
<1>2. resume \in Checkpoints \cup {None} /\ boundary \in Nat
    BY <1>1, TrainingAssumption DEF FilesExact
<1>3. /\ process' \in Processes
      /\ process'.pc = "load" /\ process'.journaled = journaled /\ process'.resume = resume
      /\ ~process'.saved /\ process'.step = 0
    BY <1>1, <1>2 DEF Idle, Processes, Stages
<1>4. /\ journal' \in Seq(Segments) /\ Linked(journal')
      /\ journaled => journal' # <<>> /\ LastOf(journal') = Segment(resume)
    <2>1. CASE journaled
        <3>1. Completed(journal) /\ (journal # <<>> => resume = LastOf(journal).checkpoint)
            BY <1>1, <2>1 DEF JournalAllows, Completed
        <3>2. journal' = Append(journal, Segment(resume))
            BY <1>1, <2>1
        <3>3. QED
            BY <1>2, <3>1, <3>2, SegmentBegun DEF FilesExact, JournalFollows
    <2>2. CASE ~journaled
        BY <1>1, <2>2 DEF FilesExact, JournalFollows
    <2>3. QED
        BY <2>1, <2>2
<1>5. FilesExact'
    BY <1>1, <1>4 DEF FilesExact
<1>6. MemoryExact'
    BY <1>3 DEF MemoryExact, At
<1>7. JournalFollows'
    BY <1>3, <1>4 DEF JournalFollows, Segment
<1>8. QED
    BY <1>5, <1>6, <1>7

\* Loading: what is restored is the state after the step of the checkpoint.
LEMMA LoadKeeps == IInv /\ LoadCheckpoint => IInv'
<1> SUFFICES ASSUME IInv, LoadCheckpoint PROVE IInv'
    OBVIOUS
<1> USE DEF IInv
<1> DEFINE c == process.resume
           k == c.step + 1
<1>1. c \in Checkpoints /\ c.step \in Nat /\ k \in Nat /\ c.state = Uninterrupted(k)
    BY CheckpointsAreCheckpoints DEF LoadCheckpoint, MemoryExact, Processes
<1>2. PICK s \in {"failed", "step"} :
        process' = [process EXCEPT !.pc = s, !.start = k, !.step = k]
    BY Zenon DEF LoadCheckpoint
<1> HIDE DEF k
<1>3. /\ process' \in Processes /\ process'.pc = s /\ process'.step = k
      /\ process'.resume = c /\ process'.journaled = process.journaled
      /\ process'.saved = process.saved
    BY <1>1, <1>2 DEF MemoryExact, Processes, Stages
<1>4. memory' = Uninterrupted(k) /\ UNCHANGED files /\ At("load")
    BY <1>1 DEF LoadCheckpoint, Restored, k
<1>5. FilesExact'
    BY <1>4 DEF FilesExact, files
<1>6. MemoryExact'
    BY <1>3, <1>4 DEF MemoryExact, At
<1>7. JournalFollows'
    BY <1>1, <1>3, <1>4 DEF JournalFollows, files, At, k
<1>8. QED
    BY <1>5, <1>6, <1>7

\* Starting afresh.
LEMMA ClearKeeps == IInv /\ (RemoveMetrics \/ RemoveSamples) => IInv'
<1> SUFFICES ASSUME IInv, RemoveMetrics \/ RemoveSamples PROVE IInv'
    OBVIOUS
<1> USE DEF IInv
<1>1. CASE RemoveMetrics
    <2>1. /\ At("load") /\ process.resume = None
          /\ memory' = Fresh /\ metrics' = <<>>
          /\ process' = [process EXCEPT !.pc = "clear"]
          /\ UNCHANGED <<samples, latest, temporary, kept, journal>>
        BY <1>1 DEF RemoveMetrics, GoTo
    <2>2. /\ process' \in Processes /\ process'.pc = "clear" /\ process'.step = process.step
          /\ process'.resume = None /\ process'.journaled = process.journaled
          /\ process'.saved = process.saved
        BY <2>1 DEF MemoryExact, Processes, Stages
    <2>3. process.step = 0
        BY <2>1 DEF MemoryExact
    <2>4. FilesExact'
        BY <2>1 DEF FilesExact
    <2>5. MemoryExact'
        BY <2>1, <2>2, <2>3 DEF MemoryExact, At
    <2>6. JournalFollows'
        BY <2>1, <2>2 DEF JournalFollows, At
    <2>7. QED
        BY <2>4, <2>5, <2>6
<1>2. CASE RemoveSamples
    <2>1. /\ At("clear") /\ samples' = <<>>
          /\ process' = [process EXCEPT !.pc = "step"]
          /\ UNCHANGED <<memory, metrics, latest, temporary, kept, journal>>
        BY <1>2 DEF RemoveSamples, GoTo
    <2>2. /\ process' \in Processes /\ process'.pc = "step" /\ process'.step = process.step
          /\ process'.resume = process.resume /\ process'.journaled = process.journaled
          /\ process'.saved = process.saved
        BY <2>1 DEF MemoryExact, Processes, Stages
    <2>3. FilesExact'
        BY <2>1 DEF FilesExact
    <2>4. MemoryExact'
        BY <2>1, <2>2, FreshIsUninterrupted DEF MemoryExact, At
    <2>5. JournalFollows'
        BY <2>1, <2>2 DEF JournalFollows, At
    <2>6. QED
        BY <2>3, <2>4, <2>5
<1>3. QED
    BY <1>1, <1>2

\* A step, which leads to its sample or past it.
LEMMA TrainKeeps == IInv /\ TrainStep => IInv'
<1> SUFFICES ASSUME IInv, TrainStep PROVE IInv'
    OBVIOUS
<1> USE DEF IInv
<1> DEFINE n == process.step
<1>1. /\ n \in Nat /\ process \in Processes /\ At("step") /\ ~process.saved
      /\ memory = Uninterrupted(n)
    BY DEF TrainStep, MemoryExact, Processes, At
<1>2. /\ memory' = Trained(memory, n)
      /\ metrics' = Append(metrics, RecordOf(memory, n))
      /\ process' = AfterMetrics(process)
      /\ UNCHANGED <<samples, latest, temporary, kept, journal>>
    BY DEF TrainStep
<1>3. /\ process' \in Processes /\ process'.pc \in {"sample", "step", "save"}
      /\ process'.pc = "sample" => Due(n, SampleInterval) /\ process'.step = n
      /\ process'.pc # "sample" => ~Due(n, SampleInterval)
      /\ process'.pc = "step" => process'.step = n + 1
      /\ process'.pc = "save" => process'.step = n
      /\ ~process'.saved /\ process'.resume = process.resume
      /\ process'.journaled = process.journaled
    <2>1. CASE Due(n, SampleInterval)
        <3>1. process' = [process EXCEPT !.pc = "sample"]
            BY <1>2, <2>1 DEF AfterMetrics
        <3>2. QED
            BY <1>1, <2>1, <3>1 DEF Processes, Stages
    <2>2. CASE ~Due(n, SampleInterval)
        <3>1. process' = AfterSample(process)
            BY <1>2, <2>2 DEF AfterMetrics
        <3>2. process.pc # "complete"
            BY <1>1 DEF At
        <3>3. QED
            BY <1>1, <2>2, <3>1, <3>2, StageAfterSample
    <2>3. QED
        BY <2>1, <2>2
<1>4. /\ process'.pc = "sample" => memory' = BeforeSample(n)
      /\ process'.pc # "sample" => memory' = Uninterrupted(n + 1)
    BY <1>1, <1>2, <1>3, StepIsExact
<1>5. FilesExact'
    <2>1. RecordOf(memory, n) \in Lines
        BY <1>1 DEF Lines, Line
    <2>2. QED
        BY <1>2, <2>1 DEF FilesExact
<1>6. MemoryExact'
    BY <1>3, <1>4 DEF MemoryExact, At
<1>7. JournalFollows'
    <2>1. process'.step \in Nat /\ process'.step >= n
        BY <1>1, <1>3
    <2>2. process.resume # None => process.resume.step \in Nat
        BY <1>1, CheckpointsAreCheckpoints DEF Processes
    <2>3. QED
        BY <1>1, <1>2, <1>3, <2>1, <2>2 DEF JournalFollows, At
<1>8. QED
    BY <1>5, <1>6, <1>7

\* A sample, drawn from a generator that nothing else uses.
LEMMA SampleKeeps == IInv /\ AppendSample => IInv'
<1> SUFFICES ASSUME IInv, AppendSample PROVE IInv'
    OBVIOUS
<1> USE DEF IInv
<1> DEFINE n == process.step
<1>1. /\ n \in Nat /\ process \in Processes /\ At("sample") /\ ~process.saved
      /\ memory = BeforeSample(n) /\ Due(n, SampleInterval) /\ process.pc # "complete"
    BY DEF AppendSample, MemoryExact, Processes, At
<1>2. /\ memory' = [memory EXCEPT !.sample = @ + 1]
      /\ samples' = Append(samples, SampleOf(memory, n))
      /\ process' = AfterSample(process)
      /\ UNCHANGED <<metrics, latest, temporary, kept, journal>>
    BY DEF AppendSample
<1>3. /\ process' \in Processes /\ process'.pc \in {"step", "save"}
      /\ process'.pc = "step" => process'.step = n + 1
      /\ process'.pc = "save" => process'.step = n
      /\ ~process'.saved /\ process'.resume = process.resume
      /\ process'.journaled = process.journaled
    BY <1>1, <1>2, StageAfterSample
<1>4. memory' = Uninterrupted(n + 1)
    <2>1. memory' = [BeforeSample(n) EXCEPT !.sample = @ + 1]
        BY <1>1, <1>2, Zenon
    <2>2. QED
        BY <1>1, <2>1, SampleIsExact, Zenon
<1>5. FilesExact'
    <2>1. SampleOf(memory, n) \in Texts
        BY <1>1 DEF Texts, Text
    <2>2. QED
        BY <1>2, <2>1 DEF FilesExact
<1>6. MemoryExact'
    BY <1>3, <1>4 DEF MemoryExact, At
<1>7. JournalFollows'
    <2>1. process'.step \in Nat /\ process'.step >= n
        BY <1>1, <1>3
    <2>2. process.resume # None => process.resume.step \in Nat
        BY <1>1, CheckpointsAreCheckpoints DEF Processes
    <2>3. QED
        BY <1>1, <1>2, <1>3, <2>1, <2>2 DEF JournalFollows, At
<1>8. QED
    BY <1>5, <1>6, <1>7

\* Writing the temporary file leaves the checkpoint alone.
LEMMA WriteKeeps == IInv /\ WriteCheckpoint => IInv'
<1> SUFFICES ASSUME IInv, WriteCheckpoint PROVE IInv'
    OBVIOUS
<1> USE DEF IInv
<1>1. PICK c \in {Torn, Checkpoint(memory, process.step)}, s \in {"saving", "saved"} :
        /\ At("save") \/ At("saving")
        /\ s = "saved" => c = Checkpoint(memory, process.step)
        /\ latest' = latest /\ temporary' = c
        /\ process' = [process EXCEPT !.pc = s]
        /\ UNCHANGED <<memory, metrics, samples, kept, journal>>
    <2>1. CASE At("saving")
        <3>1. /\ latest' = latest /\ temporary' = Checkpoint(memory, process.step)
              /\ process' = [process EXCEPT !.pc = "saved"]
              /\ UNCHANGED <<memory, metrics, samples, kept, journal>>
            BY <2>1 DEF WriteCheckpoint, SavedTo, GoTo
        <3>2. QED
            BY <2>1, <3>1
    <2>2. CASE ~At("saving")
        <3>1. /\ latest' = latest /\ temporary' = Torn
              /\ process' = [process EXCEPT !.pc = "saving"]
              /\ UNCHANGED <<memory, metrics, samples, kept, journal>>
              /\ At("save")
            BY <2>2 DEF WriteCheckpoint, SavedTo, GoTo
        <3>2. QED
            BY <3>1
    <2>3. QED
        BY <2>1, <2>2
<1>2. /\ process' \in Processes /\ process'.pc = s /\ process'.step = process.step
      /\ process'.resume = process.resume /\ process'.journaled = process.journaled
      /\ process'.saved = process.saved
    BY <1>1 DEF MemoryExact, Processes, Stages
<1>3. memory = Uninterrupted(process.step + 1)
    BY <1>1 DEF MemoryExact, At
<1>4. FilesExact'
    BY <1>1 DEF FilesExact
<1>5. MemoryExact'
    BY <1>1, <1>2, <1>3 DEF MemoryExact, At, CheckpointOf
<1>6. JournalFollows'
    BY <1>1, <1>2 DEF JournalFollows, At
<1>7. QED
    BY <1>4, <1>5, <1>6

\* Replacing the checkpoint by a whole one.
LEMMA ReplaceKeeps == IInv /\ ReplaceCheckpoint => IInv'
<1> SUFFICES ASSUME IInv, ReplaceCheckpoint PROVE IInv'
    OBVIOUS
<1> USE DEF IInv
<1> DEFINE n == process.step
           p == [process EXCEPT !.saved = TRUE]
<1>1. /\ n \in Nat /\ process \in Processes /\ At("saved")
      /\ memory = Uninterrupted(n + 1) /\ temporary = CheckpointOf(n)
    BY DEF ReplaceCheckpoint, MemoryExact, Processes, At
<1>2. /\ latest' = CheckpointOf(n) /\ process' = AfterEvents(p)
      /\ UNCHANGED <<memory, metrics, samples, kept, journal>>
    BY <1>1 DEF ReplaceCheckpoint
<1>3. /\ p \in Processes /\ p.pc = "saved" /\ p.step = n /\ p.saved
      /\ p.resume = process.resume /\ p.journaled = process.journaled
    BY <1>1 DEF Processes, Stages, At
<1> HIDE DEF p
<1>4. /\ process' \in Processes /\ process'.pc \in {"step", "complete", "save"}
      /\ process'.pc = "step" => process'.step = n + 1
      /\ process'.pc # "step" => process'.step = n
      /\ process'.saved => process'.pc = "complete"
      /\ process'.resume = process.resume /\ process'.journaled = process.journaled
    BY <1>2, <1>3, NextStage
<1>5. FilesExact'
    BY <1>1, <1>2 DEF FilesExact, Checkpoints
<1>6. MemoryExact'
    BY <1>1, <1>2, <1>4 DEF MemoryExact, At
<1>7. JournalFollows'
    <2>1. process'.step \in Nat /\ process'.step >= n
        BY <1>1, <1>4
    <2>2. process.resume # None => process.resume.step \in Nat
        BY <1>1, CheckpointsAreCheckpoints DEF Processes
    <2>3. QED
        BY <1>1, <1>2, <1>4, <2>1, <2>2 DEF JournalFollows, At
<1>8. QED
    BY <1>5, <1>6, <1>7

\* The end of a process, which the journal may record.
LEMMA EndKeeps == IInv /\ (Complete \/ Fail \/ Kill) => IInv'
<1> SUFFICES ASSUME IInv, Complete \/ Fail \/ Kill PROVE IInv'
    OBVIOUS
<1> USE DEF IInv
<1>1. /\ process' = Idle /\ process.pc # "idle"
      /\ UNCHANGED <<metrics, samples, latest, kept>>
    BY DEF Complete, Fail, Kill, files, At
<1>2. Idle \in Processes /\ Idle.pc = "idle" /\ ~Idle.saved
    BY DEF Idle, Processes, Stages
<1>3. journal' \in Seq(Segments) /\ Linked(journal')
    <2>1. CASE journal' = journal
        BY <2>1 DEF FilesExact, JournalFollows
    <2> DEFINE l == LastOf(journal)
    <2>2. CASE process.journaled /\ Complete /\ journal' # journal
        <3> DEFINE s == [l EXCEPT !.status = "completed", !.checkpoint = latest, !.final = latest.step]
        <3>1. journal # <<>> /\ l \in Segments /\ l.resume = process.resume
            BY <1>1, <2>2 DEF JournalFollows, LastOf, FilesExact
        <3>2. At("complete") /\ latest \in Checkpoints /\ latest.step = process.step
              /\ latest.step \in Nat
            BY <2>2, CheckpointsAreCheckpoints
            DEF Complete, MemoryExact, Processes, Checkpoints
        <3>3. process.resume # None => process.step > process.resume.step
            BY <3>2 DEF JournalFollows, At
        <3> DEFINE k == latest.step
        <3>4. /\ s \in Segments /\ s.status = "completed" /\ s.checkpoint = latest
              /\ s.final = latest.step /\ s.resume = l.resume
            <4> HIDE DEF l, k
            <4>1. k \in Int
                BY <3>2 DEF k
            <4>2. [l EXCEPT !.status = "completed", !.checkpoint = latest, !.final = k] \in Segments
                BY <3>1, <3>2, <4>1 DEF Segments
            <4>3. QED
                BY <3>1, <4>2 DEF k, Segments
        <3>5. journal' = [journal EXCEPT ![Len(journal)] = s]
            BY <2>2, Zenon DEF Complete, WithCompleted
        <3> HIDE DEF s, l
        <3>6. QED
            BY <3>1, <3>2, <3>3, <3>4, <3>5, SegmentEnded DEF FilesExact, JournalFollows, l
    <2>3. CASE process.journaled /\ Fail /\ journal' # journal
        <3> DEFINE s == [l EXCEPT !.status = "failed"]
        <3>1. journal # <<>> /\ l \in Segments
            BY <1>1, <2>3 DEF JournalFollows, LastOf, FilesExact
        <3>2. s \in Segments /\ s.status = "failed" /\ s.resume = l.resume
            <4> HIDE DEF l
            <4>1. QED
                BY <3>1 DEF Segments
        <3>3. journal' = [journal EXCEPT ![Len(journal)] = s]
            BY <2>3, Zenon DEF Fail, WithFailed
        <3> HIDE DEF s, l
        <3>4. QED
            BY <3>1, <3>2, <3>3, SegmentEnded DEF FilesExact, JournalFollows, l
    <2>4. QED
        BY <2>1, <2>2, <2>3 DEF Complete, Fail, Kill, files
<1>4. FilesExact'
    BY <1>1, <1>3 DEF FilesExact
<1>5. MemoryExact'
    BY <1>1, <1>2 DEF MemoryExact, At
<1>6. JournalFollows'
    BY <1>1, <1>2, <1>3 DEF JournalFollows
<1>7. QED
    BY <1>4, <1>5, <1>6

\* What people and the report do between processes.
LEMMA OutsideKeeps ==
    IInv /\ (KeepCheckpoint \/ RemoveJournal \/ Reporting \/ UNCHANGED vars) => IInv'
<1> SUFFICES ASSUME IInv, KeepCheckpoint \/ RemoveJournal \/ Reporting \/ UNCHANGED vars
             PROVE  IInv'
    OBVIOUS
<1> USE DEF IInv
<1>1. CASE KeepCheckpoint
    BY <1>1 DEF KeepCheckpoint, FilesExact, MemoryExact, JournalFollows, At
<1>2. CASE RemoveJournal
    <2>1. journal' = <<>> /\ At("idle")
          /\ UNCHANGED <<process, memory, metrics, samples, latest, temporary, kept>>
        BY <1>2 DEF RemoveJournal
    <2>2. QED
        BY <2>1 DEF FilesExact, MemoryExact, JournalFollows, Linked, At
<1>3. CASE Reporting \/ UNCHANGED vars
    <2>1. UNCHANGED <<process, memory, files>>
        BY <1>3 DEF Reporting, BeginReport, CopySamples, Publish, AbandonReport, vars, files
    <2>2. QED
        BY <2>1 DEF files, FilesExact, MemoryExact, JournalFollows, At
<1>4. QED
    BY <1>1, <1>2, <1>3

\* Every step keeps the invariant.
LEMMA NextKeeps == IInv /\ [Next]_vars => IInv'
BY StartKeeps, LoadKeeps, ClearKeeps, TrainKeeps, SampleKeeps, WriteKeeps, ReplaceKeeps,
   EndKeeps, OutsideKeeps DEF Next, Training

-----------------------------------------------------------------------------
(* What the report accepts.                                                *)

\* So many lines, each with its step, are those of an uninterrupted run.
LEMMA StepsInOrder ==
    ASSUME metrics \in Seq(Lines), Len(metrics) = MaxSteps,
           \A i \in 1 .. MaxSteps : metrics[i].step = i - 1
    PROVE  /\ metrics = UninterruptedMetrics
           /\ \A i \in 1 .. MaxSteps : metrics[i] = Line(i - 1)
<1>1. metrics \in Seq(Lines) /\ Len(metrics) = MaxSteps /\ MaxSteps \in Nat
    BY TrainingAssumption
<1>2. ASSUME NEW i \in 1 .. MaxSteps
      PROVE  metrics[i] = Line(i - 1)
    <2>1. metrics[i] \in Lines
        BY <1>1
    <2>2. PICK n \in Nat : metrics[i] = Line(n)
        BY <2>1 DEF Lines
    <2>3. metrics[i].step = n
        BY <2>2 DEF Line, RecordOf
    <2>4. metrics[i].step = i - 1
        OBVIOUS
    <2>5. QED
        BY <2>2, <2>3, <2>4
<1> DEFINE u == [i \in 1 .. MaxSteps |-> RecordOf(Uninterrupted(i - 1), i - 1)]
<1>3. metrics = u
    BY <1>1, <1>2 DEF Line
<1>4. QED
    BY <1>2, <1>3 DEF UninterruptedMetrics

\* Lines with the right steps are those of an uninterrupted run.
LEMMA AcceptedMetrics ==
    ASSUME metrics \in Seq(Lines), NEW loss, MetricsRead(loss), MetricsValid(loss)
    PROVE  metrics = UninterruptedMetrics
<1>1. /\ metrics \in Seq(Lines) /\ Len(metrics) = MaxSteps /\ MaxSteps \in Nat
      /\ \A i \in 1 .. MaxSteps : metrics[i].step = i - 1
    BY TrainingAssumption DEF MetricsRead, MetricsValid
<1>2. QED
    BY <1>1, StepsInOrder

\* Samples with the right steps are those of an uninterrupted run.
LEMMA AcceptedSamples ==
    ASSUME samples \in Seq(Texts), SamplesValid
    PROVE  samples = UninterruptedSamples
<1> DEFINE n == Len(SampleSteps)
           t(i) == [step |-> SampleSteps[i],
                    text |-> <<Uninterrupted(SampleSteps[i] + 1).weights, i - 1>>]
<1>1. samples \in Seq(Texts) /\ Len(samples) = n
    BY DEF SamplesValid
<1>2. MaxSteps \div SampleInterval \in Nat
    BY EventsCounted, TrainingAssumption
<1>3. n = MaxSteps \div SampleInterval
    BY <1>2 DEF SampleSteps
<1>4. ASSUME NEW i \in 1 .. n
      PROVE  samples[i] = t(i)
    <2>1. samples[i] \in Texts
        BY <1>1
    <2>2. PICK k \in Nat : samples[i] = Text(k)
        BY <2>1 DEF Texts
    <2>3. /\ samples[i] = [step |-> k, text |-> <<Uninterrupted(k + 1).weights, k \div SampleInterval>>]
          /\ samples[i].step = k
        <3>1. /\ BeforeSample(k).weights = Uninterrupted(k + 1).weights
              /\ BeforeSample(k).sample = k \div SampleInterval
            BY DEF BeforeSample, Uninterrupted
        <3>2. QED
            BY <2>2, <3>1 DEF Text, SampleOf
    <2>4. samples[i].step = SampleSteps[i]
        BY <1>1 DEF SamplesValid
    <2>5. i \in Nat \ {0} /\ i \in 1 .. MaxSteps \div SampleInterval
        BY <1>2, <1>3
    <2>6. SampleSteps[i] = i * SampleInterval - 1
        BY <2>5 DEF SampleSteps
    <2>7. k \div SampleInterval = i - 1
        BY <2>3, <2>4, <2>5, <2>6, StepOfEvent, TrainingAssumption
    <2>8. QED
        BY <2>3, <2>4, <2>7
<1> HIDE DEF n, t
<1>5. n \in Nat
    BY <1>1
<1>6. samples = [i \in 1 .. n |-> t(i)]
    BY <1>1, <1>4, <1>5
<1>7. QED
    BY <1>6, Zenon DEF UninterruptedSamples, n, t

\* A report is begun from accepted files only, and keeps what it read.
LEMMA ReportsKeep == IInv /\ ReportsExact /\ [Next]_vars => ReportsExact'
<1> SUFFICES ASSUME IInv, ReportsExact, [Next]_vars PROVE ReportsExact'
    OBVIOUS
<1>1. CASE BeginReport
    <2>1. metrics = UninterruptedMetrics /\ samples = UninterruptedSamples
        <3>1. PICK loss \in Losses : Accepted(loss)
            BY <1>1 DEF BeginReport
        <3>2. QED
            BY <3>1, AcceptedMetrics, AcceptedSamples DEF Accepted, IInv, FilesExact
    <2>2. latest = CheckpointOf(MaxSteps - 1)
        BY <1>1, CheckpointsAreCheckpoints DEF BeginReport, Accepted, IInv, FilesExact
    <2>3. reporter' = [pc |-> "copy", metrics |-> metrics, samples |-> samples, checkpoint |-> latest,
                       copy |-> <<>>] /\ published' = published
        BY <1>1 DEF BeginReport
    <2>4. <<>> \in Seq(Texts)
        OBVIOUS
    <2>5. QED
        BY <2>1, <2>2, <2>3, <2>4 DEF ReportsExact, ReportStages
<1>2. CASE CopySamples
    <2>1. reporter \in ReportStages /\ samples \in Seq(Texts)
        BY <1>2 DEF CopySamples, ReportsExact, IInv, FilesExact, NoReport
    <2>2. reporter' = [reporter EXCEPT !.pc = "publish", !.copy = samples] /\ published' = published
        BY <1>2 DEF CopySamples
    <2>3. QED
        BY <2>1, <2>2 DEF ReportsExact, ReportStages
<1>3. CASE Publish
    <2>1. reporter \in ReportStages
        BY <1>3 DEF Publish, ReportsExact, NoReport
    <2>2. /\ published' = [kind |-> "report", metrics |-> reporter.metrics, samples |-> reporter.samples,
                           checkpoint |-> reporter.checkpoint, copy |-> reporter.copy]
          /\ reporter' = NoReport
        BY <1>3 DEF Publish
    <2>3. published' \in Reports
        BY <2>1, <2>2 DEF Reports, ReportStages
    <2>4. QED
        BY <2>2, <2>3 DEF ReportsExact
<1>4. CASE AbandonReport
    BY <1>4 DEF AbandonReport, ReportsExact
<1>5. CASE Training \/ KeepCheckpoint \/ RemoveJournal \/ UNCHANGED vars
    <2>1. UNCHANGED <<reporter, published>>
        BY <1>5 DEF Training, StartProcess, LoadCheckpoint, RemoveMetrics, RemoveSamples, TrainStep,
                    AppendSample, WriteCheckpoint, ReplaceCheckpoint, Complete, Fail, Kill,
                    KeepCheckpoint, RemoveJournal, vars
    <2>2. QED
        BY <2>1 DEF ReportsExact
<1>6. QED
    BY <1>1, <1>2, <1>3, <1>4, <1>5 DEF Next, Reporting

-----------------------------------------------------------------------------
(* What an undisturbed experiment has written.                             *)

\* The metrics of the first n steps, and no others.
Logged(n) == Len(metrics) = n /\ \A i \in 1 .. n : metrics[i].step = i - 1

\* The samples that are due in the first n steps.
Sampled(n) ==
  /\ Len(samples) = n \div SampleInterval
  /\ \A i \in 1 .. n \div SampleInterval : samples[i].step = i * SampleInterval - 1

\* All that n steps write.
Recorded(n) == Logged(n) /\ Sampled(n)

\* Each segment finds the files as the one before it left them, and leaves what
\* its steps write.
FilesFollow ==
  /\ At("idle") => Completed(journal)
  /\ At("idle") /\ journal # <<>> =>
       latest = LastOf(journal).checkpoint /\ Recorded(LastOf(journal).final + 1)
  /\ At("load") /\ process.resume # None =>
       latest = process.resume /\ Recorded(process.resume.step + 1)
  /\ At("clear") => metrics = <<>>
  /\ At("step") => Recorded(process.step)
  /\ At("sample") => Logged(process.step + 1) /\ Sampled(process.step)
  /\ process.pc \in {"save", "saving", "saved", "complete"} => Recorded(process.step + 1)

\* The first segment of a journal is fresh.
FirstFresh == journal # <<>> => journal[1].resume = None

Clean == (~At("idle") => process.journaled) /\ FilesFollow

Undisturbed == FirstFresh /\ (~disturbed => Clean)

\* The first segment stays the first.
LEMMA FirstStays ==
    ASSUME NEW j \in Seq(Segments), j # <<>>, j[1].resume = None,
           NEW s \in Segments, s.resume = LastOf(j).resume
    PROVE  [j EXCEPT ![Len(j)] = s][1].resume = None
<1>1. CASE Len(j) = 1
    BY <1>1 DEF LastOf
<1>2. CASE Len(j) # 1
    BY <1>2
<1>3. QED
    BY <1>1, <1>2

\* Every step keeps the first segment of a journal fresh.
LEMMA FirstFreshKept == IInv /\ FirstFresh /\ [Next]_vars => FirstFresh'
<1> SUFFICES ASSUME IInv, FirstFresh, [Next]_vars PROVE FirstFresh'
    OBVIOUS
<1>1. journal \in Seq(Segments)
    BY DEF IInv, FilesExact
<1>2. ASSUME NEW s \in Segments, journal # <<>>, s.resume = LastOf(journal).resume,
             journal' = [journal EXCEPT ![Len(journal)] = s]
      PROVE  FirstFresh'
    <2>1. journal[1].resume = None
        BY <1>2 DEF FirstFresh
    <2>2. [journal EXCEPT ![Len(journal)] = s][1].resume = None
        BY <1>1, <1>2, <2>1, FirstStays
    <2>3. QED
        BY <1>2, <2>2 DEF FirstFresh
<1>3. CASE StartProcess
    <2>1. PICK resume \in {None, latest, kept}, journaled \in BOOLEAN :
            /\ journaled => JournalAllows(resume)
            /\ journal' = IF journaled THEN Append(journal, Segment(resume)) ELSE journal
        BY <1>3 DEF StartProcess
    <2>2. CASE journaled /\ journal = <<>>
        <3>1. resume = None /\ journal' = Append(journal, Segment(resume))
            BY <2>1, <2>2 DEF JournalAllows
        <3>2. journal'[1] = Segment(resume)
            BY <1>1, <2>2, <3>1
        <3>3. QED
            BY <3>1, <3>2 DEF FirstFresh, Segment
    <2>3. CASE journaled /\ journal # <<>>
        <3>1. journal'[1] = journal[1]
            BY <1>1, <2>1, <2>3
        <3>2. QED
            BY <2>3, <3>1 DEF FirstFresh
    <2>4. CASE ~journaled
        BY <2>1, <2>4 DEF FirstFresh
    <2>5. QED
        BY <2>2, <2>3, <2>4
<1> DEFINE l == LastOf(journal)
<1>4. At("complete") \/ process.pc \notin {"idle", "complete"} => process.pc # "idle"
    BY DEF At
<1>5. process.pc # "idle" /\ process.journaled => journal # <<>> /\ l \in Segments
    BY <1>1 DEF IInv, JournalFollows, LastOf
<1>6. CASE Complete
    <2>1. CASE journal' = journal
        BY <2>1 DEF FirstFresh
    <2>2. CASE journal' # journal
        <3> DEFINE s == [l EXCEPT !.status = "completed", !.checkpoint = latest, !.final = latest.step]
        <3>1. process.journaled /\ journal # <<>> /\ l \in Segments
            BY <1>4, <1>5, <1>6, <2>2 DEF Complete
        <3>2. latest \in Checkpoints /\ latest.step \in Int
            BY <1>6, CheckpointsAreCheckpoints
            DEF Complete, IInv, MemoryExact, Processes, Checkpoints
        <3>3. journal' = [journal EXCEPT ![Len(journal)] = s]
            BY <1>6, <2>2, Zenon DEF Complete, WithCompleted
        <3>4. s \in Segments /\ s.resume = l.resume
            <4> DEFINE k == latest.step
            <4> HIDE DEF l, k
            <4>1. k \in Int
                BY <3>2 DEF k
            <4>2. [l EXCEPT !.status = "completed", !.checkpoint = latest, !.final = k] \in Segments
                BY <3>1, <3>2, <4>1 DEF Segments
            <4>3. QED
                BY <3>1, <4>2 DEF k, Segments
        <3> HIDE DEF s
        <3>5. QED
            BY <1>2, <3>1, <3>3, <3>4
    <2>3. QED
        BY <2>1, <2>2
<1>7. CASE Fail
    <2>1. CASE journal' = journal
        BY <2>1 DEF FirstFresh
    <2>2. CASE journal' # journal
        <3> DEFINE s == [l EXCEPT !.status = "failed"]
        <3>1. process.journaled /\ journal # <<>> /\ l \in Segments
            BY <1>4, <1>5, <1>7, <2>2 DEF Fail
        <3>2. journal' = [journal EXCEPT ![Len(journal)] = s]
            BY <1>7, <2>2, Zenon DEF Fail, WithFailed
        <3>3. s \in Segments /\ s.resume = l.resume
            <4> HIDE DEF l
            <4>1. QED
                BY <3>1 DEF Segments
        <3> HIDE DEF s
        <3>4. QED
            BY <1>2, <3>1, <3>2, <3>3
    <2>3. QED
        BY <2>1, <2>2
<1>8. CASE RemoveJournal
    BY <1>8 DEF RemoveJournal, FirstFresh
<1>9. CASE UNCHANGED journal
    BY <1>9 DEF FirstFresh
<1>10. \/ StartProcess
       \/ Complete
       \/ Fail
       \/ RemoveJournal
       \/ UNCHANGED journal
    BY DEF Next, Training, LoadCheckpoint, RemoveMetrics, RemoveSamples, TrainStep, AppendSample,
       WriteCheckpoint, ReplaceCheckpoint, Kill, KeepCheckpoint, Reporting, BeginReport, CopySamples,
       Publish, AbandonReport, files, vars
<1>11. QED
    BY <1>3, <1>6, <1>7, <1>8, <1>9, <1>10

\* A segment that the journal allows finds what it resumes from.
LEMMA StartFollows == IInv /\ Undisturbed /\ StartProcess /\ ~disturbed' => Clean'
<1> SUFFICES ASSUME IInv, Undisturbed, StartProcess, ~disturbed' PROVE Clean'
    OBVIOUS
<1>1. PICK resume \in {None, latest, kept}, boundary \in Boundaries, journaled \in BOOLEAN :
        /\ At("idle")
        /\ journaled => JournalAllows(resume)
        /\ process' = [Idle EXCEPT !.pc = "load", !.journaled = journaled, !.resume = resume,
                                   !.boundary = boundary]
        /\ disturbed' = IF journaled THEN disturbed /\ resume # None ELSE TRUE
        /\ UNCHANGED <<metrics, samples, latest>>
    BY Zenon DEF StartProcess
<1>2. journaled /\ JournalAllows(resume) /\ (resume # None => ~disturbed)
    BY <1>1
<1>3. process'.pc = "load" /\ process'.journaled = journaled /\ process'.resume = resume
    BY <1>1 DEF Idle
<1>4. ASSUME resume # None
      PROVE  latest' = resume /\ Recorded(resume.step + 1)'
    <2>1. journal # <<>> /\ Completed(journal) /\ resume = LastOf(journal).checkpoint
        BY <1>2, <1>4 DEF JournalAllows
    <2>2. latest = LastOf(journal).checkpoint /\ Recorded(LastOf(journal).final + 1)
        BY <1>1, <1>2, <1>4, <2>1 DEF Undisturbed, Clean, FilesFollow
    <2>3. LastOf(journal).final = LastOf(journal).checkpoint.step
        <3>1. journal \in Seq(Segments) /\ Linked(journal)
            BY DEF IInv, FilesExact, JournalFollows
        <3>2. Len(journal) \in 1 .. Len(journal)
            BY <2>1, <3>1
        <3>3. QED
            BY <2>1, <3>1, <3>2 DEF Linked, Completed, LastOf
    <2>4. Recorded(resume.step + 1)
        BY <2>1, <2>2, <2>3
    <2>5. QED
        BY <1>1, <2>1, <2>2, <2>4 DEF Recorded, Logged, Sampled
<1>5. QED
    BY <1>2, <1>3, <1>4 DEF Clean, FilesFollow, At

\* Loading finds the files as they were after the step of the checkpoint.
LEMMA LoadFollows == IInv /\ Clean /\ LoadCheckpoint => Clean'
<1> SUFFICES ASSUME IInv, Clean, LoadCheckpoint PROVE Clean'
    OBVIOUS
<1>1. At("load") /\ process.resume # None /\ process \in Processes /\ UNCHANGED <<metrics, samples>>
    BY DEF LoadCheckpoint, files, IInv, MemoryExact
<1>2. PICK k \in Nat : k = process.resume.step + 1
    BY <1>1, CheckpointsAreCheckpoints DEF Processes
<1>3. PICK s \in {"failed", "step"} : process' = [process EXCEPT !.pc = s, !.start = k, !.step = k]
    BY <1>2, Zenon DEF LoadCheckpoint
<1>4. process'.pc = s /\ process'.step = k /\ process'.journaled = process.journaled
    BY <1>1, <1>3 DEF Processes
<1>5. process.journaled /\ Recorded(k)
    BY <1>1, <1>2 DEF Clean, FilesFollow, At
<1>6. Recorded(k)'
    BY <1>1, <1>5 DEF Recorded, Logged, Sampled
<1>7. QED
    BY <1>4, <1>5, <1>6 DEF Clean, FilesFollow, At

\* A fresh segment starts with no records.
LEMMA ClearFollows == IInv /\ Clean /\ (RemoveMetrics \/ RemoveSamples) => Clean'
<1> SUFFICES ASSUME IInv, Clean, RemoveMetrics \/ RemoveSamples PROVE Clean'
    OBVIOUS
<1>1. process \in Processes
    BY DEF IInv, MemoryExact
<1>2. CASE RemoveMetrics
    <2>1. At("load") /\ metrics' = <<>> /\ process' = [process EXCEPT !.pc = "clear"]
        BY <1>2 DEF RemoveMetrics, GoTo
    <2>2. process'.pc = "clear" /\ process'.journaled = process.journaled
        BY <1>1, <2>1 DEF Processes
    <2>3. QED
        BY <2>1, <2>2 DEF Clean, FilesFollow, At
<1>3. CASE RemoveSamples
    <2>1. /\ At("clear") /\ samples' = <<>> /\ metrics' = metrics
          /\ process' = [process EXCEPT !.pc = "step"]
        BY <1>3 DEF RemoveSamples, GoTo
    <2>2. /\ process'.pc = "step" /\ process'.journaled = process.journaled
          /\ process'.step = 0
        BY <1>1, <2>1 DEF Processes, IInv, MemoryExact
    <2>3. process.journaled /\ metrics' = <<>>
        BY <2>1 DEF Clean, FilesFollow, At
    <2>4. Recorded(0)'
        <3>1. 0 \div SampleInterval = 0
            BY TrainingAssumption
        <3>2. Len(<<>>) = 0 /\ 1 .. 0 = {}
            OBVIOUS
        <3>3. QED
            BY <2>1, <2>3, <3>1, <3>2 DEF Recorded, Logged, Sampled
    <2>5. QED
        BY <2>2, <2>3, <2>4 DEF Clean, FilesFollow, At
<1>4. QED
    BY <1>2, <1>3

\* The next line.
LEMMA NextLogged ==
    ASSUME metrics \in Seq(Lines), NEW n \in Nat, Logged(n),
           NEW line \in Lines, line.step = n, metrics' = Append(metrics, line)
    PROVE  Logged(n + 1)'
<1>1. Len(metrics') = n + 1 /\ metrics'[n + 1] = line
    BY DEF Logged
<1>2. ASSUME NEW i \in 1 .. n + 1 PROVE metrics'[i].step = i - 1
    <2>1. CASE i = n + 1
        BY <1>1, <2>1
    <2>2. CASE i # n + 1
        <3>1. i \in 1 .. n /\ metrics'[i] = metrics[i]
            BY <2>2 DEF Logged
        <3>2. QED
            BY <3>1 DEF Logged
    <2>3. QED
        BY <2>1, <2>2
<1>3. QED
    BY <1>1, <1>2 DEF Logged

\* The sample that is due.
LEMMA NextSampled ==
    ASSUME samples \in Seq(Texts), NEW n \in Nat, Sampled(n), Due(n, SampleInterval),
           NEW text \in Texts, text.step = n, samples' = Append(samples, text)
    PROVE  Sampled(n + 1)'
<1> DEFINE k == n \div SampleInterval
           m == (n + 1) \div SampleInterval
           d == SampleInterval
<1>1. k \in Nat /\ m = k + 1 /\ d \in Nat
    BY EventsCounted, TrainingAssumption
<1>2. (k + 1) * d - 1 = n
    BY EventOfStep, TrainingAssumption
<1>3. Len(samples) = k /\ \A i \in 1 .. k : samples[i].step = i * d - 1
    BY DEF Sampled
<1>4. (Len(samples') = m /\ \A i \in 1 .. m : samples'[i].step = i * d - 1) => Sampled(n + 1)'
    BY DEF Sampled
<1> HIDE DEF k, m, d
<1>5. Len(samples') = k + 1 /\ samples'[k + 1] = text
    BY <1>3
<1>6. ASSUME NEW i \in 1 .. k + 1 PROVE samples'[i].step = i * d - 1
    <2>1. CASE i = k + 1
        BY <1>2, <1>5, <2>1
    <2>2. CASE i # k + 1
        <3>1. i \in 1 .. k /\ samples'[i] = samples[i]
            BY <1>1, <1>3, <2>2
        <3>2. QED
            BY <1>3, <3>1
    <2>3. QED
        BY <2>1, <2>2
<1>7. QED
    BY <1>1, <1>4, <1>5, <1>6

\* No sample is due after other steps.
LEMMA NoneSampled ==
    ASSUME NEW n \in Nat, Sampled(n), ~Due(n, SampleInterval), samples' = samples
    PROVE  Sampled(n + 1)'
<1>1. (n + 1) \div SampleInterval = n \div SampleInterval
    BY EventsCounted, TrainingAssumption
<1>2. QED
    BY <1>1 DEF Sampled

\* A step is logged, and past its sample nothing is missing.
LEMMA TrainFollows == IInv /\ Clean /\ TrainStep => Clean'
<1> SUFFICES ASSUME IInv, Clean, TrainStep PROVE Clean'
    OBVIOUS
<1>0. PICK n \in Nat : n = process.step
    BY DEF IInv, MemoryExact, Processes
<1>1. /\ process \in Processes /\ At("step") /\ ~process.saved
      /\ memory = Uninterrupted(n) /\ metrics \in Seq(Lines)
    BY <1>0 DEF TrainStep, IInv, MemoryExact, FilesExact, Processes, At
<1>2. /\ metrics' = Append(metrics, RecordOf(memory, n)) /\ samples' = samples
      /\ process' = AfterMetrics(process)
    BY <1>0 DEF TrainStep
<1>3. process.journaled /\ Logged(n) /\ Sampled(n)
    BY <1>0, <1>1 DEF Clean, FilesFollow, Recorded, At
<1>4. Logged(n + 1)'
    <2>1. RecordOf(memory, n) \in Lines /\ RecordOf(memory, n).step = n
        BY <1>1 DEF Lines, Line, RecordOf
    <2>2. QED
        BY <1>1, <1>2, <1>3, <2>1, NextLogged
<1>5. CASE Due(n, SampleInterval)
    <2>1. process' = [process EXCEPT !.pc = "sample"]
        BY <1>0, <1>2, <1>5 DEF AfterMetrics
    <2>2. process'.pc = "sample" /\ process'.step = n /\ process'.journaled
        BY <1>0, <1>1, <1>3, <2>1 DEF Processes
    <2>3. Sampled(n)'
        BY <1>2, <1>3 DEF Sampled
    <2>4. QED
        BY <1>4, <2>2, <2>3 DEF Clean, FilesFollow, At
<1>6. CASE ~Due(n, SampleInterval)
    <2>1. process' = AfterSample(process) /\ process.pc # "complete"
        BY <1>0, <1>1, <1>2, <1>6 DEF AfterMetrics, At
    <2>2. /\ process'.pc \in {"step", "save"} /\ process'.journaled
          /\ process'.pc = "step" => process'.step = n + 1
          /\ process'.pc = "save" => process'.step = n
        BY <1>1, <1>3, <2>1, <1>0, StageAfterSample
    <2>3. Sampled(n + 1)'
        BY <1>1, <1>2, <1>3, <1>6, NoneSampled
    <2>4. Recorded(n + 1)'
        BY <1>4, <2>3 DEF Recorded
    <2>5. QED
        BY <2>2, <2>4 DEF Clean, FilesFollow, At
<1>7. QED
    BY <1>5, <1>6

\* A sample completes its step.
LEMMA SampleFollows == IInv /\ Clean /\ AppendSample => Clean'
<1> SUFFICES ASSUME IInv, Clean, AppendSample PROVE Clean'
    OBVIOUS
<1>0. PICK n \in Nat : n = process.step
    BY DEF IInv, MemoryExact, Processes
<1>1. /\ process \in Processes /\ At("sample") /\ ~process.saved
      /\ memory = BeforeSample(n) /\ Due(n, SampleInterval) /\ process.pc # "complete"
      /\ samples \in Seq(Texts)
    BY <1>0 DEF AppendSample, IInv, MemoryExact, FilesExact, Processes, At
<1>2. /\ samples' = Append(samples, SampleOf(memory, n)) /\ metrics' = metrics
      /\ process' = AfterSample(process)
    BY <1>0 DEF AppendSample
<1>3. process.journaled /\ Logged(n + 1) /\ Sampled(n)
    BY <1>0, <1>1 DEF Clean, FilesFollow, At
<1>4. Sampled(n + 1)'
    <2>1. SampleOf(memory, n) \in Texts /\ SampleOf(memory, n).step = n
        BY <1>1 DEF Texts, Text, SampleOf
    <2>2. QED
        BY <1>1, <1>2, <1>3, <2>1, NextSampled
<1>5. Recorded(n + 1)'
    BY <1>2, <1>3, <1>4 DEF Recorded, Logged
<1>6. /\ process'.pc \in {"step", "save"} /\ process'.journaled
      /\ process'.pc = "step" => process'.step = n + 1
      /\ process'.pc = "save" => process'.step = n
    BY <1>1, <1>2, <1>3, <1>0, StageAfterSample
<1>7. QED
    BY <1>5, <1>6 DEF Clean, FilesFollow, At

\* Saving a checkpoint touches no record.
LEMMA SaveFollows == IInv /\ Clean /\ (WriteCheckpoint \/ ReplaceCheckpoint) => Clean'
<1> SUFFICES ASSUME IInv, Clean, WriteCheckpoint \/ ReplaceCheckpoint PROVE Clean'
    OBVIOUS
<1>1. /\ process \in Processes /\ process.pc \in {"save", "saving", "saved"}
      /\ UNCHANGED <<metrics, samples>>
    BY DEF IInv, MemoryExact, WriteCheckpoint, ReplaceCheckpoint, At
<1>2. PICK n \in Nat : n = process.step
    BY <1>1 DEF Processes
<1>3. process.journaled /\ Recorded(n + 1)
    BY <1>1, <1>2 DEF Clean, FilesFollow, At
<1>4. Recorded(n + 1)'
    BY <1>1, <1>3 DEF Recorded, Logged, Sampled
<1>5. CASE WriteCheckpoint
    <2>1. PICK s \in {"saving", "saved"} : process' = [process EXCEPT !.pc = s]
        BY <1>5 DEF WriteCheckpoint, GoTo
    <2>2. process'.pc = s /\ process'.step = n /\ process'.journaled
        BY <1>1, <1>2, <1>3, <2>1 DEF Processes
    <2>3. QED
        BY <1>4, <2>2 DEF Clean, FilesFollow, At
<1>6. CASE ReplaceCheckpoint
    <2> DEFINE p == [process EXCEPT !.saved = TRUE]
    <2>1. process' = AfterEvents(p) /\ process.pc = "saved"
        BY <1>6 DEF ReplaceCheckpoint, At
    <2>2. p \in Processes /\ p.pc = "saved" /\ p.step = n /\ p.journaled
        BY <1>1, <1>2, <1>3, <2>1 DEF Processes, Stages
    <2> HIDE DEF p
    <2>3. /\ process'.pc \in {"step", "complete", "save"} /\ process'.journaled
          /\ process'.pc = "step" => process'.step = n + 1
          /\ process'.pc # "step" => process'.step = n
        BY <2>1, <2>2, NextStage
    <2>4. QED
        BY <1>4, <2>3 DEF Clean, FilesFollow, At
<1>7. QED
    BY <1>5, <1>6

\* A segment that completes is the last, and all segments before it had.
LEMMA CompleteFollows == IInv /\ Clean /\ Complete => Clean'
<1> SUFFICES ASSUME IInv, Clean, Complete PROVE Clean'
    OBVIOUS
<1> DEFINE l == LastOf(journal)
           s == [l EXCEPT !.status = "completed", !.checkpoint = latest, !.final = latest.step]
<1>1. At("complete") /\ process.journaled /\ process' = Idle
      /\ UNCHANGED <<metrics, samples, latest>>
    BY DEF Complete, Clean, At
<1>2. /\ journal \in Seq(Segments) /\ journal # <<>> /\ Linked(journal)
      /\ l \in Segments
    BY <1>1 DEF IInv, FilesExact, JournalFollows, At, LastOf
<1>3. PICK n \in Nat : n = process.step
    BY DEF IInv, MemoryExact, Processes
<1>4. latest \in Checkpoints /\ latest.step = n
    BY <1>1, <1>3, CheckpointsAreCheckpoints
    DEF IInv, MemoryExact, Checkpoints, CheckpointOf, Checkpoint
<1>5. journal' = [journal EXCEPT ![Len(journal)] = s]
    BY <1>1, Zenon DEF Complete, WithCompleted
<1>6. s.status = "completed" /\ s.checkpoint = latest /\ s.final = n
    <2> HIDE DEF l
    <2>1. s = [l EXCEPT !.status = "completed", !.checkpoint = latest, !.final = n]
        BY <1>4
    <2> HIDE DEF s
    <2>2. QED
        BY <1>2, <2>1 DEF Segments
<1> HIDE DEF l, s
<1>7. /\ Len(journal') = Len(journal) /\ LastOf(journal') = s
      /\ \A i \in 1 .. Len(journal) : i # Len(journal) => journal'[i] = journal[i]
      /\ journal'[Len(journal)] = s
    BY <1>2, <1>5 DEF LastOf
<1>8. Completed(journal')
    BY <1>2, <1>6, <1>7 DEF Completed, Linked
<1>9. Recorded(n + 1)
    BY <1>1, <1>3 DEF Clean, FilesFollow, At
<1>10. Recorded(n + 1)'
    BY <1>1, <1>9 DEF Recorded, Logged, Sampled
<1>11. process'.pc = "idle"
    BY <1>1 DEF Idle
<1>12. latest' = LastOf(journal').checkpoint /\ LastOf(journal').final = n
    BY <1>1, <1>6, <1>7
<1>13. QED
    BY <1>8, <1>10, <1>11, <1>12 DEF Clean, FilesFollow, At

\* Neither copies nor the report touch what a segment needs, and a journal of
\* completed segments is not removed.
LEMMA OutsideFollows ==
    Clean /\ (KeepCheckpoint \/ RemoveJournal \/ Reporting \/ UNCHANGED vars) => Clean'
<1> SUFFICES ASSUME Clean, KeepCheckpoint \/ RemoveJournal \/ Reporting \/ UNCHANGED vars
             PROVE  Clean'
    OBVIOUS
<1>1. ~RemoveJournal
    BY DEF RemoveJournal, Clean, FilesFollow
<1>2. UNCHANGED <<process, metrics, samples, latest, journal>>
    BY <1>1 DEF KeepCheckpoint, Reporting, BeginReport, CopySamples, Publish, AbandonReport, files, vars
<1>3. QED
    BY <1>2 DEF Clean, FilesFollow, Recorded, Logged, Sampled, At

\* An experiment stays undisturbed, or is known to be disturbed.
LEMMA UndisturbedKept == IInv /\ Undisturbed /\ [Next]_vars => Undisturbed'
<1> SUFFICES ASSUME IInv, Undisturbed, [Next]_vars PROVE Undisturbed'
    OBVIOUS
<1>1. FirstFresh'
    BY FirstFreshKept DEF Undisturbed
<1>2. ASSUME ~disturbed' PROVE Clean'
    <2>1. CASE StartProcess
        BY <1>2, <2>1, StartFollows
    <2>2. ~Fail /\ ~Kill
        BY <1>2 DEF Fail, Kill
    <2>3. ASSUME ~StartProcess PROVE Clean'
        <3>1. disturbed' = disturbed
            BY <2>2, <2>3
            DEF Next, Training, LoadCheckpoint, RemoveMetrics, RemoveSamples, TrainStep,
                AppendSample, WriteCheckpoint, ReplaceCheckpoint, Complete, KeepCheckpoint,
                RemoveJournal, Reporting, BeginReport, CopySamples, Publish, AbandonReport, vars
        <3>2. Clean
            BY <1>2, <3>1 DEF Undisturbed
        <3>3. QED
            BY <2>2, <2>3, <3>2, LoadFollows, ClearFollows, TrainFollows, SampleFollows, SaveFollows,
               CompleteFollows, OutsideFollows DEF Next, Training
    <2>4. QED
        BY <2>1, <2>3
<1>3. QED
    BY <1>1, <1>2 DEF Undisturbed

\* In the beginning there is nothing.
LEMMA InitUndisturbed == Init => Undisturbed
BY DEF Init, Undisturbed, FirstFresh, Clean, FilesFollow, Idle, At, Completed

\* The losses of the lines of an uninterrupted run, and whether they have a
\* validation.
LEMMA LinesSay ==
    ASSUME NEW n \in Nat, NEW loss
    PROVE  /\ Line(n).step = n /\ LossOf(Line(n), loss) = loss[n + 1]
           /\ Line(n).val >= 0 <=> Due(n, EvalInterval)
<1>1. Line(n).step = n /\ Line(n).loss = Trained(Uninterrupted(n), n).weights
    BY DEF Line, RecordOf
<1>2. Len(Trained(Uninterrupted(n), n).weights) = n + 1
    <2>1. Trained(Uninterrupted(n), n).weights = Append(Uninterrupted(n).weights, <<n, n>>)
        BY DEF Trained, Uninterrupted
    <2>2. Uninterrupted(n).weights = [i \in 1 .. n |-> <<i - 1, i - 1>>]
        BY DEF Uninterrupted
    <2>3. [i \in 1 .. n |-> <<i - 1, i - 1>>] \in Seq(Nat \X Nat)
            /\ Len([i \in 1 .. n |-> <<i - 1, i - 1>>]) = n
        OBVIOUS
    <2>4. QED
        BY <2>1, <2>2, <2>3
<1>3. Uninterrupted(n).val >= 0
    <2>1. n \div EvalInterval \in Nat
        BY EventsCounted, TrainingAssumption
    <2>2. Uninterrupted(n).val = EvalBatches * (n \div EvalInterval)
        BY DEF Uninterrupted
    <2> DEFINE e == n \div EvalInterval
    <2> HIDE DEF e
    <2>3. EvalBatches * e >= 0
        BY <2>1, TrainingAssumption DEF e
    <2>4. QED
        BY <2>2, <2>3 DEF e
<1>4. Line(n).val = IF Due(n, EvalInterval) THEN Uninterrupted(n).val ELSE -1
    BY DEF Line, RecordOf
<1>5. Line(n).val >= 0 <=> Due(n, EvalInterval)
    BY <1>3, <1>4
<1>6. QED
    BY <1>1, <1>2, <1>5 DEF LossOf

\* Something is due within n steps if and only if there are as many steps as
\* its interval.
LEMMA DueWithin ==
    ASSUME NEW n \in Nat, NEW d \in Nat \ {0}
    PROVE  (\E i \in 1 .. n : Due(i - 1, d)) <=> d <= n
<1>1. Due(d - 1, d)
    BY SMTT(30) DEF Due
<1>2. ASSUME NEW i \in 1 .. n, Due(i - 1, d), i < d PROVE FALSE
    <2>1. i % d = i
        BY <1>2, SMTT(30)
    <2>2. QED
        BY <1>2, <2>1 DEF Due
<1>3. QED
    BY <1>1, <1>2

\* What the report finds of the metrics of all steps: it takes them if the
\* experiment had a validation, and losses that are finite and have come down.
LEMMA MetricsOfAllSteps ==
    ASSUME IInv, Logged(MaxSteps), NEW loss \in Losses
    PROVE  (MetricsRead(loss) /\ MetricsValid(loss) /\ Validated) <=>
             /\ EvalInterval <= MaxSteps
             /\ \A n \in 1 .. MaxSteps : loss[n] # NotFinite
             /\ 10 * loss[MaxSteps] <= 9 * loss[1]
<1>1. /\ MaxSteps \in Nat \ {0} /\ EvalInterval \in Nat \ {0}
      /\ metrics \in Seq(Lines) /\ Len(metrics) = MaxSteps
      /\ \A i \in 1 .. MaxSteps : metrics[i].step = i - 1
    BY TrainingAssumption DEF IInv, FilesExact, Logged
<1>2. \A i \in 1 .. MaxSteps : metrics[i] = Line(i - 1)
    BY <1>1, StepsInOrder
<1>3. ASSUME NEW i \in 1 .. MaxSteps
      PROVE  /\ LossOf(metrics[i], loss) = loss[i]
             /\ metrics[i].val >= 0 <=> Due(i - 1, EvalInterval)
    <2>1. i - 1 \in Nat /\ i - 1 + 1 = i /\ metrics[i] = Line(i - 1)
        BY <1>2
    <2>2. QED
        BY <2>1, LinesSay
<1>4. MetricsRead(loss) <=> \A n \in 1 .. MaxSteps : loss[n] # NotFinite
    BY <1>1, <1>3 DEF MetricsRead
<1>5. MetricsValid(loss) <=> 10 * loss[MaxSteps] <= 9 * loss[1]
    <2>1. LossOf(metrics[MaxSteps], loss) = loss[MaxSteps] /\ LossOf(metrics[1], loss) = loss[1]
        BY <1>1, <1>3
    <2>2. QED
        BY <1>1, <1>3, <2>1 DEF MetricsValid
<1>6. Validated <=> EvalInterval <= MaxSteps
    <2>1. Validated <=> \E i \in 1 .. MaxSteps : Due(i - 1, EvalInterval)
        BY <1>1, <1>3 DEF Validated
    <2>2. QED
        BY <1>1, <2>1, DueWithin
<1>7. QED
    BY <1>4, <1>5, <1>6

\* What it finds of their samples: it takes them if the last step has one.
LEMMA SamplesOfAllSteps ==
    ASSUME IInv, Sampled(MaxSteps)
    PROVE  SamplesValid <=> Due(MaxSteps - 1, SampleInterval)
<1> DEFINE k == MaxSteps \div SampleInterval
<1>1. /\ MaxSteps \in Nat \ {0} /\ MaxSteps - 1 \in Nat /\ MaxSteps - 1 + 1 = MaxSteps
      /\ SampleInterval \in Nat \ {0}
    BY TrainingAssumption
<1>2. k \in Nat
    BY <1>1, EventsCounted
<1>3. /\ SampleSteps = [i \in 1 .. k |-> i * SampleInterval - 1]
      /\ Len(samples) = k /\ \A i \in 1 .. k : samples[i].step = i * SampleInterval - 1
    BY DEF SampleSteps, Sampled
<1>4. ASSUME Due(MaxSteps - 1, SampleInterval) PROVE k >= 1 /\ k * SampleInterval - 1 = MaxSteps - 1
    <2>1. k = (MaxSteps - 1) \div SampleInterval + 1
        BY <1>1, <1>4, EventsCounted
    <2>2. ((MaxSteps - 1) \div SampleInterval + 1) * SampleInterval - 1 = MaxSteps - 1
        BY <1>1, <1>4, EventOfStep
    <2>3. (MaxSteps - 1) \div SampleInterval \in Nat
        BY <1>1, EventsCounted
    <2>4. QED
        BY <2>1, <2>2, <2>3
<1>5. ASSUME k * SampleInterval - 1 = MaxSteps - 1 PROVE Due(MaxSteps - 1, SampleInterval)
    <2> HIDE DEF k
    <2>1. MaxSteps = SampleInterval * k + 0
        <3>1. k * SampleInterval = SampleInterval * k /\ k * SampleInterval \in Nat
            BY <1>1, <1>2
        <3>2. QED
            BY <1>1, <1>5, <3>1
    <2>2. MaxSteps % SampleInterval = 0
        BY <1>1, <1>2, <2>1, SMTT(30)
    <2>3. QED
        BY <1>1, <2>2 DEF Due
<1> HIDE DEF k
<1>6. Len(SampleSteps) = k /\ (SampleSteps # <<>> <=> k >= 1)
    BY <1>2, <1>3
<1>7. k >= 1 => LastOf(SampleSteps) = k * SampleInterval - 1
    BY <1>2, <1>3, <1>6 DEF LastOf
<1>8. \A i \in 1 .. Len(samples) : samples[i].step = SampleSteps[i]
    BY <1>2, <1>3
<1>9. QED
    BY <1>2, <1>3, <1>4, <1>5, <1>6, <1>7, <1>8 DEF SamplesValid

-----------------------------------------------------------------------------
(* Theorems.                                                               *)

\* What holds in every reachable state.
LEMMA AlwaysExact == Spec => [](IInv /\ ReportsExact)
<1>1. Init => ReportsExact
    BY DEF Init, ReportsExact
<1>2. QED
    BY <1>1, InitExact, NextKeeps, ReportsKeep, PTL DEF Spec

\* For every schedule and all boundaries, wherever processes are killed, every
\* step continues, and every checkpoint holds, what an uninterrupted run has.
THEOREM ResumeExact == Spec => []ExactResume
<1>1. IInv => ExactResume
    <2> SUFFICES ASSUME IInv PROVE ExactResume
        OBVIOUS
    <2>1. At("step") => memory = Uninterrupted(process.step)
        BY DEF IInv, MemoryExact
    <2>2. \A c \in {latest, kept} \ {None} :
             c.kind = "checkpoint" /\ c.state = Uninterrupted(c.step + 1)
        BY CheckpointsAreCheckpoints DEF IInv, FilesExact
    <2>3. QED
        BY <2>1, <2>2 DEF ExactResume
<1>2. QED
    BY <1>1, AlwaysExact, PTL

\* For any number of processes, with or without a journal, the journal is a
\* chain of segments that each continue what the one before them wrote.
THEOREM JournalTrue == Spec => []JournalTruthful
<1>1. IInv => JournalTruthful
    <2> SUFFICES ASSUME IInv, NEW i \in 1 .. Len(journal)
                 PROVE  /\ i < Len(journal) => journal[i].status = "completed"
                        /\ journal[i].status = "completed" =>
                             /\ journal[i].checkpoint.kind = "checkpoint"
                             /\ journal[i].final = journal[i].checkpoint.step
                        /\ i > 1 =>
                             /\ journal[i].resume = journal[i - 1].checkpoint
                             /\ journal[i].status = "completed" =>
                                  journal[i].final > journal[i - 1].final
        BY DEF JournalTruthful
    <2>1. Linked(journal) /\ journal \in Seq(Segments)
        BY DEF IInv, JournalFollows, FilesExact
    <2>2. /\ i < Len(journal) => journal[i].status = "completed"
          /\ journal[i].status = "completed" =>
               /\ journal[i].checkpoint \in Checkpoints
               /\ journal[i].final = journal[i].checkpoint.step
               /\ journal[i].resume # None => journal[i].final > journal[i].resume.step
          /\ i > 1 => journal[i].resume = journal[i - 1].checkpoint
        BY <2>1 DEF Linked
    <2>3. journal[i].status = "completed" => journal[i].checkpoint.kind = "checkpoint"
        BY <2>2, CheckpointsAreCheckpoints
    <2>4. ASSUME i > 1, journal[i].status = "completed"
          PROVE  journal[i].final > journal[i - 1].final
        <3>1. i - 1 \in 1 .. Len(journal) /\ i - 1 < Len(journal)
            BY <2>4, <2>1
        <3>2. /\ journal[i - 1].checkpoint \in Checkpoints
              /\ journal[i - 1].final = journal[i - 1].checkpoint.step
            BY <2>1, <3>1 DEF Linked
        <3>3. journal[i - 1].checkpoint # None
            BY <3>2, CheckpointsAreCheckpoints
        <3>4. QED
            BY <2>2, <2>4, <3>2, <3>3
    <2>5. QED
        BY <2>2, <2>3, <2>4
<1>2. QED
    BY <1>1, AlwaysExact, PTL

\* Whatever happened to the processes, a published report is the uninterrupted
\* run's.
THEOREM ReportTrue == Spec => []ReportSound
<1>1. ReportsExact => ReportSound
    <2> SUFFICES ASSUME ReportsExact, published # None
                 PROVE  /\ published.metrics = UninterruptedMetrics
                        /\ published.samples = UninterruptedSamples
                        /\ published.checkpoint = Checkpoint(Uninterrupted(MaxSteps), MaxSteps - 1)
        BY DEF ReportSound
    <2>1. published \in Reports
        BY DEF ReportsExact
    <2>2. MaxSteps - 1 + 1 = MaxSteps
        BY TrainingAssumption
    <2>3. QED
        BY <2>1, <2>2 DEF Reports, CheckpointOf
<1>2. QED
    BY <1>1, AlwaysExact, PTL

\* For every schedule, all losses and all boundaries: the files of segments
\* which began and ended as they should are accepted if and only if there are
\* two of them and the experiment is reportable.
THEOREM SegmentsAlwaysSuffice == Spec => []SegmentsSuffice
<1>1. IInv /\ Undisturbed => SegmentsSuffice
    <2> SUFFICES ASSUME IInv, Undisturbed, At("idle"), ~disturbed, journal # <<>>,
                        LastOf(journal).final = MaxSteps - 1, NEW loss \in Losses
                 PROVE  Accepted(loss) <=> Len(journal) >= 2 /\ Reportable(loss)
        BY DEF SegmentsSuffice
    <2>1. journal \in Seq(Segments) /\ Linked(journal) /\ journal # <<>>
        BY DEF IInv, FilesExact, JournalFollows
    <2>2. /\ Completed(journal) /\ latest = LastOf(journal).checkpoint
          /\ Recorded(LastOf(journal).final + 1) /\ journal[1].resume = None
        BY <2>1 DEF Undisturbed, Clean, FilesFollow, FirstFresh
    <2>3. LastOf(journal).final = latest.step /\ latest \in Checkpoints
        <3>1. Len(journal) \in 1 .. Len(journal)
            BY <2>1
        <3>2. QED
            BY <2>1, <2>2, <3>1 DEF Linked, Completed, LastOf
    <2>4. latest # None
        BY <2>3, CheckpointsAreCheckpoints
    <2>5. Logged(MaxSteps) /\ Sampled(MaxSteps)
        <3>1. MaxSteps - 1 + 1 = MaxSteps
            BY TrainingAssumption
        <3>2. QED
            BY <2>2, <3>1 DEF Recorded
    <2>6. (MetricsRead(loss) /\ MetricsValid(loss) /\ Validated /\ SamplesValid) <=> Reportable(loss)
        BY <2>5, MetricsOfAllSteps, SamplesOfAllSteps DEF Reportable
    <2>7. \A i \in 2 .. Len(journal) : journal[i].resume = journal[i - 1].checkpoint
        BY <2>1 DEF Linked
    <2>8. JournalValid <=> Len(journal) >= 2
        BY <2>2, <2>3, <2>7 DEF JournalValid
    <2>9. QED
        BY <2>3, <2>4, <2>6, <2>8 DEF Accepted
<1>2. QED
    BY <1>1, AlwaysExact, InitUndisturbed, UndisturbedKept, PTL DEF Spec

-----------------------------------------------------------------------------
(* The two files of a comparison, write_comparison().                      *)

\* The stages of a process of write_comparison().
WriterStages ==
  {"begin", "json exists", "json", "markdown exists", "markdown", "remove",
   "written", "refused", "raised", "left"}

WritersTyped ==
  /\ place \in [Reporters -> WriterStages]
  /\ json \in Reporters \cup {0} /\ markdown \in Reporters \cup {0}
  /\ overlapped \in BOOLEAN

\* What the only process at work knows of the files.
WriterKnows(p) ==
  /\ place[p] \in {"json exists", "json"} => json = 0 /\ markdown = 0
  /\ place[p] \in {"markdown exists", "markdown", "remove"} => json = p /\ markdown = 0

\* As long as none begins while another is at it, one at most is at work.
WritersInv ==
  /\ WritersTyped
  /\ ~overlapped =>
       /\ \A p, q \in Busy : p = q
       /\ \A p \in Reporters : WriterKnows(p)
  /\ ReportsPaired

\* Before the first process begins there is no file and nobody at work.
LEMMA WritersBegin == ReportInit => WritersInv
<1> SUFFICES ASSUME ReportInit PROVE WritersInv
  OBVIOUS
<1>1. WritersTyped
  BY DEF ReportInit, WritersTyped, WriterStages
<1>2. \A p \in Reporters : place[p] = "begin"
  BY DEF ReportInit
<1>3. QED BY <1>1, <1>2 DEF WritersInv, ReportInit, Busy, Ended, WriterKnows, ReportsPaired

\* Every step of write_comparison() keeps what its processes know.
LEMMA WritersStep == WritersInv /\ [ReportNext]_reportVars => WritersInv'
<1> SUFFICES ASSUME WritersInv, [ReportNext]_reportVars PROVE WritersInv'
  OBVIOUS
<1> USE ComparisonAssumption DEF ComparisonAssumption
<1>1. CASE UNCHANGED reportVars
  BY <1>1 DEF reportVars, WritersInv, WritersTyped, Busy, WriterKnows, ReportsPaired
<1>2. ASSUME NEW p \in Reporters, BeginComparison(p) PROVE WritersInv'
  <2>1. WritersTyped'
    BY <1>2 DEF WritersInv, WritersTyped, BeginComparison, WriterTo, WriterStages
  <2>2. ~overlapped' => \A q, r \in Busy' : q = r
    BY <1>2 DEF WritersInv, WritersTyped, BeginComparison, WriterTo, Busy, Ended
  <2>3. ~overlapped' => \A q \in Reporters : WriterKnows(q)'
    BY <1>2 DEF WritersInv, WritersTyped, BeginComparison, WriterTo, Busy, Ended, WriterKnows
  <2>4. ReportsPaired'
    BY <1>2 DEF WritersInv, WritersTyped, BeginComparison, WriterTo, Busy, Ended, WriterKnows, ReportsPaired
  <2>5. QED BY <2>1, <2>2, <2>3, <2>4 DEF WritersInv
<1>3. ASSUME NEW p \in Reporters, FindJson(p) PROVE WritersInv'
  <2>1. WritersTyped'
    BY <1>3 DEF WritersInv, WritersTyped, FindJson, WriterTo, WriterStages
  <2>2. ~overlapped' => \A q, r \in Busy' : q = r
    BY <1>3 DEF WritersInv, WritersTyped, FindJson, WriterTo, Busy, Ended
  <2>3. ~overlapped' => \A q \in Reporters : WriterKnows(q)'
    BY <1>3 DEF WritersInv, WritersTyped, FindJson, WriterTo, Busy, Ended, WriterKnows
  <2>4. ReportsPaired'
    BY <1>3 DEF WritersInv, WritersTyped, FindJson, WriterTo, Busy, Ended, WriterKnows, ReportsPaired
  <2>5. QED BY <2>1, <2>2, <2>3, <2>4 DEF WritersInv
<1>4. ASSUME NEW p \in Reporters, WriteJson(p) PROVE WritersInv'
  <2>1. WritersTyped'
    BY <1>4 DEF WritersInv, WritersTyped, WriteJson, WriterTo, WriterStages
  <2>2. ~overlapped' => \A q, r \in Busy' : q = r
    BY <1>4 DEF WritersInv, WritersTyped, WriteJson, WriterTo, Busy, Ended
  <2>3. ~overlapped' => \A q \in Reporters : WriterKnows(q)'
    <3> SUFFICES ASSUME ~overlapped', NEW q \in Reporters PROVE WriterKnows(q)'
      OBVIOUS
    <3>1. ~overlapped /\ place[p] = "json" /\ p \in Busy
      BY <1>4 DEF WriteJson, Busy, Ended
    <3>2. CASE q = p
      BY <1>4, <3>1, <3>2 DEF WritersInv, WritersTyped, WriteJson, WriterTo, WriterKnows
    <3>3. CASE q # p
      <4>1. q \notin Busy
        BY <3>1, <3>3 DEF WritersInv
      <4>2. place'[q] = place[q] /\ place[q] \in Ended \cup {"begin"}
        BY <1>4, <3>3, <4>1 DEF WritersInv, WritersTyped, WriteJson, WriterTo, Busy
      <4>3. QED BY <4>2 DEF WriterKnows, Ended
    <3>4. QED BY <3>2, <3>3
  <2>4. ReportsPaired'
    BY <1>4 DEF WritersInv, WritersTyped, WriteJson, WriterTo, Busy, Ended, WriterKnows, ReportsPaired
  <2>5. QED BY <2>1, <2>2, <2>3, <2>4 DEF WritersInv
<1>5. ASSUME NEW p \in Reporters, JsonFails(p) PROVE WritersInv'
  <2>1. WritersTyped'
    BY <1>5 DEF WritersInv, WritersTyped, JsonFails, WriterTo, WriterStages
  <2>2. ~overlapped' => \A q, r \in Busy' : q = r
    BY <1>5 DEF WritersInv, WritersTyped, JsonFails, WriterTo, Busy, Ended
  <2>3. ~overlapped' => \A q \in Reporters : WriterKnows(q)'
    BY <1>5 DEF WritersInv, WritersTyped, JsonFails, WriterTo, Busy, Ended, WriterKnows
  <2>4. ReportsPaired'
    BY <1>5 DEF WritersInv, WritersTyped, JsonFails, WriterTo, Busy, Ended, WriterKnows, ReportsPaired
  <2>5. QED BY <2>1, <2>2, <2>3, <2>4 DEF WritersInv
<1>6. ASSUME NEW p \in Reporters, FindMarkdown(p) PROVE WritersInv'
  <2>1. WritersTyped'
    BY <1>6 DEF WritersInv, WritersTyped, FindMarkdown, WriterTo, WriterStages
  <2>2. ~overlapped' => \A q, r \in Busy' : q = r
    BY <1>6 DEF WritersInv, WritersTyped, FindMarkdown, WriterTo, Busy, Ended
  <2>3. ~overlapped' => \A q \in Reporters : WriterKnows(q)'
    BY <1>6 DEF WritersInv, WritersTyped, FindMarkdown, WriterTo, Busy, Ended, WriterKnows
  <2>4. ReportsPaired'
    BY <1>6 DEF WritersInv, WritersTyped, FindMarkdown, WriterTo, Busy, Ended, WriterKnows, ReportsPaired
  <2>5. QED BY <2>1, <2>2, <2>3, <2>4 DEF WritersInv
<1>7. ASSUME NEW p \in Reporters, WriteMarkdown(p) PROVE WritersInv'
  <2>1. WritersTyped'
    BY <1>7 DEF WritersInv, WritersTyped, WriteMarkdown, WriterTo, WriterStages
  <2>2. ~overlapped' => \A q, r \in Busy' : q = r
    BY <1>7 DEF WritersInv, WritersTyped, WriteMarkdown, WriterTo, Busy, Ended
  <2>3. ~overlapped' => \A q \in Reporters : WriterKnows(q)'
    BY <1>7 DEF WritersInv, WritersTyped, WriteMarkdown, WriterTo, Busy, Ended, WriterKnows
  <2>4. ReportsPaired'
    BY <1>7 DEF WritersInv, WritersTyped, WriteMarkdown, WriterTo, Busy, Ended, WriterKnows, ReportsPaired
  <2>5. QED BY <2>1, <2>2, <2>3, <2>4 DEF WritersInv
<1>8. ASSUME NEW p \in Reporters, MarkdownFails(p) PROVE WritersInv'
  <2>1. WritersTyped'
    BY <1>8 DEF WritersInv, WritersTyped, MarkdownFails, WriterTo, WriterStages
  <2>2. ~overlapped' => \A q, r \in Busy' : q = r
    BY <1>8 DEF WritersInv, WritersTyped, MarkdownFails, WriterTo, Busy, Ended
  <2>3. ~overlapped' => \A q \in Reporters : WriterKnows(q)'
    BY <1>8 DEF WritersInv, WritersTyped, MarkdownFails, WriterTo, Busy, Ended, WriterKnows
  <2>4. ReportsPaired'
    BY <1>8 DEF WritersInv, WritersTyped, MarkdownFails, WriterTo, Busy, Ended, WriterKnows, ReportsPaired
  <2>5. QED BY <2>1, <2>2, <2>3, <2>4 DEF WritersInv
<1>9. ASSUME NEW p \in Reporters, RemoveJson(p) PROVE WritersInv'
  <2>1. WritersTyped'
    BY <1>9 DEF WritersInv, WritersTyped, RemoveJson, WriterTo, WriterStages
  <2>2. ~overlapped' => \A q, r \in Busy' : q = r
    BY <1>9 DEF WritersInv, WritersTyped, RemoveJson, WriterTo, Busy, Ended
  <2>3. ~overlapped' => \A q \in Reporters : WriterKnows(q)'
    BY <1>9 DEF WritersInv, WritersTyped, RemoveJson, WriterTo, Busy, Ended, WriterKnows
  <2>4. ReportsPaired'
    BY <1>9 DEF WritersInv, WritersTyped, RemoveJson, WriterTo, Busy, Ended, WriterKnows, ReportsPaired
  <2>5. QED BY <2>1, <2>2, <2>3, <2>4 DEF WritersInv
<1>10. ASSUME NEW p \in Reporters, LeaveReport(p) PROVE WritersInv'
  <2>1. WritersTyped'
    BY <1>10 DEF WritersInv, WritersTyped, LeaveReport, WriterTo, WriterStages
  <2>2. ~overlapped' => \A q, r \in Busy' : q = r
    BY <1>10 DEF WritersInv, WritersTyped, LeaveReport, WriterTo, Busy, Ended
  <2>3. ~overlapped' => \A q \in Reporters : WriterKnows(q)'
    BY <1>10 DEF WritersInv, WritersTyped, LeaveReport, WriterTo, Busy, Ended, WriterKnows
  <2>4. ReportsPaired'
    BY <1>10 DEF WritersInv, WritersTyped, LeaveReport, WriterTo, Busy, Ended, WriterKnows, ReportsPaired
  <2>5. QED BY <2>1, <2>2, <2>3, <2>4 DEF WritersInv
<1>11. QED BY <1>1, <1>2, <1>3, <1>4, <1>5, <1>6, <1>7, <1>8, <1>9, <1>10 DEF ReportNext

\* write_comparison(), for any number of processes: as long as they come one after
\* another they leave both files of one of them or none, except where one was
\* killed or could not remove its first file; what was written stays.
THEOREM ReportsAlwaysPaired == ReportSpec => []ReportsPaired
<1>1. ReportSpec => []WritersInv
  BY WritersBegin, WritersStep, PTL DEF ReportSpec
<1>2. WritersInv => ReportsPaired
  BY DEF WritersInv
<1>3. QED BY <1>1, <1>2, PTL

-----------------------------------------------------------------------------
(* A run of Benchmark v2.                                                  *)

\* Lines of the raw file, and of the memory.
RawLines == [task : Nat, response : Responses, status : {"ok", "error"}]
RawFiles == [lines : Seq(RawLines), tail : Tails]

\* Where the records are complete in the raw file; where the status is final.
Rewritten == {"summary.csv", "summary.md", "order", "manifest"}
Closing == {"except close", "environment", "config", "raw", "unlink"} \cup Rewritten
Places ==
  {"create order", "create state", "precondition", "execute", "append", "rollback", "remember",
   "except", "close", "state", "ended"} \cup Closing

RunStates ==
  [at : Places, records : Seq(RawLines), record : RawLines \cup {NoFile},
   status : {"running", "complete", "partial", "failed"},
   preconditioning : {"skipped", "complete", "failed"}]

RunTyped == run \in RunStates /\ answers \in Seq(Responses)

\* The records of a run are those of the first tasks, and what their workers
\* answered; one answer more is on its way to its record, or was lost.
RecordsTrue ==
  /\ Len(run.records) <= NTasks
  /\ Len(answers) \in {Len(run.records), Len(run.records) + 1}
  /\ \A i \in 1 .. Len(run.records) : run.records[i] = Record(i, answers[i])
  /\ run.at \in {"create order", "create state", "precondition"} =>
       run.records = <<>> /\ answers = <<>>
  /\ run.at = "execute" => Len(answers) = Len(run.records)
  /\ run.at \in {"append", "remember"} =>
       /\ Len(answers) = Len(run.records) + 1 /\ Len(answers) <= NTasks
       /\ run.record = Record(Len(answers), answers[Len(answers)])

\* The raw file has every record that was appended or that is in memory.
RawTrue ==
  /\ raw \in RawFiles /\ durable \in Nat
  /\ Len(raw.lines) <= Len(answers)
  /\ \A i \in 1 .. Len(raw.lines) : raw.lines[i] = Record(i, answers[i])
  /\ durable \in {Len(run.records), Len(run.records) + 1}
  /\ Len(raw.lines) \in {durable, Len(run.records)}
  /\ run.at \in {"precondition", "execute", "append"} =>
       Len(raw.lines) = Len(run.records) /\ durable = Len(run.records)
  /\ run.at = "remember" =>
       Len(raw.lines) = Len(run.records) + 1 /\ durable = Len(run.records) + 1
  /\ run.at \in Rewritten => raw = [lines |-> run.records, tail |-> "none"]

EvidenceTrue ==
  \/ raw = NoFile /\ durable = 0 /\ run.at \in {"create order", "create state", "ended"}
  \/ RawTrue /\ run.at \notin {"create order", "create state"}

\* Tasks run after a preconditioning that did not fail.
Preconditioned ==
  /\ run.records # <<>> => run.preconditioning # "failed"
  /\ run.at \in {"execute", "append", "remember"} => run.preconditioning # "failed"

ManifestTrue ==
  \/ manifest = NoFile
  \/ /\ run.at \in {"unlink", "ended"}
     /\ manifest.status = FinalStatus(Config, run.records)
     /\ manifest.completed = Len(run.records)
     /\ manifest.successful = Count(run.records, "ok")
     /\ manifest.failed = Count(run.records, "error")
     /\ manifest.preconditioning = run.preconditioning
     /\ manifest.bound["raw"] = [lines |-> run.records, tail |-> "none"]

BenchmarkInv ==
  /\ RunTyped /\ RecordsTrue /\ EvidenceTrue /\ Preconditioned /\ ManifestTrue
  /\ run.at \in Closing => run.status = FinalStatus(Config, run.records)

\* What execute_worker() returns is a line.
LEMMA RecordIsLine ==
  ASSUME NEW task \in Nat, NEW response \in Responses
  PROVE  Record(task, response) \in RawLines
BY DEF Record, RawLines

\* A record is of its task, keeps the response, and is a success if it was measured.
LEMMA RecordFacts ==
  ASSUME NEW task, NEW response
  PROVE  /\ Record(task, response).task = task
         /\ Record(task, response).response = response
         /\ Record(task, response).status = "ok" <=> Measured(response)
BY DEF Record, Measured

\* Every record is a success or a failure: the two counts of the manifest add up.
LEMMA CountsAdd ==
  ASSUME NEW records \in Seq(RawLines)
  PROVE  /\ Count(records, "ok") \in Nat /\ Count(records, "error") \in Nat
         /\ Count(records, "ok") + Count(records, "error") = Len(records)
<1> DEFINE good == {i \in DOMAIN records : records[i].status = "ok"}
           bad == {i \in DOMAIN records : records[i].status = "error"}
<1>1. DOMAIN records = 1 .. Len(records) /\ Len(records) \in Nat
  OBVIOUS
<1>2. IsFiniteSet(1 .. Len(records)) /\ Cardinality(1 .. Len(records)) = Len(records)
  BY <1>1, FirstNumbers
<1>3. \A i \in DOMAIN records : records[i].status \in {"ok", "error"}
  <2>1. ASSUME NEW i \in 1 .. Len(records) PROVE records[i] \in RawLines
    OBVIOUS
  <2>2. ASSUME NEW line \in RawLines PROVE line.status \in {"ok", "error"}
    BY DEF RawLines
  <2>3. QED BY <1>1, <2>1, <2>2
<1>4. good \cup bad = 1 .. Len(records) /\ good \cap bad = {}
  BY <1>1, <1>3
<1> HIDE DEF good, bad
<1>5. IsFiniteSet(good) /\ IsFiniteSet(bad)
  <2>1. good \subseteq 1 .. Len(records) /\ bad \subseteq 1 .. Len(records)
    BY <1>4
  <2>2. QED BY <2>1, <1>2, FS_Subset
<1>6. Cardinality({}) = 0
  BY FS_EmptySet
<1>7. Cardinality(good \cup bad) = Cardinality(good) + Cardinality(bad) - Cardinality(good \cap bad)
  BY <1>5, FS_Union
<1>8. Cardinality(good) \in Nat /\ Cardinality(bad) \in Nat
  BY <1>5, FS_CardinalityType
<1>9. Cardinality(good) + Cardinality(bad) = Len(records)
  <2>1. Cardinality(good \cap bad) = 0
    BY <1>4, <1>6
  <2>2. Cardinality(good \cup bad) = Len(records)
    BY <1>2, <1>4
  <2>3. Len(records) = Cardinality(good) + Cardinality(bad) - 0
    BY <1>7, <2>1, <2>2
  <2>4. QED BY <1>8, <2>3
<1>10. Count(records, "ok") = Cardinality(good) /\ Count(records, "error") = Cardinality(bad)
  BY DEF Count, good, bad
<1>11. QED BY <1>8, <1>9, <1>10

\* The successes among the records of the first tasks: none if no worker measured,
\* all if each of them did.
LEMMA CountsOfMeasured ==
  ASSUME NEW records \in Seq(RawLines), NEW given \in Seq(Responses), Len(records) <= Len(given),
         \A i \in 1 .. Len(records) : records[i] = Record(i, given[i])
  PROVE  /\ Count(records, "ok") = 0
              <=> {i \in 1 .. Len(records) : Measured(given[i])} = {}
         /\ Count(records, "ok") = Len(records)
              <=> {i \in 1 .. Len(records) : Measured(given[i])} = 1 .. Len(records)
<1> DEFINE good == {i \in 1 .. Len(records) : Measured(given[i])}
<1>1. DOMAIN records = 1 .. Len(records) /\ Len(records) \in Nat
  OBVIOUS
<1>2. IsFiniteSet(1 .. Len(records)) /\ Cardinality(1 .. Len(records)) = Len(records)
  BY <1>1, FirstNumbers
<1>3. ASSUME NEW i \in 1 .. Len(records)
      PROVE  records[i].status = "ok" <=> Measured(given[i])
  <2>1. records[i] = Record(i, given[i])
    BY <1>3
  <2>2. QED BY <2>1, RecordFacts
<1>4. {i \in DOMAIN records : records[i].status = "ok"} = good
  BY <1>1, <1>3
<1>5. good \subseteq 1 .. Len(records)
  OBVIOUS
<1> HIDE DEF good
<1>6. Count(records, "ok") = Cardinality(good)
  BY <1>4 DEF Count
<1>7. IsFiniteSet(good)
  BY <1>2, <1>5, FS_Subset
<1>8. Cardinality(good) = 0 <=> good = {}
  BY <1>7, FS_EmptySet
<1>9. Cardinality(good) = Len(records) <=> good = 1 .. Len(records)
  BY <1>2, <1>5, FS_Subset
<1>10. QED BY <1>6, <1>8, <1>9 DEF good

\* _final_status() of the records of the first tasks: "failed" if and only if no
\* worker measured, "complete" if and only if the workers of all tasks did.
LEMMA StatusOfMeasured ==
  ASSUME NEW records \in Seq(RawLines), NEW given \in Seq(Responses), Len(records) <= Len(given),
         Len(records) <= NTasks,
         \A i \in 1 .. Len(records) : records[i] = Record(i, given[i])
  PROVE  /\ FinalStatus(Config, records) = "failed"
              <=> {i \in 1 .. Len(records) : Measured(given[i])} = {}
         /\ FinalStatus(Config, records) = "complete"
              <=> {i \in 1 .. Len(records) : Measured(given[i])} = TaskIds
<1> DEFINE good == {i \in 1 .. Len(records) : Measured(given[i])}
<1>1. /\ Count(records, "ok") = 0 <=> good = {}
      /\ Count(records, "ok") = Len(records) <=> good = 1 .. Len(records)
  BY CountsOfMeasured
<1>2. good \subseteq 1 .. Len(records)
  OBVIOUS
<1>3. /\ DOMAIN Config.caseOf = TaskIds /\ Len(Config.caseOf) = NTasks
      /\ TaskIds = 1 .. NTasks /\ NTasks \in Nat /\ NTasks > 0
  BY BenchmarkAssumption DEF BenchmarkAssumption, TaskIds, NTasks
<1>4. Len(records) \in Nat /\ DOMAIN records = 1 .. Len(records)
  OBVIOUS
<1>5. \A i \in 1 .. Len(records) : records[i].task = i
  BY RecordFacts
<1>6. {records[i].task : i \in DOMAIN records} = 1 .. Len(records)
  BY <1>4, <1>5
<1>7. ASSUME good = TaskIds
      PROVE  Len(records) = NTasks
  <2>1. NTasks \in 1 .. Len(records)
    BY <1>7, <1>2, <1>3
  <2>2. NTasks \in Nat /\ Len(records) \in Nat
    BY <1>3, <1>4
  <2>3. QED BY <2>1, <2>2
<1> HIDE DEF good
<1>8. FinalStatus(Config, records) = "failed" <=> Count(records, "ok") = 0
  BY DEF FinalStatus
<1>9. FinalStatus(Config, records) = "complete"
        <=> /\ Count(records, "ok") # 0
            /\ {records[i].task : i \in DOMAIN records} = DOMAIN Config.caseOf
            /\ Len(records) = Len(Config.caseOf)
            /\ Count(records, "ok") = Len(records)
  BY DEF FinalStatus
<1>10. ASSUME good = TaskIds
       PROVE  FinalStatus(Config, records) = "complete"
  <2>1. Len(records) = NTasks
    BY <1>7, <1>10
  <2>2. good = 1 .. Len(records)
    BY <1>3, <1>10, <2>1
  <2>3. Count(records, "ok") = Len(records)
    BY <1>1, <2>2
  <2>4. Count(records, "ok") # 0
    BY <1>3, <2>1, <2>3
  <2>5. {records[i].task : i \in DOMAIN records} = DOMAIN Config.caseOf
    BY <1>3, <1>6, <2>1
  <2>6. Len(records) = Len(Config.caseOf)
    BY <1>3, <2>1
  <2>7. QED BY <1>9, <2>3, <2>4, <2>5, <2>6
<1>11. ASSUME FinalStatus(Config, records) = "complete"
       PROVE  good = TaskIds
  <2>1. Count(records, "ok") = Len(records) /\ Len(records) = Len(Config.caseOf)
    BY <1>9, <1>11
  <2>2. good = 1 .. Len(records)
    BY <1>1, <2>1
  <2>3. QED BY <1>3, <2>1, <2>2
<1>12. QED BY <1>1, <1>8, <1>10, <1>11 DEF good

\* The order in which write_run_artifacts() replaces the files.
LEMMA FollowingFacts ==
  /\ Following("environment") = "config" /\ Following("config") = "raw"
  /\ Following("raw") = "summary.csv" /\ Following("summary.csv") = "summary.md"
  /\ Following("summary.md") = "order" /\ Following("order") = "manifest"
<1> DEFINE at(name) == CHOOSE i \in 1 .. Len(WriteOrder) : WriteOrder[i] = name
<1>1. Len(WriteOrder) = 7
  BY DEF WriteOrder
<1>2. /\ WriteOrder[1] = "environment" /\ WriteOrder[2] = "config" /\ WriteOrder[3] = "raw"
      /\ WriteOrder[4] = "summary.csv" /\ WriteOrder[5] = "summary.md" /\ WriteOrder[6] = "order"
      /\ WriteOrder[7] = "manifest"
  BY DEF WriteOrder
<1>3. 1 .. Len(WriteOrder) = {1, 2, 3, 4, 5, 6, 7}
  BY <1>1
<1>4. at("environment") = 1 /\ at("config") = 2 /\ at("raw") = 3 /\ at("summary.csv") = 4
  BY <1>2, <1>3
<1>5. at("summary.md") = 5 /\ at("order") = 6
  BY <1>2, <1>3
<1>6. QED BY <1>1, <1>2, <1>4, <1>5 DEF Following

\* A run has tasks.
LEMMA TasksCounted ==
  NTasks \in Nat /\ NTasks > 0
BY BenchmarkAssumption DEF BenchmarkAssumption, NTasks

\* The locals of a run, one by one.
LEMMA RunFields ==
  ASSUME RunTyped
  PROVE  /\ run.at \in Places /\ run.records \in Seq(RawLines)
         /\ run.record \in RawLines \cup {NoFile}
         /\ run.status \in {"running", "complete", "partial", "failed"}
         /\ run.preconditioning \in {"skipped", "complete", "failed"}
         /\ Len(run.records) \in Nat
<1> DEFINE R == Seq(RawLines)
           L == RawLines \cup {NoFile}
<1>1. run \in [at : Places, records : R, record : L,
               status : {"running", "complete", "partial", "failed"},
               preconditioning : {"skipped", "complete", "failed"}]
  BY DEF RunTyped, RunStates
<1> HIDE DEF R, L
<1>2. /\ run.at \in Places /\ run.records \in R /\ run.record \in L
      /\ run.status \in {"running", "complete", "partial", "failed"}
      /\ run.preconditioning \in {"skipped", "complete", "failed"}
  BY <1>1
<1>3. run.records \in Seq(RawLines)
  BY <1>2 DEF R
<1>4. QED BY <1>2, <1>3 DEF L

\* A run begins without files and without records.
LEMMA BenchmarkBegin == BenchmarkInit => BenchmarkInv
<1> SUFFICES ASSUME BenchmarkInit PROVE BenchmarkInv
  OBVIOUS
<1>1. RunTyped
  <2>1. "create order" \in Places
    BY DEF Places
  <2>2. <<>> \in Seq(RawLines) /\ <<>> \in Seq(Responses)
    OBVIOUS
  <2> HIDE DEF Places
  <2>3. QED BY <2>1, <2>2 DEF BenchmarkInit, RunTyped, RunStates
<1>2. RecordsTrue
  <2>1. Len(run.records) = 0 /\ Len(answers) = 0 /\ run.records = <<>> /\ run.at = "create order"
    BY DEF BenchmarkInit
  <2>2. answers = <<>>
    BY DEF BenchmarkInit
  <2>3. 0 <= NTasks
    BY TasksCounted
  <2>4. Len(answers) \in {Len(run.records), Len(run.records) + 1}
    BY <2>1
  <2>5. \A i \in 1 .. Len(run.records) : run.records[i] = Record(i, answers[i])
    <3>1. 1 .. 0 = {}
      OBVIOUS
    <3>2. QED BY <2>1, <3>1
  <2>6. QED BY <2>1, <2>2, <2>3, <2>4, <2>5 DEF RecordsTrue
<1>3. EvidenceTrue /\ Preconditioned /\ ManifestTrue
  BY DEF BenchmarkInit, EvidenceTrue, Preconditioned, ManifestTrue
<1>4. run.at \notin Closing
  BY DEF BenchmarkInit, Closing, Rewritten
<1>5. QED BY <1>1, <1>2, <1>3, <1>4 DEF BenchmarkInv

\* What the invariant says to a reader of the files.
LEMMA BenchmarkTrue == BenchmarkInv => BenchmarkTruthful
<1> SUFFICES ASSUME BenchmarkInv PROVE BenchmarkTruthful
  OBVIOUS
<1>1. LoadedRunsTrue
  <2> SUFFICES ASSUME Loads PROVE LoadedRunsTrue
    BY DEF LoadedRunsTrue
  <2>1. /\ run.at \in {"unlink", "ended"}
        /\ manifest.status = FinalStatus(Config, run.records)
        /\ manifest.completed = Len(run.records)
        /\ manifest.successful = Count(run.records, "ok")
        /\ manifest.failed = Count(run.records, "error")
        /\ manifest.preconditioning = run.preconditioning
        /\ manifest.bound["raw"] = [lines |-> run.records, tail |-> "none"]
    BY DEF BenchmarkInv, ManifestTrue, Loads
  <2>2. raw = [lines |-> run.records, tail |-> "none"]
    BY <2>1 DEF Loads, Artifacts, Bytes
  <2>3. raw.lines = run.records /\ raw.tail = "none"
    BY <2>2
  <2>4. /\ run.records \in Seq(RawLines) /\ answers \in Seq(Responses)
        /\ Len(run.records) <= NTasks /\ Len(run.records) <= Len(answers)
        /\ \A i \in 1 .. Len(run.records) : run.records[i] = Record(i, answers[i])
    <3>1. RunTyped /\ RecordsTrue
      BY DEF BenchmarkInv
    <3>2. run.records \in Seq(RawLines) /\ answers \in Seq(Responses) /\ Len(run.records) \in Nat
      BY <3>1, RunFields DEF RunTyped
    <3>3. Len(run.records) <= Len(answers)
      <4>1. Len(answers) = Len(run.records) \/ Len(answers) = Len(run.records) + 1
        BY <3>1 DEF RecordsTrue
      <4>2. QED BY <3>2, <4>1
    <3>4. QED BY <3>1, <3>2, <3>3 DEF RecordsTrue
  <2> DEFINE good == {i \in 1 .. Len(run.records) : Measured(answers[i])}
  <2>5. /\ FinalStatus(Config, run.records) = "failed" <=> good = {}
        /\ FinalStatus(Config, run.records) = "complete" <=> good = TaskIds
    BY <2>4, StatusOfMeasured
  <2>6. Count(run.records, "ok") + Count(run.records, "error") = Len(run.records)
    BY <2>4, CountsAdd
  <2>7. \A i \in 1 .. Len(run.records) : TrueLine(run.records[i], i)
    BY <2>4, RecordFacts DEF TrueLine
  <2>8. good # {} => manifest.preconditioning # "failed"
    <3>1. good # {} => run.records # <<>>
      OBVIOUS
    <3>2. QED BY <3>1, <2>1 DEF BenchmarkInv, Preconditioned
  <2> HIDE DEF good
  <2>9. QED BY <2>1, <2>3, <2>5, <2>6, <2>7, <2>8 DEF LoadedRunsTrue, good
<1>2. EvidenceSurvives
  <2> SUFFICES ASSUME durable > 0 PROVE EvidenceSurvives
    BY DEF EvidenceSurvives
  <2>1. RawTrue
    <3>1. EvidenceTrue
      BY DEF BenchmarkInv
    <3>2. ~ (durable = 0)
      OBVIOUS
    <3>3. QED BY <3>1, <3>2 DEF EvidenceTrue
  <2>2. Len(raw.lines) \in Nat /\ durable \in Nat /\ Len(run.records) \in Nat
    <3>1. raw \in RawFiles /\ durable \in Nat
      BY <2>1 DEF RawTrue
    <3>2. raw.lines \in Seq(RawLines)
      BY <3>1 DEF RawFiles
    <3>3. QED BY <3>1, <3>2, RunFields DEF BenchmarkInv
  <2>3. /\ Len(raw.lines) >= durable - 1
        /\ Len(raw.lines) < durable => Len(run.records) < durable
    BY <2>1, <2>2 DEF RawTrue
  <2>4. \A i \in 1 .. Len(raw.lines) : TrueLine(raw.lines[i], i)
    BY <2>1, RecordFacts DEF RawTrue, TrueLine
  <2>5. QED BY <2>3, <2>4 DEF EvidenceSurvives
<1>3. QED BY <1>1, <1>2 DEF BenchmarkTruthful

\* A run goes to another place and keeps its locals.
LEMMA RunMoves ==
  ASSUME RunTyped, NEW here \in Places, RunTo(here)
  PROVE  /\ run' \in RunStates /\ run'.at = here /\ run'.records = run.records
         /\ run'.record = run.record /\ run'.status = run.status
         /\ run'.preconditioning = run.preconditioning
<1> DEFINE R == Seq(RawLines)
           L == RawLines \cup {NoFile}
<1>1. run \in [at : Places, records : R, record : L,
               status : {"running", "complete", "partial", "failed"},
               preconditioning : {"skipped", "complete", "failed"}]
  BY DEF RunTyped, RunStates
<1>2. run' = [run EXCEPT !.at = here]
  BY DEF RunTo
<1> HIDE DEF R, L
<1>3. /\ run' \in [at : Places, records : R, record : L,
                   status : {"running", "complete", "partial", "failed"},
                   preconditioning : {"skipped", "complete", "failed"}]
      /\ run'.at = here /\ run'.records = run.records
      /\ run'.record = run.record /\ run'.status = run.status
      /\ run'.preconditioning = run.preconditioning
  BY <1>1, <1>2
<1>4. QED BY <1>3 DEF RunStates, R, L

\* A run goes to another place with a new status.
LEMMA RunMovesWithStatus ==
  ASSUME RunTyped, NEW here \in Places, NEW status \in {"running", "complete", "partial", "failed"},
         run' = [run EXCEPT !.status = status, !.at = here]
  PROVE  /\ run' \in RunStates /\ run'.at = here /\ run'.records = run.records
         /\ run'.record = run.record /\ run'.status = status
         /\ run'.preconditioning = run.preconditioning
<1> DEFINE R == Seq(RawLines)
           L == RawLines \cup {NoFile}
<1>1. run \in [at : Places, records : R, record : L,
               status : {"running", "complete", "partial", "failed"},
               preconditioning : {"skipped", "complete", "failed"}]
  BY DEF RunTyped, RunStates
<1> HIDE DEF R, L
<1>3. /\ run' \in [at : Places, records : R, record : L,
                   status : {"running", "complete", "partial", "failed"},
                   preconditioning : {"skipped", "complete", "failed"}]
      /\ run'.at = here /\ run'.records = run.records
      /\ run'.record = run.record /\ run'.status = status
      /\ run'.preconditioning = run.preconditioning
  BY <1>1
<1>4. QED BY <1>3 DEF RunStates, R, L

\* The run keeps its records.
KeepsRecords ==
  /\ run' \in RunStates
  /\ run'.records = run.records /\ run'.record = run.record
  /\ answers' = answers /\ durable' = durable

Settled ==
  {"rollback", "except", "close", "state", "ended", "except close", "environment", "config",
   "raw", "unlink"}

\* What is behind the lines of the raw file may change.
KeepsLines ==
  raw' = raw \/ (RawTrue /\ \E tail \in Tails : raw' = [raw EXCEPT !.tail = tail])

\* The records stay true where the run does not touch them.
LEMMA RecordsSettled ==
  ASSUME BenchmarkInv, KeepsRecords, run'.at \in Settled \cup Rewritten
  PROVE  RunTyped' /\ RecordsTrue'
<1>1. RunTyped'
  BY DEF BenchmarkInv, KeepsRecords, RunTyped
<1>2. RecordsTrue
  BY DEF BenchmarkInv
<1>3. run'.at \notin {"create order", "create state", "precondition", "execute", "append", "remember"}
  BY DEF Settled, Rewritten
<1>4. QED BY <1>1, <1>2, <1>3 DEF KeepsRecords, RecordsTrue

\* The raw file stays true where at most what is behind its lines changes.
LEMMA EvidenceSettled ==
  ASSUME BenchmarkInv, KeepsRecords, KeepsLines, run'.at \in Settled,
         run'.at = "ended" \/ run.at \notin {"create order", "create state", "ended"}
  PROVE  EvidenceTrue'
<1>1. EvidenceTrue
  BY DEF BenchmarkInv
<1>2. run'.at \notin {"create order", "create state", "precondition", "execute", "append", "remember"}
        /\ run'.at \notin Rewritten
  BY DEF Settled, Rewritten
<1>3. CASE RawTrue
  <2>1. raw \in RawFiles
    BY <1>3 DEF RawTrue
  <2>2. raw' \in RawFiles /\ raw'.lines = raw.lines
    <3> DEFINE R == Seq(RawLines)
    <3>1. raw \in [lines : R, tail : Tails]
      BY <2>1 DEF RawFiles
    <3> HIDE DEF R
    <3>2. raw' \in [lines : R, tail : Tails] /\ raw'.lines = raw.lines
      BY <3>1 DEF KeepsLines
    <3>3. QED BY <3>2 DEF RawFiles, R
  <2>3. RawTrue'
    BY <1>2, <1>3, <2>2 DEF RawTrue, KeepsRecords
  <2>4. QED BY <1>2, <2>3 DEF EvidenceTrue
<1>4. CASE ~ RawTrue
  <2>1. raw = NoFile /\ durable = 0 /\ run.at \in {"create order", "create state", "ended"}
    BY <1>1, <1>4 DEF EvidenceTrue
  <2>2. run'.at = "ended"
    BY <2>1
  <2>3. raw' = NoFile
    BY <1>4, <2>1 DEF KeepsLines
  <2>4. QED BY <2>1, <2>2, <2>3 DEF EvidenceTrue, KeepsRecords
<1>5. QED BY <1>3, <1>4

\* The invariant, where a run keeps its records and its lines.
LEMMA Settles ==
  ASSUME BenchmarkInv, KeepsRecords, KeepsLines, run'.at \in Settled,
         run'.at = "ended" \/ run.at \notin {"create order", "create state", "unlink", "ended"},
         manifest' = manifest, run'.preconditioning = run.preconditioning,
         run'.at \in Closing => run'.status = FinalStatus(Config, run.records)
  PROVE  BenchmarkInv'
<1>1. RunTyped' /\ RecordsTrue'
  BY RecordsSettled
<1>2. EvidenceTrue'
  BY EvidenceSettled
<1>3. run'.at \notin {"execute", "append", "remember"}
  BY DEF Settled
<1>4. Preconditioned'
  BY <1>3 DEF BenchmarkInv, Preconditioned, KeepsRecords
<1>5. ManifestTrue'
  <2>1. CASE manifest = NoFile
    BY <2>1 DEF ManifestTrue
  <2>2. CASE manifest # NoFile
    <3>1. ManifestTrue
      BY DEF BenchmarkInv
    <3>2. run.at \in {"unlink", "ended"}
      BY <2>2, <3>1 DEF ManifestTrue
    <3>3. run'.at = "ended"
      BY <3>2
    <3>4. QED BY <2>2, <3>1, <3>3 DEF ManifestTrue, KeepsRecords
  <2>3. QED BY <2>1, <2>2
<1>6. (run'.at \in Closing) => run'.status = FinalStatus(Config, run'.records)
  BY DEF KeepsRecords
<1>7. QED BY <1>1, <1>2, <1>4, <1>5, <1>6 DEF BenchmarkInv

\* The named sets of places are places of a run.
LEMMA PlacesOfARun ==
  /\ Settled \subseteq Places /\ Closing \subseteq Places /\ Rewritten \subseteq Closing
  /\ {"create order", "create state", "precondition", "execute", "append", "remember"} \subseteq Places
BY DEF Settled, Places, Closing, Rewritten

\* _final_status() returns a status.
LEMMA FinalStatuses ==
  ASSUME NEW records
  PROVE  FinalStatus(Config, records) \in {"running", "complete", "partial", "failed"}
BY DEF FinalStatus

\* A place is left for another, and nothing else of the run changes.
LEMMA SettlesAt ==
  ASSUME BenchmarkInv, NEW here \in Settled, RunTo(here), KeepsLines,
         answers' = answers, durable' = durable, manifest' = manifest,
         here = "ended" \/ run.at \notin {"create order", "create state", "unlink", "ended"},
         here \in Closing => run.at \in Closing
  PROVE  BenchmarkInv'
<1>1. RunTyped /\ here \in Places
  BY PlacesOfARun DEF BenchmarkInv
<1>2. /\ run' \in RunStates /\ run'.at = here /\ run'.records = run.records
      /\ run'.record = run.record /\ run'.status = run.status
      /\ run'.preconditioning = run.preconditioning
  BY <1>1, RunMoves
<1>3. KeepsRecords
  BY <1>2 DEF KeepsRecords
<1>4. (run'.at \in Closing) => run'.status = FinalStatus(Config, run.records)
  BY <1>2 DEF BenchmarkInv
<1>5. run'.at \in Settled
  BY <1>2
<1>6. run'.at = "ended" \/ run.at \notin {"create order", "create state", "unlink", "ended"}
  BY <1>2
<1>7. run'.preconditioning = run.preconditioning
  BY <1>2
<1>8. QED BY <1>3, <1>4, <1>5, <1>6, <1>7, Settles

\* The final status is set.
LEMMA SettlesWithStatus ==
  ASSUME BenchmarkInv, NEW here \in Settled,
         run' = [run EXCEPT !.status = FinalStatus(Config, run.records), !.at = here],
         raw' = raw, answers' = answers, durable' = durable, manifest' = manifest,
         run.at \notin {"create order", "create state", "unlink", "ended"}
  PROVE  BenchmarkInv'
<1> DEFINE final == FinalStatus(Config, run.records)
<1>1. RunTyped /\ here \in Places /\ final \in {"running", "complete", "partial", "failed"}
  BY PlacesOfARun, FinalStatuses DEF BenchmarkInv
<1> HIDE DEF final
<1>2. run' = [run EXCEPT !.status = final, !.at = here]
  BY DEF final
<1>3. /\ run' \in RunStates /\ run'.at = here /\ run'.records = run.records
      /\ run'.record = run.record /\ run'.status = final
      /\ run'.preconditioning = run.preconditioning
  BY <1>1, <1>2, RunMovesWithStatus
<1>4. KeepsRecords
  BY <1>3 DEF KeepsRecords
<1>5. (run'.at \in Closing) => run'.status = FinalStatus(Config, run.records)
  BY <1>3 DEF final
<1>6. run'.at \in Settled
  BY <1>3
<1>7. run'.at = "ended" \/ run.at \notin {"create order", "create state", "unlink", "ended"}
  OBVIOUS
<1>8. run'.preconditioning = run.preconditioning
  BY <1>3
<1>9. KeepsLines
  BY DEF KeepsLines
<1>10. QED BY <1>4, <1>5, <1>6, <1>7, <1>8, <1>9, Settles

\* Between the creation of the run's files and the end, there is a raw file.
LEMMA RawFileThere ==
  ASSUME BenchmarkInv, run.at \notin {"create order", "create state", "ended"}
  PROVE  RawTrue
BY DEF BenchmarkInv, EvidenceTrue

\* What a stream leaves when it ends is behind the last line.
LEMMA TailsOfAFlush ==
  ASSUME NEW tail \in Tails
  PROVE  AfterFlush(tail) \subseteq Tails
BY DEF AfterFlush, Tails

\* The raw file has lines and something behind them.
LEMMA TailOfRaw ==
  ASSUME RawTrue
  PROVE  raw.tail \in Tails /\ raw.lines \in Seq(RawLines) /\ raw = [lines |-> raw.lines, tail |-> raw.tail]
<1> DEFINE R == Seq(RawLines)
<1>1. raw \in [lines : R, tail : Tails]
  BY DEF RawTrue, RawFiles
<1> HIDE DEF R
<1>2. raw.tail \in Tails /\ raw.lines \in R /\ raw = [lines |-> raw.lines, tail |-> raw.tail]
  BY <1>1
<1>3. QED BY <1>2 DEF R

\* Until the last artifact is written, there is no manifest.
LEMMA NoManifestYet ==
  ASSUME BenchmarkInv, run.at \notin {"unlink", "ended"}
  PROVE  manifest = NoFile
BY DEF BenchmarkInv, ManifestTrue

\* The directory and the execution order.
LEMMA CreateOrderStep ==
  ASSUME BenchmarkInv, CreateOrder
  PROVE  BenchmarkInv'
<1>1. run.at = "create order" /\ RunTo("create state")
  BY DEF CreateOrder, RunAt
<1>2. RunTyped /\ "create state" \in Places
  BY PlacesOfARun DEF BenchmarkInv
<1>3. /\ run' \in RunStates /\ run'.at = "create state" /\ run'.records = run.records
      /\ run'.record = run.record /\ run'.status = run.status
      /\ run'.preconditioning = run.preconditioning
  BY <1>1, <1>2, RunMoves
<1>4. raw' = raw /\ manifest' = manifest /\ answers' = answers /\ durable' = durable
  BY DEF CreateOrder
<1>5. RunTyped'
  BY <1>2, <1>3, <1>4 DEF RunTyped
<1>6. RecordsTrue'
  BY <1>1, <1>3, <1>4 DEF BenchmarkInv, RecordsTrue
<1>7. EvidenceTrue'
  BY <1>1, <1>3, <1>4 DEF BenchmarkInv, EvidenceTrue
<1>8. Preconditioned'
  BY <1>3 DEF BenchmarkInv, Preconditioned
<1>9. ManifestTrue'
  BY <1>1, <1>4, NoManifestYet DEF ManifestTrue
<1>10. run'.at \notin Closing
  BY <1>3 DEF Closing, Rewritten
<1>11. QED BY <1>5, <1>6, <1>7, <1>8, <1>9, <1>10 DEF BenchmarkInv

\* The run state and the raw file, still empty.
LEMMA CreateStateStep ==
  ASSUME BenchmarkInv, CreateState
  PROVE  BenchmarkInv'
<1>1. run.at = "create state" /\ RunTo("precondition")
  BY DEF CreateState, RunAt
<1>2. RunTyped /\ "precondition" \in Places
  BY PlacesOfARun DEF BenchmarkInv
<1>3. /\ run' \in RunStates /\ run'.at = "precondition" /\ run'.records = run.records
      /\ run'.record = run.record /\ run'.status = run.status
      /\ run'.preconditioning = run.preconditioning
  BY <1>1, <1>2, RunMoves
<1>4. /\ raw' = [lines |-> <<>>, tail |-> "none"]
      /\ manifest' = manifest /\ answers' = answers /\ durable' = durable
  BY DEF CreateState
<1>5. RunTyped'
  BY <1>2, <1>3, <1>4 DEF RunTyped
<1>6. RecordsTrue'
  BY <1>1, <1>3, <1>4 DEF BenchmarkInv, RecordsTrue
<1>7. durable = 0 /\ run.records = <<>>
  BY <1>1 DEF BenchmarkInv, EvidenceTrue, RecordsTrue
<1>8. RawTrue'
  <2>1. raw' \in RawFiles /\ raw'.lines = <<>>
    <3>1. <<>> \in Seq(RawLines)
      OBVIOUS
    <3> DEFINE R == Seq(RawLines)
    <3> HIDE DEF R
    <3>2. <<>> \in R
      BY <3>1 DEF R
    <3>3. raw' \in [lines : R, tail : Tails] /\ raw'.lines = <<>>
      BY <1>4, <3>2 DEF Tails
    <3>4. QED BY <3>3 DEF RawFiles, R
  <2>2. Len(raw'.lines) = 0 /\ durable' = 0 /\ Len(run'.records) = 0
    BY <1>3, <1>4, <1>7, <2>1
  <2>3. \A i \in 1 .. Len(raw'.lines) : raw'.lines[i] = Record(i, answers'[i])
    <3>1. 1 .. 0 = {}
      OBVIOUS
    <3>2. QED BY <2>2, <3>1
  <2>4. Len(answers') = 0
    <3>1. answers = <<>>
      BY <1>1 DEF BenchmarkInv, RecordsTrue
    <3>2. QED BY <1>4, <3>1
  <2>5. run'.at \notin Rewritten /\ run'.at # "remember"
    BY <1>3 DEF Rewritten
  <2>6. QED BY <2>1, <2>2, <2>3, <2>4, <2>5 DEF RawTrue
<1>9. EvidenceTrue'
  BY <1>3, <1>8 DEF EvidenceTrue
<1>10. Preconditioned'
  BY <1>3, <1>7 DEF BenchmarkInv, Preconditioned
<1>11. ManifestTrue'
  BY <1>1, <1>4, NoManifestYet DEF ManifestTrue
<1>12. run'.at \notin Closing
  BY <1>3 DEF Closing, Rewritten
<1>13. QED BY <1>5, <1>6, <1>9, <1>10, <1>11, <1>12 DEF BenchmarkInv

\* run_preconditioning(): no task runs after it failed.
LEMMA PreconditionStep ==
  ASSUME BenchmarkInv, Precondition
  PROVE  BenchmarkInv'
<1>1. run.at = "precondition"
  BY DEF Precondition, RunAt
<1>2. PICK status \in {"skipped", "complete", "failed"} :
        run' = [run EXCEPT !.preconditioning = status,
                           !.at = IF status = "failed" THEN "close" ELSE "execute"]
  BY DEF Precondition
<1> DEFINE here == IF status = "failed" THEN "close" ELSE "execute"
<1>3. here \in Places /\ here \in {"close", "execute"}
  BY DEF Places
<1>4. /\ run' \in RunStates /\ run'.at = here /\ run'.records = run.records
      /\ run'.record = run.record /\ run'.preconditioning = status
  <2> DEFINE R == Seq(RawLines)
             L == RawLines \cup {NoFile}
  <2>1. run \in [at : Places, records : R, record : L,
                 status : {"running", "complete", "partial", "failed"},
                 preconditioning : {"skipped", "complete", "failed"}]
    BY DEF BenchmarkInv, RunTyped, RunStates
  <2> HIDE DEF R, L
  <2>2. run' = [run EXCEPT !.preconditioning = status, !.at = here]
    BY <1>2
  <2> HIDE DEF here
  <2>3. /\ run' \in [at : Places, records : R, record : L,
                     status : {"running", "complete", "partial", "failed"},
                     preconditioning : {"skipped", "complete", "failed"}]
        /\ run'.at = here /\ run'.records = run.records
        /\ run'.record = run.record /\ run'.preconditioning = status
    BY <1>3, <2>1, <2>2
  <2>4. QED BY <2>3 DEF RunStates, R, L
<1>5. raw' = raw /\ manifest' = manifest /\ answers' = answers /\ durable' = durable
  BY DEF Precondition
<1>6. run.records = <<>> /\ answers = <<>>
  BY <1>1 DEF BenchmarkInv, RecordsTrue
<1>7. RunTyped'
  BY <1>4, <1>5 DEF BenchmarkInv, RunTyped
<1>8. RecordsTrue'
  <2>1. Len(answers') = Len(run'.records)
    BY <1>4, <1>5, <1>6
  <2>2. run'.at \notin {"create order", "create state", "precondition", "append", "remember"}
    BY <1>3, <1>4
  <2>3. RecordsTrue
    BY DEF BenchmarkInv
  <2>4. QED BY <1>4, <1>5, <2>1, <2>2, <2>3 DEF RecordsTrue
<1>9. RawTrue
  BY <1>1, RawFileThere
<1>10. EvidenceTrue'
  <2>1. run'.at \notin {"create order", "create state", "remember"} \cup Rewritten
    BY <1>3, <1>4 DEF Rewritten
  <2>2. RawTrue'
    BY <1>1, <1>4, <1>5, <1>9, <2>1 DEF RawTrue
  <2>3. QED BY <2>1, <2>2 DEF EvidenceTrue
<1>11. Preconditioned'
  <2>1. (run'.at \in {"execute", "append", "remember"}) => status # "failed"
    BY <1>4
  <2>2. QED BY <1>4, <1>6, <2>1 DEF Preconditioned
<1>12. ManifestTrue'
  BY <1>1, <1>5, NoManifestYet DEF ManifestTrue
<1>13. run'.at \notin Closing
  BY <1>3, <1>4 DEF Closing, Rewritten
<1>14. QED BY <1>7, <1>8, <1>10, <1>11, <1>12, <1>13 DEF BenchmarkInv

\* A worker answers for the next task.
LEMMA ExecuteWorkerStep ==
  ASSUME BenchmarkInv, ExecuteWorker
  PROVE  BenchmarkInv'
<1>1. run.at = "execute" /\ Len(run.records) < NTasks
  BY DEF ExecuteWorker, RunAt
<1>2. PICK response \in Responses :
        /\ answers' = Append(answers, response)
        /\ run' = [run EXCEPT !.record = Record(Len(run.records) + 1, response), !.at = "append"]
  BY DEF ExecuteWorker
<1>3. RunTyped /\ RecordsTrue /\ RawTrue
  BY <1>1, RawFileThere DEF BenchmarkInv
<1>4. run.records \in Seq(RawLines) /\ answers \in Seq(Responses) /\ Len(run.records) \in Nat
  BY <1>3, RunFields DEF RunTyped
<1>5. Len(answers) = Len(run.records)
  BY <1>1, <1>3 DEF RecordsTrue
<1> DEFINE line == Record(Len(run.records) + 1, response)
<1>6. line \in RawLines
  BY <1>4, RecordIsLine
<1>7. /\ run' \in RunStates /\ run'.at = "append" /\ run'.records = run.records
      /\ run'.record = line /\ run'.preconditioning = run.preconditioning
  <2> DEFINE R == Seq(RawLines)
             L == RawLines \cup {NoFile}
  <2>1. run \in [at : Places, records : R, record : L,
                 status : {"running", "complete", "partial", "failed"},
                 preconditioning : {"skipped", "complete", "failed"}]
    BY <1>3 DEF RunTyped, RunStates
  <2>2. run' = [run EXCEPT !.record = line, !.at = "append"]
    BY <1>2
  <2>3. line \in L /\ "append" \in Places
    BY <1>6, PlacesOfARun
  <2> HIDE DEF R, L, line
  <2>4. /\ run' \in [at : Places, records : R, record : L,
                     status : {"running", "complete", "partial", "failed"},
                     preconditioning : {"skipped", "complete", "failed"}]
        /\ run'.at = "append" /\ run'.records = run.records
        /\ run'.record = line /\ run'.preconditioning = run.preconditioning
    BY <2>1, <2>2, <2>3
  <2>5. QED BY <2>4 DEF RunStates, R, L
<1>8. raw' = raw /\ manifest' = manifest /\ durable' = durable
  BY DEF ExecuteWorker
<1>9. /\ answers' \in Seq(Responses) /\ Len(answers') = Len(answers) + 1
      /\ answers'[Len(answers) + 1] = response
      /\ \A i \in 1 .. Len(answers) : answers'[i] = answers[i]
  BY <1>2, <1>4
<1>10. RunTyped'
  BY <1>7, <1>9 DEF RunTyped
<1>11. RecordsTrue'
  <2>1. Len(run'.records) <= NTasks /\ Len(answers') <= NTasks
    BY <1>1, <1>4, <1>5, <1>7, <1>9, TasksCounted
  <2>2. Len(answers') = Len(run'.records) + 1
    BY <1>5, <1>7, <1>9
  <2>3. \A i \in 1 .. Len(run'.records) : run'.records[i] = Record(i, answers'[i])
    BY <1>3, <1>5, <1>7, <1>9 DEF RecordsTrue
  <2>4. run'.record = Record(Len(answers'), answers'[Len(answers')])
    BY <1>5, <1>7, <1>9
  <2> HIDE DEF line
  <2>5. QED BY <1>7, <2>1, <2>2, <2>3, <2>4 DEF RecordsTrue
<1>12. EvidenceTrue'
  <2>1. run'.at \notin {"create order", "create state", "remember"} \cup Rewritten
    BY <1>7 DEF Rewritten
  <2>2. Len(raw'.lines) = Len(run'.records) /\ durable' = Len(run'.records)
    BY <1>1, <1>3, <1>7, <1>8 DEF RawTrue
  <2>3. Len(raw'.lines) <= Len(answers')
    BY <1>4, <1>5, <1>7, <1>9, <2>2
  <2>4. \A i \in 1 .. Len(raw'.lines) : raw'.lines[i] = Record(i, answers'[i])
    <3>1. Len(raw'.lines) = Len(answers)
      BY <1>5, <1>7, <2>2
    <3>2. \A i \in 1 .. Len(raw.lines) : raw.lines[i] = Record(i, answers[i])
      BY <1>3 DEF RawTrue
    <3>3. QED BY <1>8, <1>9, <3>1, <3>2
  <2>5. raw' \in RawFiles /\ durable' \in Nat
    BY <1>3, <1>8 DEF RawTrue
  <2>6. RawTrue'
    BY <2>1, <2>2, <2>3, <2>4, <2>5 DEF RawTrue
  <2>7. QED BY <2>1, <2>6 DEF EvidenceTrue
<1>13. Preconditioned'
  BY <1>1, <1>7 DEF BenchmarkInv, Preconditioned
<1>14. ManifestTrue'
  BY <1>1, <1>8, NoManifestYet DEF ManifestTrue
<1>15. run'.at \notin Closing
  BY <1>7 DEF Closing, Rewritten
<1>16. QED BY <1>10, <1>11, <1>12, <1>13, <1>14, <1>15 DEF BenchmarkInv

\* _append_durable_raw_record(): the record is one line more.
LEMMA AppendDurableStep ==
  ASSUME BenchmarkInv, AppendDurable
  PROVE  BenchmarkInv'
<1>1. run.at = "append" /\ RunTo("remember")
  BY DEF AppendDurable, RunAt
<1>2. RunTyped /\ RecordsTrue /\ RawTrue /\ "remember" \in Places
  BY <1>1, RawFileThere, PlacesOfARun DEF BenchmarkInv
<1>3. /\ run' \in RunStates /\ run'.at = "remember" /\ run'.records = run.records
      /\ run'.record = run.record /\ run'.status = run.status
      /\ run'.preconditioning = run.preconditioning
  BY <1>1, <1>2, RunMoves
<1>4. manifest' = manifest /\ answers' = answers /\ durable' = durable + 1
  BY DEF AppendDurable
<1>5. run.records \in Seq(RawLines) /\ answers \in Seq(Responses) /\ Len(run.records) \in Nat
  BY <1>2, RunFields DEF RunTyped
<1>6. /\ Len(answers) = Len(run.records) + 1 /\ Len(answers) <= NTasks
      /\ run.record = Record(Len(answers), answers[Len(answers)])
  BY <1>1, <1>2 DEF RecordsTrue
<1>7. run.record \in RawLines
  <2>1. Len(answers) \in Nat /\ Len(answers) \in 1 .. Len(answers)
    BY <1>5, <1>6
  <2>2. answers[Len(answers)] \in Responses
    BY <1>5, <2>1
  <2>3. QED BY <1>6, <2>1, <2>2, RecordIsLine
<1>8. raw.tail \in Tails /\ raw.lines \in Seq(RawLines) /\ raw = [lines |-> raw.lines, tail |-> raw.tail]
  BY <1>2, TailOfRaw
<1>9. raw' \in RawFiles /\ raw'.lines = Append(raw.lines, run.record)
  <2> DEFINE R == Seq(RawLines)
             more == Append(raw.lines, run.record)
  <2>1. raw' = [raw EXCEPT !.lines = more]
    BY DEF AppendDurable
  <2>2. more \in R
    BY <1>7, <1>8
  <2>3. raw \in [lines : R, tail : Tails]
    BY <1>2 DEF RawTrue, RawFiles
  <2> HIDE DEF R, more
  <2>4. raw' \in [lines : R, tail : Tails] /\ raw'.lines = more
    BY <2>1, <2>2, <2>3
  <2>5. QED BY <2>4 DEF RawFiles, R, more
<1>10. Len(raw.lines) = Len(run.records) /\ durable = Len(run.records)
  BY <1>1, <1>2 DEF RawTrue
<1>11. RunTyped'
  BY <1>2, <1>3, <1>4 DEF RunTyped
<1>12. RecordsTrue'
  <2>1. run'.at \notin {"create order", "create state", "precondition", "execute"}
    BY <1>3
  <2>2. QED BY <1>2, <1>3, <1>4, <1>6, <2>1 DEF RecordsTrue
<1>13. EvidenceTrue'
  <2>1. run'.at \notin {"create order", "create state", "precondition", "execute", "append"} \cup Rewritten
    BY <1>3 DEF Rewritten
  <2>2. Len(raw'.lines) = Len(run'.records) + 1 /\ durable' = Len(run'.records) + 1 /\ durable' \in Nat
    BY <1>3, <1>4, <1>5, <1>7, <1>8, <1>9, <1>10
  <2>3. Len(raw'.lines) <= Len(answers')
    BY <1>3, <1>4, <1>5, <1>6, <2>2
  <2>4. \A i \in 1 .. Len(raw'.lines) : raw'.lines[i] = Record(i, answers'[i])
    <3> SUFFICES ASSUME NEW i \in 1 .. Len(raw'.lines) PROVE raw'.lines[i] = Record(i, answers[i])
      BY <1>4
    <3>1. CASE i = Len(raw.lines) + 1
      <4>1. raw'.lines[i] = run.record
        BY <1>7, <1>8, <1>9, <3>1
      <4>2. i = Len(answers)
        BY <1>6, <1>10, <3>1
      <4>3. QED BY <1>6, <4>1, <4>2
    <3>2. CASE i # Len(raw.lines) + 1
      <4>1. i \in 1 .. Len(raw.lines)
        BY <1>3, <1>5, <1>10, <2>2, <3>2
      <4>2. raw'.lines[i] = raw.lines[i]
        BY <1>7, <1>8, <1>9, <4>1
      <4>3. QED BY <1>2, <4>1, <4>2 DEF RawTrue
    <3>3. QED BY <3>1, <3>2
  <2>5. RawTrue'
    BY <1>9, <2>1, <2>2, <2>3, <2>4 DEF RawTrue
  <2>6. QED BY <2>1, <2>5 DEF EvidenceTrue
<1>14. Preconditioned'
  BY <1>1, <1>3 DEF BenchmarkInv, Preconditioned
<1>15. ManifestTrue'
  BY <1>1, <1>4, NoManifestYet DEF ManifestTrue
<1>16. run'.at \notin Closing
  BY <1>3 DEF Closing, Rewritten
<1>17. QED BY <1>11, <1>12, <1>13, <1>14, <1>15, <1>16 DEF BenchmarkInv

\* records.append(): the memory catches up with the file.
LEMMA RememberStep ==
  ASSUME BenchmarkInv, Remember
  PROVE  BenchmarkInv'
<1>1. run.at = "remember"
  BY DEF Remember, RunAt
<1>2. run' = [run EXCEPT !.records = Append(@, run.record), !.at = "execute"]
  BY DEF Remember
<1>3. RunTyped /\ RecordsTrue /\ RawTrue
  BY <1>1, RawFileThere DEF BenchmarkInv
<1>4. run.records \in Seq(RawLines) /\ answers \in Seq(Responses) /\ Len(run.records) \in Nat
  BY <1>3, RunFields DEF RunTyped
<1>5. raw' = raw /\ manifest' = manifest /\ durable' = durable /\ answers' = answers
  BY DEF Remember
<1>6. /\ Len(answers) = Len(run.records) + 1 /\ Len(answers) <= NTasks
      /\ run.record = Record(Len(answers), answers[Len(answers)])
  BY <1>1, <1>3 DEF RecordsTrue
<1>7. run.record \in RawLines
  <2>1. Len(answers) \in Nat /\ Len(answers) \in 1 .. Len(answers)
    BY <1>4, <1>6
  <2>2. answers[Len(answers)] \in Responses
    BY <1>4, <2>1
  <2>3. QED BY <1>6, <2>1, <2>2, RecordIsLine
<1> DEFINE more == Append(run.records, run.record)
<1>8. /\ run' \in RunStates /\ run'.at = "execute" /\ run'.records = more
      /\ run'.record = run.record /\ run'.preconditioning = run.preconditioning
  <2> DEFINE R == Seq(RawLines)
             L == RawLines \cup {NoFile}
  <2>1. run \in [at : Places, records : R, record : L,
                 status : {"running", "complete", "partial", "failed"},
                 preconditioning : {"skipped", "complete", "failed"}]
    BY <1>3 DEF RunTyped, RunStates
  <2>2. run' = [run EXCEPT !.records = more, !.at = "execute"]
    BY <1>2
  <2>3. more \in R
    BY <1>4, <1>7
  <2> HIDE DEF R, L, more
  <2>4. /\ run' \in [at : Places, records : R, record : L,
                     status : {"running", "complete", "partial", "failed"},
                     preconditioning : {"skipped", "complete", "failed"}]
        /\ run'.at = "execute" /\ run'.records = more
        /\ run'.record = run.record /\ run'.preconditioning = run.preconditioning
    <3>1. "execute" \in Places
      BY PlacesOfARun
    <3>2. QED BY <2>1, <2>2, <2>3, <3>1
  <2>5. QED BY <2>4 DEF RunStates, R, L
<1>9. /\ Len(more) = Len(run.records) + 1 /\ more[Len(run.records) + 1] = run.record
      /\ \A i \in 1 .. Len(run.records) : more[i] = run.records[i]
  BY <1>4, <1>7
<1> HIDE DEF more
<1>10. Len(raw.lines) = Len(run.records) + 1 /\ durable = Len(run.records) + 1
  BY <1>1, <1>3 DEF RawTrue
<1>11. RunTyped'
  BY <1>3, <1>5, <1>8 DEF RunTyped
<1>12. RecordsTrue'
  <2>1. run'.at \notin {"create order", "create state", "precondition", "append", "remember"}
    BY <1>8
  <2>2. Len(run'.records) <= NTasks /\ Len(answers') = Len(run'.records)
    BY <1>5, <1>6, <1>8, <1>9
  <2>3. \A i \in 1 .. Len(run'.records) : run'.records[i] = Record(i, answers'[i])
    <3> SUFFICES ASSUME NEW i \in 1 .. Len(more) PROVE more[i] = Record(i, answers[i])
      BY <1>5, <1>8
    <3>1. CASE i = Len(run.records) + 1
      BY <1>6, <1>9, <3>1
    <3>2. CASE i # Len(run.records) + 1
      <4>1. i \in 1 .. Len(run.records)
        BY <1>4, <1>9, <3>2
      <4>2. QED BY <1>3, <1>9, <4>1 DEF RecordsTrue
    <3>3. QED BY <3>1, <3>2
  <2>4. QED BY <1>8, <2>1, <2>2, <2>3 DEF RecordsTrue
<1>13. EvidenceTrue'
  <2>1. run'.at \notin {"create order", "create state", "remember"} \cup Rewritten
    BY <1>8 DEF Rewritten
  <2>2. Len(raw'.lines) = Len(run'.records) /\ durable' = Len(run'.records)
    BY <1>5, <1>8, <1>9, <1>10
  <2>3. RawTrue'
    BY <1>3, <1>5, <2>1, <2>2 DEF RawTrue
  <2>4. QED BY <2>1, <2>3 DEF EvidenceTrue
<1>14. Preconditioned'
  BY <1>1, <1>8 DEF BenchmarkInv, Preconditioned
<1>15. ManifestTrue'
  BY <1>1, <1>5, NoManifestYet DEF ManifestTrue
<1>16. run'.at \notin Closing
  BY <1>8 DEF Closing, Rewritten
<1>17. QED BY <1>11, <1>12, <1>13, <1>14, <1>15, <1>16 DEF BenchmarkInv

\* The records are in the raw file, and stay there.
LEMMA RawRewritten ==
  ASSUME BenchmarkInv, NEW here \in Rewritten, RunTo(here), run.at \in Rewritten \cup {"raw"},
         raw' = [lines |-> run.records, tail |-> "none"],
         answers' = answers, durable' = durable, manifest' = manifest
  PROVE  BenchmarkInv'
<1>1. RunTyped /\ here \in Places /\ RecordsTrue
  BY PlacesOfARun DEF BenchmarkInv
<1>2. /\ run' \in RunStates /\ run'.at = here /\ run'.records = run.records
      /\ run'.record = run.record /\ run'.status = run.status
      /\ run'.preconditioning = run.preconditioning
  BY <1>1, RunMoves
<1>3. KeepsRecords
  BY <1>2 DEF KeepsRecords
<1>4. RunTyped' /\ RecordsTrue'
  BY <1>2, <1>3, RecordsSettled
<1>5. run.at \notin {"create order", "create state", "unlink", "ended"}
  BY DEF Rewritten
<1>6. RawTrue
  BY <1>5, RawFileThere
<1>7. run.records \in Seq(RawLines) /\ Len(run.records) \in Nat /\ answers \in Seq(Responses)
  BY <1>1, RunFields DEF RunTyped
<1>8. raw' \in RawFiles /\ raw'.lines = run.records
  <2> DEFINE R == Seq(RawLines)
             all == run.records
  <2>1. all \in R
    BY <1>7
  <2>2. raw' = [lines |-> all, tail |-> "none"]
    OBVIOUS
  <2> HIDE DEF R, all
  <2>3. raw' \in [lines : R, tail : Tails] /\ raw'.lines = all
    BY <2>1, <2>2 DEF Tails
  <2>4. QED BY <2>3 DEF RawFiles, R, all
<1>9. run'.at \notin {"create order", "create state", "precondition", "execute", "append", "remember"}
  BY <1>2 DEF Rewritten
<1>10. RawTrue'
  <2>1. Len(raw'.lines) <= Len(answers')
    <3>1. Len(answers) = Len(run.records) \/ Len(answers) = Len(run.records) + 1
      BY <1>1 DEF RecordsTrue
    <3>2. QED BY <1>7, <1>8, <3>1
  <2>2. \A i \in 1 .. Len(raw'.lines) : raw'.lines[i] = Record(i, answers'[i])
    BY <1>1, <1>8 DEF RecordsTrue
  <2>3. Len(raw'.lines) \in {durable', Len(run'.records)}
    BY <1>2, <1>8
  <2>4. durable' \in {Len(run'.records), Len(run'.records) + 1} /\ durable' \in Nat
    BY <1>2, <1>6 DEF RawTrue
  <2>5. raw' = [lines |-> run'.records, tail |-> "none"]
    BY <1>2
  <2>6. QED BY <1>8, <1>9, <2>1, <2>2, <2>3, <2>4, <2>5 DEF RawTrue
<1>11. EvidenceTrue'
  BY <1>9, <1>10 DEF EvidenceTrue
<1>12. Preconditioned'
  BY <1>2, <1>9 DEF BenchmarkInv, Preconditioned
<1>13. ManifestTrue'
  BY <1>5, NoManifestYet DEF ManifestTrue
<1>14. run'.status = FinalStatus(Config, run'.records)
  <2>1. run.at \in Closing
    BY DEF Closing
  <2>2. QED BY <1>2, <2>1 DEF BenchmarkInv
<1>15. QED BY <1>4, <1>11, <1>12, <1>13, <1>14 DEF BenchmarkInv

\* The six artifacts of write_run_artifacts(), the raw file among them.
LEMMA WriteArtifactStep ==
  ASSUME BenchmarkInv, WriteArtifact
  PROVE  BenchmarkInv'
<1>1. run.at \in {"environment", "config", "raw", "summary.csv", "summary.md", "order"}
  BY DEF WriteArtifact, Artifacts
<1>2. RunTo(Following(run.at))
  BY DEF WriteArtifact
<1>3. answers' = answers /\ durable' = durable /\ manifest' = manifest
  BY DEF WriteArtifact
<1>4. IF run.at = "raw" THEN raw' = [lines |-> run.records, tail |-> "none"] ELSE raw' = raw
  BY DEF WriteArtifact, RunAt
<1>5. run.at \in Closing
  BY <1>1 DEF Closing, Rewritten
<1>6. CASE run.at \in {"environment", "config"}
  <2> DEFINE here == Following(run.at)
  <2>1. here \in {"config", "raw"}
    BY <1>6, FollowingFacts
  <2>2. here \in Settled
    BY <2>1 DEF Settled
  <2>3. KeepsLines
    BY <1>4, <1>6 DEF KeepsLines
  <2>4. RunTo(here)
    BY <1>2
  <2> HIDE DEF here
  <2>5. run.at \notin {"create order", "create state", "unlink", "ended"}
    BY <1>6
  <2>6. QED BY <1>3, <1>5, <2>2, <2>3, <2>4, <2>5, SettlesAt
<1>7. CASE run.at \notin {"environment", "config"}
  <2> DEFINE here == Following(run.at)
  <2>1. here \in Rewritten
    BY <1>1, <1>7, FollowingFacts DEF Rewritten
  <2>2. run.at \in Rewritten \cup {"raw"}
    BY <1>1, <1>7 DEF Rewritten
  <2>3. raw' = [lines |-> run.records, tail |-> "none"]
    <3>1. CASE run.at = "raw"
      BY <1>4, <3>1
    <3>2. CASE run.at # "raw"
      <4>1. RawTrue
        BY <1>1, RawFileThere
      <4>2. run.at \in Rewritten
        BY <2>2, <3>2
      <4>3. QED BY <1>4, <3>2, <4>1, <4>2 DEF RawTrue
    <3>3. QED BY <3>1, <3>2
  <2>4. RunTo(here)
    BY <1>2
  <2> HIDE DEF here
  <2>5. QED BY <1>3, <2>1, <2>2, <2>3, <2>4, RawRewritten
<1>8. QED BY <1>6, <1>7

\* The manifest binds the raw file that the records were written to.
LEMMA WriteManifestStep ==
  ASSUME BenchmarkInv, WriteManifest
  PROVE  BenchmarkInv'
<1>1. run.at = "manifest" /\ RunTo("unlink")
  BY DEF WriteManifest, RunAt
<1>2. RunTyped /\ RawTrue /\ "unlink" \in Places /\ "unlink" \in Settled
  BY <1>1, RawFileThere, PlacesOfARun DEF BenchmarkInv, Settled
<1>3. /\ run' \in RunStates /\ run'.at = "unlink" /\ run'.records = run.records
      /\ run'.record = run.record /\ run'.status = run.status
      /\ run'.preconditioning = run.preconditioning
  BY <1>1, <1>2, RunMoves
<1>4. raw' = raw /\ answers' = answers /\ durable' = durable
  BY DEF WriteManifest
<1>5. KeepsRecords /\ KeepsLines
  BY <1>3, <1>4 DEF KeepsRecords, KeepsLines
<1>6. RunTyped' /\ RecordsTrue'
  BY <1>2, <1>3, <1>5, RecordsSettled
<1>7. EvidenceTrue'
  <2>1. run'.at \in Settled
    BY <1>2, <1>3
  <2>2. run'.at = "ended" \/ run.at \notin {"create order", "create state", "ended"}
    BY <1>1
  <2>3. QED BY <1>5, <2>1, <2>2, EvidenceSettled
<1>8. Preconditioned'
  BY <1>3 DEF BenchmarkInv, Preconditioned
<1>9. run.status = FinalStatus(Config, run.records)
  BY <1>1 DEF BenchmarkInv, Closing, Rewritten
<1>10. ManifestTrue'
  <2> DEFINE bytes == [name \in Artifacts |-> Bytes(name)]
  <2>1. manifest' = Manifest(Config, run.status, run.records, run.preconditioning, bytes)
    BY DEF WriteManifest
  <2>2. bytes["raw"] = raw
    BY DEF Bytes, Artifacts
  <2>3. raw = [lines |-> run.records, tail |-> "none"]
    BY <1>1, <1>2 DEF RawTrue, Rewritten
  <2> HIDE DEF bytes
  <2>4. /\ manifest'.status = run.status /\ manifest'.completed = Len(run.records)
        /\ manifest'.successful = Count(run.records, "ok")
        /\ manifest'.failed = Count(run.records, "error")
        /\ manifest'.preconditioning = run.preconditioning
        /\ manifest'.bound = bytes
    BY <2>1 DEF Manifest
  <2>5. manifest'.bound["raw"] = [lines |-> run.records, tail |-> "none"]
    BY <2>2, <2>3, <2>4
  <2>6. QED BY <1>3, <1>9, <2>4, <2>5 DEF ManifestTrue
<1>11. run'.status = FinalStatus(Config, run'.records)
  BY <1>3, <1>9
<1>12. QED BY <1>6, <1>7, <1>8, <1>10, <1>11 DEF BenchmarkInv

\* Every step of a run keeps the invariant: normal, interrupted, failing or killed.
LEMMA BenchmarkStep == BenchmarkInv /\ [BenchmarkNext]_benchmarkVars => BenchmarkInv'
<1> SUFFICES ASSUME BenchmarkInv, [BenchmarkNext]_benchmarkVars PROVE BenchmarkInv'
  OBVIOUS
<1>2. CASE CreateOrder
  BY <1>2, CreateOrderStep
<1>3. CASE CreateState
  BY <1>3, CreateStateStep
<1>4. CASE Precondition
  BY <1>4, PreconditionStep
<1>5. CASE ExecuteWorker
  BY <1>5, ExecuteWorkerStep
<1>6. CASE AllExecuted
  <2>1. /\ run.at = "execute" /\ RunTo("close") /\ raw' = raw
        /\ answers' = answers /\ durable' = durable /\ manifest' = manifest
    BY <1>6 DEF AllExecuted, RunAt
  <2>2. KeepsLines /\ "close" \in Settled /\ "close" \notin Closing
    BY <2>1 DEF KeepsLines, Settled, Closing, Rewritten
  <2>3. run.at \notin {"create order", "create state", "unlink", "ended"}
    BY <2>1
  <2>4. QED BY <2>1, <2>2, <2>3, SettlesAt
<1>7. CASE AppendDurable
  BY <1>7, AppendDurableStep
<1>8. CASE AppendFails
  <2>1. /\ run.at = "append" /\ RunTo("rollback")
        /\ \E tail \in Tails : raw' = [raw EXCEPT !.tail = tail]
        /\ answers' = answers /\ durable' = durable /\ manifest' = manifest
    BY <1>8 DEF AppendFails, RunAt
  <2>2. RawTrue
    BY <2>1, RawFileThere
  <2>3. KeepsLines /\ "rollback" \in Settled /\ "rollback" \notin Closing
    BY <2>1, <2>2 DEF KeepsLines, Settled, Closing, Rewritten
  <2>4. run.at \notin {"create order", "create state", "unlink", "ended"}
    BY <2>1
  <2>5. QED BY <2>1, <2>3, <2>4, SettlesAt
<1>9. CASE Rollback
  <2>1. /\ run.at = "rollback" /\ RunTo("except")
        /\ \E tail \in {"none"} \cup AfterFlush(raw.tail) : raw' = [raw EXCEPT !.tail = tail]
        /\ answers' = answers /\ durable' = durable /\ manifest' = manifest
    BY <1>9 DEF Rollback, RunAt
  <2>2. RawTrue
    BY <2>1, RawFileThere
  <2>3. AfterFlush(raw.tail) \subseteq Tails /\ "none" \in Tails
    <3>1. raw.tail \in Tails
      BY <2>2, TailOfRaw
    <3>2. QED BY <3>1, TailsOfAFlush DEF Tails
  <2>4. KeepsLines /\ "except" \in Settled /\ "except" \notin Closing
    BY <2>1, <2>2, <2>3 DEF KeepsLines, Settled, Closing, Rewritten
  <2>5. run.at \notin {"create order", "create state", "unlink", "ended"}
    BY <2>1
  <2>6. QED BY <2>1, <2>4, <2>5, SettlesAt
<1>10. CASE Remember
  BY <1>10, RememberStep
<1>11. CASE Interrupt
  <2>1. /\ run.at \in {"precondition", "execute", "append", "remember"} /\ RunTo("except")
        /\ raw' = raw /\ answers' = answers /\ durable' = durable /\ manifest' = manifest
    BY <1>11 DEF Interrupt
  <2>2. KeepsLines /\ "except" \in Settled /\ "except" \notin Closing
    BY <2>1 DEF KeepsLines, Settled, Closing, Rewritten
  <2>3. run.at \notin {"create order", "create state", "unlink", "ended"}
    BY <2>1
  <2>4. QED BY <2>1, <2>2, <2>3, SettlesAt
<1>12. CASE StateAfterException
  <2>1. /\ run.at = "except"
        /\ run' = [run EXCEPT !.status = FinalStatus(Config, run.records), !.at = "except close"]
        /\ raw' = raw /\ answers' = answers /\ durable' = durable /\ manifest' = manifest
    BY <1>12 DEF StateAfterException, RunAt
  <2>2. "except close" \in Settled
    BY DEF Settled
  <2>3. run.at \notin {"create order", "create state", "unlink", "ended"}
    BY <2>1
  <2>4. QED BY <2>1, <2>2, <2>3, SettlesWithStatus
<1>13. CASE CloseAfterException
  <2>1. /\ run.at = "except close" /\ RunTo("environment")
        /\ \E tail \in AfterFlush(raw.tail) : raw' = [raw EXCEPT !.tail = tail]
        /\ answers' = answers /\ durable' = durable /\ manifest' = manifest
    BY <1>13 DEF CloseAfterException, RunAt
  <2>2. RawTrue
    BY <2>1, RawFileThere
  <2>3. AfterFlush(raw.tail) \subseteq Tails
    <3>1. raw.tail \in Tails
      BY <2>2, TailOfRaw
    <3>2. QED BY <3>1, TailsOfAFlush
  <2>4. KeepsLines /\ "environment" \in Settled
    BY <2>1, <2>2, <2>3 DEF KeepsLines, Settled
  <2>5. run.at \in Closing
    BY <2>1 DEF Closing
  <2>6. run.at \notin {"create order", "create state", "unlink", "ended"}
    BY <2>1
  <2>7. QED BY <2>1, <2>4, <2>5, <2>6, SettlesAt
<1>14. CASE Close
  <2>1. /\ run.at = "close" /\ RunTo("state") /\ raw' = raw
        /\ answers' = answers /\ durable' = durable /\ manifest' = manifest
    BY <1>14 DEF Close, RunAt
  <2>2. KeepsLines /\ "state" \in Settled /\ "state" \notin Closing
    BY <2>1 DEF KeepsLines, Settled, Closing, Rewritten
  <2>3. run.at \notin {"create order", "create state", "unlink", "ended"}
    BY <2>1
  <2>4. QED BY <2>1, <2>2, <2>3, SettlesAt
<1>15. CASE FinalState
  <2>1. /\ run.at = "state"
        /\ run' = [run EXCEPT !.status = FinalStatus(Config, run.records), !.at = "environment"]
        /\ raw' = raw /\ answers' = answers /\ durable' = durable /\ manifest' = manifest
    BY <1>15 DEF FinalState, RunAt
  <2>2. "environment" \in Settled
    BY DEF Settled
  <2>3. run.at \notin {"create order", "create state", "unlink", "ended"}
    BY <2>1
  <2>4. QED BY <2>1, <2>2, <2>3, SettlesWithStatus
<1>16. CASE WriteArtifact
  BY <1>16, WriteArtifactStep
<1>17. CASE WriteManifest
  BY <1>17, WriteManifestStep
<1>18. CASE UnlinkState
  <2>1. /\ RunTo("ended") /\ raw' = raw
        /\ answers' = answers /\ durable' = durable /\ manifest' = manifest
    BY <1>18 DEF UnlinkState
  <2>2. KeepsLines /\ "ended" \in Settled /\ "ended" \notin Closing
    BY <2>1 DEF KeepsLines, Settled, Closing, Rewritten
  <2>3. QED BY <2>1, <2>2, SettlesAt
<1>19. CASE Raise
  <2>1. /\ RunTo("ended") /\ raw' = raw
        /\ answers' = answers /\ durable' = durable /\ manifest' = manifest
    BY <1>19 DEF Raise
  <2>2. KeepsLines /\ "ended" \in Settled /\ "ended" \notin Closing
    BY <2>1 DEF KeepsLines, Settled, Closing, Rewritten
  <2>3. QED BY <2>1, <2>2, SettlesAt
<1>20. CASE KillRun
  <2>1. /\ RunTo("ended")
        /\ answers' = answers /\ durable' = durable /\ manifest' = manifest
        /\ raw = NoFile => raw' = raw
        /\ raw # NoFile => \E tail \in AfterFlush(raw.tail) : raw' = [raw EXCEPT !.tail = tail]
    BY <1>20 DEF KillRun
  <2>2. KeepsLines
    <3>1. CASE raw = NoFile
      BY <2>1, <3>1 DEF KeepsLines
    <3>2. CASE raw # NoFile
      <4>1. RawTrue
        BY <3>2 DEF BenchmarkInv, EvidenceTrue
      <4>2. raw.tail \in Tails
        BY <4>1, TailOfRaw
      <4>3. AfterFlush(raw.tail) \subseteq Tails
        BY <4>2, TailsOfAFlush
      <4>4. QED BY <2>1, <3>2, <4>1, <4>3 DEF KeepsLines
    <3>3. QED BY <3>1, <3>2
  <2>3. "ended" \in Settled /\ "ended" \notin Closing
    BY DEF Settled, Closing, Rewritten
  <2>4. QED BY <2>1, <2>2, <2>3, SettlesAt
<1>21. CASE UNCHANGED benchmarkVars
  BY <1>21 DEF benchmarkVars, BenchmarkInv, RunTyped, RecordsTrue, EvidenceTrue, RawTrue,
     Preconditioned, ManifestTrue
<1>22. QED BY <1>2, <1>3, <1>4, <1>5, <1>6, <1>7, <1>8, <1>9, <1>10, <1>11, <1>12, <1>13,
          <1>14, <1>15, <1>16, <1>17, <1>18, <1>19, <1>20, <1>21 DEF BenchmarkNext

\* benchmark_v2.py with benchmark_v2_report.py, for every configuration, whatever the
\* workers answer and wherever the run is interrupted, fails or is killed: a run
\* that loads is what it says, and the file has every record that was appended,
\* but for the last one of a run that was interrupted right after appending it.
THEOREM BenchmarkAlwaysTruthful == BenchmarkSpec => []BenchmarkTruthful
<1>1. BenchmarkSpec => []BenchmarkInv
  BY BenchmarkBegin, BenchmarkStep, PTL DEF BenchmarkSpec
<1>2. QED BY <1>1, BenchmarkTrue, PTL

-----------------------------------------------------------------------------
(* The statistics of a case.                                               *)

\* Squares are naturals.
LEMMA SquareNatural ==
  ASSUME NEW d \in Int
  PROVE  d * d \in Nat
<1>1. CASE d >= 0
  BY <1>1, SMTT(30)
<1>2. CASE d < 0
  <2> DEFINE e == -d
  <2>1. e \in Nat /\ d * d = e * e
    BY <1>2
  <2> HIDE DEF e
  <2>2. e * e \in Nat
    BY <2>1, SMTT(30)
  <2>3. QED BY <2>1, <2>2
<1>3. QED BY <1>1, <1>2

\* What two numbers are apart, squared.
LEMMA SquareOfDifference ==
  ASSUME NEW a \in Nat, NEW b \in Nat
  PROVE  /\ (a - b) * (a - b) \in Nat
         /\ 2 * a * b + (a - b) * (a - b) = (a * a) * 1 + b * b
<1>1. a - b \in Int
  OBVIOUS
<1>2. (a - b) * (a - b) \in Nat
  BY <1>1, SquareNatural
<1>3. (a - b) * (a - b) = a * a - 2 * a * b + b * b
  BY SMTT(30)
<1>4. QED BY <1>2, <1>3

\* The squares of what all pairs of some times are apart add up to twice the
\* variance, times the square of their number.
LEMMA ApartByVariance ==
  ASSUME NEW T, IsFiniteSet(T), NEW t \in [T -> Nat]
  PROVE  LET n == Cardinality(T)
             squares == SumFunction([i \in T |-> t[i] * t[i]])
             sum == SumFunction(t)
         IN /\ n \in Nat /\ squares \in Nat /\ sum \in Nat /\ Apart(t) \in Nat
            /\ Apart(t) + 2 * sum * sum = 2 * (n * squares)
<1> DEFINE n == Cardinality(T)
           sq == [i \in T |-> t[i] * t[i]]
           squares == SumFunction(sq)
           sum == SumFunction(t)
           gap(i) == [j \in T |-> (t[i] - t[j]) * (t[i] - t[j])]
           gaps == [i \in T |-> SumFunction(gap(i))]
           one == [i \in T |-> 1]
           all == [i \in T |-> squares]
<1>1. sq \in [T -> Nat] /\ one \in [T -> Nat]
  <2>1. \A i \in T : t[i] * t[i] \in Nat
    BY SquareNatural
  <2>2. QED BY <2>1
<1>2. n \in Nat /\ squares \in Nat /\ sum \in Nat
  <2> HIDE DEF sq
  <2>1. QED BY <1>1, SumType, FS_CardinalityType
<1>3. SumFunction(one) = n
  <2>1. SumFunction(one) = 1 * Cardinality(T)
    BY SumConstant
  <2>2. QED BY <1>2, <2>1
<1>4. SumFunction(all) = squares * n /\ all \in [T -> Nat]
  <2> HIDE DEF squares
  <2>1. QED BY <1>2, SumConstant
<1>5. ASSUME NEW i \in T
      PROVE  gaps[i] \in Nat /\ (2 * sum) * t[i] + gaps[i] = n * sq[i] + squares
  <2> DEFINE g == gap(i)
             a == t[i]
             h == [j \in T |-> a * a + t[j] * t[j]]
  <2>1. a \in Nat /\ 2 * a \in Nat /\ a * a \in Nat /\ sq[i] = a * a
    BY SquareNatural
  <2>2. ASSUME NEW j \in T
        PROVE  /\ g[j] \in Nat /\ h[j] \in Nat
               /\ h[j] = (2 * a) * t[j] + g[j] /\ h[j] = (a * a) * one[j] + sq[j]
    <3> DEFINE b == t[j]
    <3>1. b \in Nat /\ sq[j] = b * b /\ one[j] = 1
          /\ g[j] = (a - b) * (a - b) /\ h[j] = a * a + b * b
      OBVIOUS
    <3> HIDE DEF a, b, g, h, sq, one
    <3>2. (a - b) * (a - b) \in Nat /\ 2 * a * b + (a - b) * (a - b) = (a * a) * 1 + b * b
      BY <2>1, <3>1, SquareOfDifference
    <3>3. a * a \in Nat /\ b * b \in Nat
      BY <2>1, <3>1, SquareNatural
    <3>4. QED BY <2>1, <3>1, <3>2, <3>3 DEF b
  <2>3. g \in [T -> Nat] /\ h \in [T -> Nat]
    <3>1. g = [j \in T |-> g[j]] /\ h = [j \in T |-> h[j]]
      OBVIOUS
    <3> HIDE DEF g, h
    <3>2. QED BY <2>2, <3>1
  <2>4. gaps[i] = SumFunction(g)
    OBVIOUS
  <2> HIDE DEF a, g, h, sq, one
  <2>5. SumFunction(h) = (2 * a) * sum + SumFunction(g)
    BY <2>1, <2>2, <2>3, SumLinear
  <2>6. SumFunction(h) = (a * a) * SumFunction(one) + squares
    BY <1>1, <2>1, <2>2, <2>3, SumLinear
  <2>7. SumFunction(g) \in Nat
    BY <2>3, SumType
  <2> HIDE DEF squares, sum, n, gaps
  <2> DEFINE D == SumFunction(g)
             A == a * a
  <2>8. (2 * a) * sum + D = A * n + squares
    BY <1>3, <2>5, <2>6
  <2>9. (2 * a) * sum = (2 * sum) * a /\ A * n = n * A
    BY <1>2, <2>1
  <2>10. t[i] = a
    BY DEF a
  <2>11. QED BY <2>1, <2>4, <2>7, <2>8, <2>9, <2>10
<1> DEFINE h == [i \in T |-> n * sq[i] + squares]
<1>6. gaps \in [T -> Nat] /\ Apart(t) = SumFunction(gaps)
  <2>1. DOMAIN t = T
    OBVIOUS
  <2>2. gaps = [i \in T |-> gaps[i]]
    OBVIOUS
  <2>3. Apart(t) = SumFunction(gaps)
    BY <2>1 DEF Apart
  <2> HIDE DEF gaps
  <2>4. QED BY <1>5, <2>2, <2>3
<1>7. \A i \in T : h[i] = (2 * sum) * t[i] + gaps[i] /\ h[i] = n * sq[i] + all[i]
  <2>1. \A i \in T : h[i] = n * sq[i] + squares /\ all[i] = squares
    OBVIOUS
  <2> HIDE DEF h, sq, all, gaps, sum, squares, n
  <2>2. QED BY <1>5, <2>1
<1>8. h \in [T -> Nat]
  <2>1. \A i \in T : n * sq[i] \in Nat
    <3> HIDE DEF sq, n
    <3>1. QED BY <1>1, <1>2, SMTT(30)
  <2> HIDE DEF sq, n, squares
  <2>2. QED BY <1>2, <2>1
<1> HIDE DEF h, sq, all, gaps, one
<1>9. SumFunction(h) = n * squares + SumFunction(all)
  <2>1. \A i \in T : h[i] = n * sq[i] + all[i]
    BY <1>7
  <2> HIDE DEF n
  <2>2. SumFunction(h) = n * SumFunction(sq) + SumFunction(all)
    BY <1>1, <1>2, <1>4, <1>8, <2>1, SumLinear
  <2>3. QED BY <2>2
<1>10. SumFunction(h) = (2 * sum) * sum + Apart(t)
  <2>1. 2 * sum \in Nat
    BY <1>2
  <2>2. SumFunction(h) = (2 * sum) * SumFunction(t) + SumFunction(gaps)
    <3> HIDE DEF sum
    <3>1. QED BY <1>6, <1>7, <1>8, <2>1, SumLinear
  <2>3. QED BY <1>6, <2>2
<1>11. Apart(t) \in Nat
  BY <1>6, SumType
<1>12. Apart(t) + 2 * sum * sum = 2 * (n * squares)
  <2> DEFINE A == Apart(t)
             q == squares
             s == sum
             m == n
  <2>1. A \in Nat /\ q \in Nat /\ s \in Nat /\ m \in Nat
    BY <1>2, <1>11
  <2>2. m * q + q * m = (2 * s) * s + A
    BY <1>4, <1>9, <1>10
  <2> HIDE DEF A, q, s, m
  <2>3. q * m = m * q /\ (2 * s) * s = 2 * s * s
    BY <2>1
  <2>4. m * q \in Nat /\ s * s \in Nat
    BY <2>1, SMTT(30)
  <2>5. A + 2 * s * s = 2 * (m * q)
    BY <2>1, <2>2, <2>3, <2>4
  <2>6. QED BY <2>5 DEF A, q, s, m
<1>13. QED BY <1>2, <1>11, <1>12 DEF sq

\* The coefficient of variation is too large if and only if the times are too far
\* apart.
LEMMA UnstableIsApart ==
  ASSUME NEW T, IsFiniteSet(T), NEW t \in [T -> Nat], NEW percent \in Nat
  PROVE  Unstable(t, percent) <=> ~ CloseTogether(t, percent)
<1> DEFINE n == Cardinality(T)
           q == SumFunction([i \in T |-> t[i] * t[i]])
           s == SumFunction(t)
           A == Apart(t)
<1>1. /\ n \in Nat /\ q \in Nat /\ s \in Nat /\ A \in Nat
      /\ A + 2 * s * s = 2 * (n * q)
  BY ApartByVariance
<1>2. DOMAIN t = T
  OBVIOUS
<1>3. /\ Unstable(t, percent) <=> 10000 * (n * q - s * s) > percent * percent * s * s
      /\ CloseTogether(t, percent) <=> 5000 * A <= percent * percent * s * s
  BY <1>2 DEF Unstable, CloseTogether
<1> HIDE DEF n, q, s, A
<1> DEFINE u == n * q
           v == s * s
           w == percent * percent * s * s
<1>4. u \in Nat /\ v \in Nat /\ w \in Nat /\ A + 2 * v = 2 * u
  <2>1. u \in Nat /\ v \in Nat /\ percent * percent \in Nat
    BY <1>1, SMTT(30)
  <2> DEFINE r == percent * percent
  <2>2. r * s \in Nat /\ r \in Nat
    <3>1. r \in Nat
      BY <2>1
    <3> HIDE DEF r
    <3>2. QED BY <1>1, <3>1, SMTT(30)
  <2> DEFINE x == r * s
  <2>3. x * s \in Nat
    <3> HIDE DEF x
    <3>1. x \in Nat
      BY <2>2 DEF x
    <3>2. QED BY <1>1, <3>1, SMTT(30)
  <2>4. 2 * s * s = 2 * v
    BY <1>1
  <2>5. QED BY <1>1, <2>1, <2>3, <2>4
<1>5. 10000 * (u - v) = 5000 * A
  <2> HIDE DEF u, v
  <2>1. QED BY <1>1, <1>4
<1> HIDE DEF w
<1>6. 5000 * A \in Nat
  BY <1>1
<1>7. QED BY <1>3, <1>4, <1>5, <1>6 DEF w

\* Finitely many naturals have a bound.
LEMMA FiniteBound ==
  ASSUME NEW T, IsFiniteSet(T), NEW t \in [T -> Nat]
  PROVE  \E m \in Nat : \A i \in T : t[i] <= m
<1> DEFINE Bounded(s) == \E m \in Nat : \A i \in s : t[i] <= m
           Wrong == {s \in SUBSET T : ~ Bounded(s)}
<1>1. ASSUME NEW s \in Wrong, \A x \in s : s \ {x} \notin Wrong
      PROVE  FALSE
  <2>1. CASE s = {}
    <3>1. \A i \in s : t[i] <= 0
      BY <2>1
    <3>2. QED BY <3>1
  <2>2. CASE s # {}
    <3>1. PICK x \in s : TRUE
      BY <2>2
    <3>2. PICK m \in Nat : \A i \in s \ {x} : t[i] <= m
      BY <1>1
    <3>3. t[x] \in Nat /\ \A i \in s : t[i] \in Nat
      OBVIOUS
    <3> DEFINE top == IF t[x] > m THEN t[x] ELSE m
    <3>4. top \in Nat /\ \A i \in s : t[i] <= top
      BY <3>2, <3>3
    <3>5. QED BY <3>4
  <2>3. QED BY <2>1, <2>2
<1>2. Wrong = {}
  <2>1. Wrong \in SUBSET (SUBSET T)
    OBVIOUS
  <2> HIDE DEF Wrong
  <2>2. QED BY <2>1, <1>1, SmallestSubset
<1>3. QED BY <1>2

\* The places of the times below a number, up to it, and not below it.
Below(t, x) == {i \in DOMAIN t : t[i] < x}
NotAbove(t, x) == {i \in DOMAIN t : t[i] <= x}
NotBelow(t, x) == {i \in DOMAIN t : t[i] >= x}

\* How many there are of each.
LEMMA PlacesOfTimes ==
  ASSUME NEW T, IsFiniteSet(T), NEW t \in [T -> Nat], NEW x \in Nat
  PROVE  /\ Cardinality(Below(t, x)) \in Nat /\ Cardinality(NotAbove(t, x)) \in Nat
         /\ Cardinality(NotBelow(t, x)) \in Nat /\ Cardinality(T) \in Nat
         /\ Cardinality(Below(t, x)) + Cardinality(NotBelow(t, x)) = Cardinality(T)
<1>1. \A i \in T : t[i] \in Nat
  OBVIOUS
<1>2. /\ Below(t, x) \subseteq T /\ NotAbove(t, x) \subseteq T /\ NotBelow(t, x) \subseteq T
      /\ Below(t, x) \cup NotBelow(t, x) = T /\ Below(t, x) \cap NotBelow(t, x) = {}
  BY <1>1 DEF Below, NotAbove, NotBelow
<1>3. IsFiniteSet(Below(t, x)) /\ IsFiniteSet(NotAbove(t, x)) /\ IsFiniteSet(NotBelow(t, x))
  BY <1>2, FS_Subset
<1>4. Cardinality(Below(t, x) \cup NotBelow(t, x))
        = Cardinality(Below(t, x)) + Cardinality(NotBelow(t, x))
            - Cardinality(Below(t, x) \cap NotBelow(t, x))
  BY <1>3, FS_Union
<1>5. Cardinality({}) = 0
  BY FS_EmptySet
<1>6. /\ Cardinality(Below(t, x)) \in Nat /\ Cardinality(NotAbove(t, x)) \in Nat
      /\ Cardinality(NotBelow(t, x)) \in Nat /\ Cardinality(T) \in Nat
  BY <1>3, FS_CardinalityType
<1>7. Cardinality(T) = Cardinality(Below(t, x)) + Cardinality(NotBelow(t, x)) - 0
  <2> DEFINE b == Below(t, x)
             a == NotBelow(t, x)
  <2>1. Cardinality(b \cap a) = 0 /\ Cardinality(b \cup a) = Cardinality(T)
    BY <1>2, <1>5
  <2>2. Cardinality(b \cup a) = Cardinality(b) + Cardinality(a) - Cardinality(b \cap a)
    BY <1>4
  <2> HIDE DEF a, b
  <2>3. QED BY <2>1, <2>2 DEF a, b
<1>8. QED BY <1>6, <1>7

\* What is up to a number is below a larger one; what is not below that is above.
LEMMA PlacesMonotone ==
  ASSUME NEW T, IsFiniteSet(T), NEW t \in [T -> Nat], NEW x \in Nat, NEW y \in Nat, x < y
  PROVE  Cardinality(NotAbove(t, x)) <= Cardinality(Below(t, y))
<1>1. \A i \in T : t[i] \in Nat
  OBVIOUS
<1>2. NotAbove(t, x) \subseteq Below(t, y) /\ Below(t, y) \subseteq T
  BY <1>1 DEF Below, NotAbove
<1>3. IsFiniteSet(Below(t, y))
  BY <1>2, FS_Subset
<1>4. QED BY <1>2, <1>3, FS_Subset

\* x is the k-th smallest of some times.
IsSmallest(k, t, x) ==
  /\ x \in Range(t)
  /\ Cardinality(Below(t, x)) < k /\ k <= Cardinality(NotAbove(t, x))

\* There is a k-th smallest of at least k times: the least number with k times up
\* to it.
LEMMA SmallestExists ==
  ASSUME NEW T, IsFiniteSet(T), NEW t \in [T -> Nat], NEW k \in Nat, 0 < k, k <= Cardinality(T)
  PROVE  Smallest(k, t) \in Nat /\ IsSmallest(k, t, Smallest(k, t))
<1> DEFINE V == {v \in Nat : k <= Cardinality(NotAbove(t, v))}
<1>1. V # {}
  <2>1. PICK m \in Nat : \A i \in T : t[i] <= m
    BY FiniteBound
  <2>2. NotAbove(t, m) = T
    BY <2>1 DEF NotAbove
  <2>3. QED BY <2>2
<1>2. PICK x \in V : \A y \in V : x <= y
  <2>1. V \in SUBSET Nat
    OBVIOUS
  <2> HIDE DEF V
  <2>2. QED BY <1>1, <2>1, LeastNumber
<1>3. x \in Nat /\ k <= Cardinality(NotAbove(t, x))
  OBVIOUS
<1>4. Cardinality(Below(t, x)) < k
  <2>1. CASE x = 0
    <3>1. \A i \in T : t[i] \in Nat
      OBVIOUS
    <3>2. Below(t, x) = {}
      BY <2>1, <3>1 DEF Below
    <3>3. QED BY <3>2, FS_EmptySet
  <2>2. CASE x # 0
    <3> DEFINE y == x - 1
    <3>1. y \in Nat /\ y < x
      BY <1>3, <2>2
    <3>2. y \notin V
      BY <1>2, <1>3, <3>1
    <3>3. ~ (k <= Cardinality(NotAbove(t, y)))
      BY <3>1, <3>2
    <3>4. \A i \in T : t[i] \in Nat
      OBVIOUS
    <3>5. NotAbove(t, y) = Below(t, x)
      BY <1>3, <3>4 DEF NotAbove, Below
    <3>6. Cardinality(NotAbove(t, y)) \in Nat
      <4> HIDE DEF y
      <4>1. QED BY <3>1, PlacesOfTimes
    <3>7. QED BY <3>3, <3>5, <3>6
  <2>3. QED BY <2>1, <2>2
<1>5. x \in Range(t)
  <2>1. CASE x \notin Range(t)
    <3>1. \A i \in T : t[i] \in Nat /\ t[i] # x
      BY <2>1 DEF Range
    <3>2. NotAbove(t, x) = Below(t, x)
      BY <1>3, <3>1 DEF NotAbove, Below
    <3>3. Cardinality(Below(t, x)) \in Nat
      BY <1>3, PlacesOfTimes
    <3>4. QED BY <1>3, <1>4, <3>2, <3>3
  <2>2. QED BY <2>1
<1>6. Smallest(k, t) = CHOOSE z \in Range(t) : IsSmallest(k, t, z)
  <2>1. \A z \in Range(t) :
          IsSmallest(k, t, z)
            <=> /\ Cardinality({i \in DOMAIN t : t[i] < z}) < k
                /\ k <= Cardinality({i \in DOMAIN t : t[i] <= z})
    BY DEF IsSmallest, Below, NotAbove
  <2>2. QED BY <2>1 DEF Smallest
<1>7. IsSmallest(k, t, Smallest(k, t)) /\ Smallest(k, t) \in Range(t)
  <2>1. IsSmallest(k, t, x)
    BY <1>3, <1>4, <1>5 DEF IsSmallest
  <2>2. QED BY <1>5, <1>6, <2>1
<1>8. Range(t) \subseteq Nat
  BY DEF Range
<1>9. QED BY <1>7, <1>8

\* The median that is read off the order of the times is the one between those
\* in the middle.
LEMMA MedianIsMiddle ==
  ASSUME NEW T, IsFiniteSet(T), T # {}, NEW t \in [T -> Nat]
  PROVE  /\ TwiceMedian(t) = TwiceMiddle(t)
         /\ (\A i \in T : t[i] # 0) => TwiceMedian(t) # 0
<1> DEFINE n == Cardinality(T)
           k == (n + 1) \div 2
           l == (n \div 2) + 1
           low == Smallest(k, t)
           high == Smallest(l, t)
<1>1. n \in Nat /\ n > 0
  <2>1. n \in Nat
    BY FS_CardinalityType
  <2>2. n # 0
    BY FS_EmptySet
  <2>3. QED BY <2>1, <2>2
<1>2. /\ k \in Nat /\ 0 < k /\ k <= n /\ n <= 2 * k /\ 2 * k <= n + 1
      /\ l \in Nat /\ 0 < l /\ l <= n /\ n + 1 <= 2 * l /\ 2 * l <= n + 2
  <2> HIDE DEF n
  <2>1. QED BY <1>1
<1>3. /\ low \in Nat /\ IsSmallest(k, t, low)
      /\ high \in Nat /\ IsSmallest(l, t, high)
  <2> HIDE DEF k, l
  <2>1. QED BY <1>2, SmallestExists
<1> DEFINE InMiddle(x) == /\ x \in Range(t)
                          /\ 2 * Cardinality(NotAbove(t, x)) >= n
                          /\ 2 * Cardinality(NotBelow(t, x)) >= n
<1>4. DOMAIN t = T /\ Range(t) \subseteq Nat
  BY DEF Range
<1>5. \A x : x \in Middle(t) <=> InMiddle(x)
  BY <1>4 DEF Middle, NotAbove, NotBelow
<1>6. ASSUME NEW x \in Nat
      PROVE  /\ Cardinality(Below(t, x)) \in Nat /\ Cardinality(NotAbove(t, x)) \in Nat
             /\ Cardinality(NotBelow(t, x)) \in Nat
             /\ Cardinality(Below(t, x)) + Cardinality(NotBelow(t, x)) = n
  BY PlacesOfTimes
<1> HIDE DEF n, k, l, low, high
<1>7. InMiddle(low) /\ InMiddle(high)
  BY <1>1, <1>2, <1>3, <1>6 DEF IsSmallest
<1>8. ASSUME NEW y \in Nat, InMiddle(y)
      PROVE  low <= y /\ y <= high
  <2>1. ASSUME y < low
        PROVE  FALSE
    <3>1. Cardinality(NotAbove(t, y)) <= Cardinality(Below(t, low))
      BY <1>3, <2>1, PlacesMonotone
    <3>2. QED BY <1>1, <1>2, <1>3, <1>6, <1>8, <3>1 DEF IsSmallest
  <2>2. ASSUME high < y
        PROVE  FALSE
    <3>1. Cardinality(NotAbove(t, high)) <= Cardinality(Below(t, y))
      BY <1>3, <2>2, PlacesMonotone
    <3>2. QED BY <1>1, <1>2, <1>3, <1>6, <1>8, <3>1 DEF IsSmallest
  <2>3. QED BY <1>3, <2>1, <2>2
<1> DEFINE least == CHOOSE x \in Middle(t) : \A y \in Middle(t) : x <= y
           most == CHOOSE x \in Middle(t) : \A y \in Middle(t) : y <= x
<1>9. Middle(t) \subseteq Nat /\ low \in Middle(t) /\ high \in Middle(t)
  BY <1>4, <1>5, <1>7
<1>10. \A y \in Middle(t) : low <= y /\ y <= high
  BY <1>5, <1>8, <1>9
<1>11. least \in Middle(t) /\ (\A y \in Middle(t) : least <= y)
  BY <1>9, <1>10
<1>12. most \in Middle(t) /\ (\A y \in Middle(t) : y <= most)
  BY <1>9, <1>10
<1> HIDE DEF least, most
<1>13. least = low /\ most = high
  BY <1>3, <1>9, <1>10, <1>11, <1>12
<1>14. TwiceMedian(t) = low + high
  BY <1>4 DEF TwiceMedian, low, high, k, l, n
<1>15. TwiceMiddle(t) = least + most
  BY DEF TwiceMiddle, least, most
<1>16. (\A i \in T : t[i] # 0) => low # 0
  BY <1>3, <1>4 DEF IsSmallest, Range
<1>17. QED BY <1>3, <1>13, <1>14, <1>15, <1>16

\* The records that execute_worker() makes of some answers.
RecordsOf(given) == [task \in DOMAIN given |-> Record(task, given[task])]

\* What a worker measured is a measurement, and took its time.
LEMMA MeasuredFacts ==
  ASSUME NEW response \in Responses, Measured(response)
  PROVE  response.measured \in Measurements /\ response.measured.time \in Nat \ {0}
<1>1. response \in [kind : {"ok"}, code : {0}, measured : Measurements]
  BY DEF Responses, Measured
<1>2. response.measured \in Measurements
  BY <1>1
<1>3. QED BY <1>2, BenchmarkAssumption DEF BenchmarkAssumption

\* The tasks of a case that have an answer.
OwnTasks(config, given, case) == {task \in DOMAIN given : config.caseOf[task] = case}

\* The controls that were measured under.
ControlsMeasured(config, given, case) ==
  {MeasuredOf(config.caseOf, given, case)[task].controls :
     task \in DOMAIN MeasuredOf(config.caseOf, given, case)}

\* The records of a case are those of its tasks, and those of the successful ones
\* have the times and the controls that were measured.
LEMMA CaseOfRecords ==
  ASSUME NEW given, NEW config, NEW case
  PROVE  /\ DOMAIN OfCase(config, RecordsOf(given), case) = OwnTasks(config, given, case)
         /\ Times(OfCase(config, RecordsOf(given), case)) = TimesOf(config.caseOf, given, case)
         /\ Range(Controls(OfCase(config, RecordsOf(given), case)))
              = ControlsMeasured(config, given, case)
<1> DEFINE part == OfCase(config, RecordsOf(given), case)
           measured == MeasuredOf(config.caseOf, given, case)
           own == OwnTasks(config, given, case)
           good == {task \in DOMAIN given : config.caseOf[task] = case /\ Measured(given[task])}
<1>1. \A task \in DOMAIN given : RecordsOf(given)[task] = Record(task, given[task])
  BY DEF RecordsOf
<1>2. DOMAIN RecordsOf(given) = DOMAIN given
  BY DEF RecordsOf
<1>3. part = [task \in own |-> Record(task, given[task])]
  <2>1. {task \in DOMAIN RecordsOf(given) : config.caseOf[RecordsOf(given)[task].task] = case} = own
    BY <1>1, <1>2, RecordFacts DEF OwnTasks
  <2>2. part = [task \in {task \in DOMAIN RecordsOf(given) :
                            config.caseOf[RecordsOf(given)[task].task] = case}
                  |-> RecordsOf(given)[task]]
    BY DEF OfCase, RestrictValues, Restrict
  <2>3. part = [task \in own |-> RecordsOf(given)[task]]
    BY <2>1, <2>2
  <2>4. \A task \in own : RecordsOf(given)[task] = Record(task, given[task])
    BY <1>1 DEF OwnTasks
  <2> HIDE DEF part, own
  <2>5. QED BY <2>3, <2>4
<1>4. Successful(part) = [task \in good |-> Record(task, given[task])]
  <2>1. DOMAIN part = own /\ \A task \in own : part[task] = Record(task, given[task])
    BY <1>3
  <2>2. {task \in DOMAIN part : part[task].status = "ok"} = good
    BY <2>1, RecordFacts DEF OwnTasks
  <2> HIDE DEF part
  <2>3. Successful(part) = [task \in {task \in DOMAIN part : part[task].status = "ok"} |-> part[task]]
    BY DEF Successful, RestrictValues, Restrict, Succeeded
  <2>4. QED BY <2>1, <2>2, <2>3
<1>5. measured = [task \in good |-> given[task].measured]
  BY DEF MeasuredOf
<1> HIDE DEF part, measured
<1>6. DOMAIN part = own
  BY <1>3
<1>7. Times(part) = TimesOf(config.caseOf, given, case)
  <2>1. \A task \in good : Record(task, given[task]).response = given[task]
    BY RecordFacts
  <2>2. Times(part) = [task \in good |-> given[task].measured.time]
    BY <1>4, <2>1 DEF Times
  <2>3. TimesOf(config.caseOf, given, case) = [task \in good |-> given[task].measured.time]
    BY <1>5 DEF TimesOf, measured
  <2>4. QED BY <2>2, <2>3
<1>8. Range(Controls(part)) = {measured[task].controls : task \in DOMAIN measured}
  <2>1. \A task \in good : Record(task, given[task]).response = given[task]
    BY RecordFacts
  <2>2. Controls(part) = [task \in good |-> given[task].measured.controls]
    BY <1>4, <2>1 DEF Controls
  <2>3. Range(Controls(part)) = {given[task].measured.controls : task \in good}
    BY <2>2 DEF Range
  <2>4. QED BY <1>5, <2>3
<1>9. QED BY <1>6, <1>7, <1>8 DEF part, measured, ControlsMeasured

\* The cases that some answers have records of.
CasesAnswered(config, given) == {config.caseOf[task] : task \in DOMAIN given}

\* The records are of these cases: of all cases, if each task has an answer.
LEMMA CasesOfRecords ==
  ASSUME NEW given, NEW config
  PROVE  /\ CasesOf(config, RecordsOf(given)) = CasesAnswered(config, given)
         /\ DOMAIN given = DOMAIN config.caseOf => CasesAnswered(config, given) = Cases(config)
<1>1. \A task \in DOMAIN given : RecordsOf(given)[task].task = task
  BY RecordFacts DEF RecordsOf
<1>2. DOMAIN RecordsOf(given) = DOMAIN given
  BY DEF RecordsOf
<1>3. QED BY <1>1, <1>2 DEF CasesOf, CasesAnswered, Cases

\* Answers make lines.
LEMMA RecordsAreLines ==
  ASSUME NEW given \in Seq(Responses)
  PROVE  /\ RecordsOf(given) \in Seq(RawLines) /\ Len(RecordsOf(given)) = Len(given)
         /\ DOMAIN RecordsOf(given) = 1 .. Len(given) /\ Len(given) \in Nat
         /\ \A i \in 1 .. Len(given) : RecordsOf(given)[i] = Record(i, given[i])
<1>1. DOMAIN given = 1 .. Len(given) /\ Len(given) \in Nat
  OBVIOUS
<1>2. \A i \in 1 .. Len(given) : Record(i, given[i]) \in RawLines
  <2>1. ASSUME NEW i \in 1 .. Len(given) PROVE Record(i, given[i]) \in RawLines
    <3>1. i \in Nat /\ given[i] \in Responses
      BY <1>1
    <3>2. QED BY <3>1, RecordIsLine
  <2>2. QED BY <2>1
<1>3. RecordsOf(given) = [task \in 1 .. Len(given) |-> Record(task, given[task])]
  BY <1>1 DEF RecordsOf
<1>4. RecordsOf(given) \in Seq(RawLines)
  <2> DEFINE r(i) == Record(i, given[i])
             s == [task \in 1 .. Len(given) |-> r(task)]
  <2>1. \A i \in 1 .. Len(given) : r(i) \in RawLines
    BY <1>2
  <2>2. RecordsOf(given) = s
    BY <1>3
  <2> HIDE DEF r
  <2>3. s \in Seq(RawLines)
    BY <1>1, <2>1
  <2>4. QED BY <2>2, <2>3
<1>5. DOMAIN RecordsOf(given) = 1 .. Len(given)
  BY <1>3
<1>6. Len(RecordsOf(given)) = Len(given)
  BY <1>1, <1>4, <1>5
<1>7. QED BY <1>1, <1>3, <1>4, <1>5, <1>6

\* A run is complete if and only if the worker of each of its tasks measured.
LEMMA CompleteMeasuredAll ==
  ASSUME NEW config, config.caseOf \in Seq(Nat), NEW given \in Seq(Responses)
  PROVE  FinalStatus(config, RecordsOf(given)) = "complete"
           <=> /\ Len(given) = Len(config.caseOf) /\ Len(given) > 0
               /\ \A task \in 1 .. Len(given) : Measured(given[task])
<1> DEFINE records == RecordsOf(given)
           good == {i \in 1 .. Len(records) : Measured(given[i])}
<1>1. /\ records \in Seq(RawLines) /\ Len(records) = Len(given) /\ Len(given) \in Nat
      /\ DOMAIN records = 1 .. Len(given)
      /\ \A i \in 1 .. Len(given) : records[i] = Record(i, given[i])
  BY RecordsAreLines
<1> HIDE DEF records
<1>2. /\ Count(records, "ok") = 0 <=> good = {}
      /\ Count(records, "ok") = Len(records) <=> good = 1 .. Len(records)
  BY <1>1, CountsOfMeasured
<1>3. {records[i].task : i \in DOMAIN records} = 1 .. Len(given)
  <2>1. \A i \in 1 .. Len(given) : records[i].task = i
    BY <1>1, RecordFacts
  <2>2. QED BY <1>1, <2>1
<1>4. DOMAIN config.caseOf = 1 .. Len(config.caseOf) /\ Len(config.caseOf) \in Nat
  OBVIOUS
<1>5. good = 1 .. Len(given) <=> \A task \in 1 .. Len(given) : Measured(given[task])
  BY <1>1
<1>6. good = 1 .. Len(given) => (good = {} <=> ~ (Len(given) > 0))
  BY <1>1
<1> HIDE DEF good
<1>7. FinalStatus(config, records) = "complete"
        <=> /\ Count(records, "ok") # 0
            /\ {records[i].task : i \in DOMAIN records} = DOMAIN config.caseOf
            /\ Len(records) = Len(config.caseOf)
            /\ Count(records, "ok") = Len(records)
  BY DEF FinalStatus
<1>8. QED BY <1>1, <1>2, <1>3, <1>4, <1>5, <1>6, <1>7 DEF records

\* A row says what it should of the times of its case.
IsRowOf(row, times, minimum, percent) ==
  /\ row.replicates = Cardinality(DOMAIN times)
  /\ row.median = TwiceMiddle(times) /\ row.median # 0
  /\ row.stability \in {"insufficient", "unstable", "stable"}
  /\ row.stability = "stable"
       <=> Cardinality(DOMAIN times) >= minimum /\ CloseTogether(times, percent)

\* The row of a case of a run whose workers all measured, under a policy.
LEMMA SummaryOfMeasured ==
  ASSUME NEW config, config.caseOf \in Seq(Nat), NEW given \in Seq(Responses),
         Len(given) = Len(config.caseOf),
         \A task \in 1 .. Len(given) : Measured(given[task]),
         NEW case \in Cases(config), NEW minimum \in Nat, NEW percent \in Nat
  PROVE  IsRowOf(Summary(OfCase(config, RecordsOf(given), case), minimum, percent),
                 TimesOf(config.caseOf, given, case), minimum, percent)
<1> DEFINE part == OfCase(config, RecordsOf(given), case)
           times == TimesOf(config.caseOf, given, case)
           own == OwnTasks(config, given, case)
           row == Summary(part, minimum, percent)
<1>1. /\ DOMAIN given = 1 .. Len(given) /\ Len(given) \in Nat
      /\ DOMAIN config.caseOf = 1 .. Len(config.caseOf)
  OBVIOUS
<1>2. DOMAIN part = own /\ Times(part) = times
  BY CaseOfRecords
<1>3. /\ times = [task \in own |-> given[task].measured.time]
      /\ \A task \in own : given[task].measured.time \in Nat \ {0}
  <2>1. own = {task \in DOMAIN given : config.caseOf[task] = case /\ Measured(given[task])}
    BY <1>1 DEF OwnTasks
  <2>2. MeasuredOf(config.caseOf, given, case) = [task \in own |-> given[task].measured]
    BY <2>1 DEF MeasuredOf
  <2>3. times = [task \in own |-> given[task].measured.time]
    BY <2>2 DEF TimesOf
  <2>4. ASSUME NEW task \in own PROVE given[task].measured.time \in Nat \ {0}
    <3>1. given[task] \in Responses /\ Measured(given[task])
      BY <1>1 DEF OwnTasks
    <3>2. QED BY <3>1, MeasuredFacts
  <2> HIDE DEF times, own
  <2>5. QED BY <2>3, <2>4
<1>4. IsFiniteSet(own) /\ own # {}
  <2>1. own \subseteq 1 .. Len(given)
    BY <1>1 DEF OwnTasks
  <2>2. IsFiniteSet(1 .. Len(given))
    BY <1>1, FirstNumbers
  <2>3. own # {}
    BY <1>1 DEF Cases, OwnTasks
  <2> HIDE DEF own
  <2>4. QED BY <2>1, <2>2, <2>3, FS_Subset
<1> HIDE DEF part, times, own
<1>5. times \in [own -> Nat] /\ DOMAIN times = own /\ \A task \in own : times[task] # 0
  BY <1>3
<1>6. TwiceMedian(times) = TwiceMiddle(times) /\ TwiceMedian(times) # 0
  BY <1>4, <1>5, MedianIsMiddle
<1>7. Unstable(times, percent) <=> ~ CloseTogether(times, percent)
  BY <1>4, <1>5, UnstableIsApart
<1>8. row.replicates = Cardinality(own) /\ row.median = TwiceMedian(times)
      /\ row.stability = Stability(part, minimum, percent)
  BY <1>2, <1>4, <1>5 DEF Summary
<1>9. /\ Stability(part, minimum, percent) \in {"insufficient", "unstable", "stable"}
      /\ Stability(part, minimum, percent) = "stable"
           <=> ~ (Cardinality(own) < minimum) /\ ~ Unstable(times, percent)
  BY <1>2, <1>5 DEF Stability
<1>10. Cardinality(own) \in Nat
  BY <1>4, FS_CardinalityType
<1>11. ~ (Cardinality(own) < minimum) <=> Cardinality(own) >= minimum
  BY <1>10
<1> HIDE DEF row
<1>12. QED BY <1>5, <1>6, <1>7, <1>8, <1>9, <1>11 DEF row, part, times, IsRowOf

-----------------------------------------------------------------------------
(* The verdict.                                                            *)

\* What compare_runs() looks at of a run, by its configuration, the answers of its
\* workers and its machine.
Describes(p, config, given, machine) ==
  /\ p.status = FinalStatus(config, RecordsOf(given)) /\ p.machine = machine
  /\ p.config = config /\ p.lines = RecordsOf(given)
  /\ DOMAIN p.rows = CasesAnswered(config, given)

\* Every worker of a run measured.
MeasuredAll(config, given) ==
  /\ Len(given) = Len(config.caseOf) /\ Len(given) > 0
  /\ \A task \in 1 .. Len(given) : Measured(given[task])

\* The two parts of a fair comparison: of the runs, and of each case.
FairRuns(base, given) ==
  /\ base.machine = "here" /\ Cases(base.config) = Cases(Config)
  /\ MeasuredAll(base.config, base.answers) /\ MeasuredAll(Config, given)

FairControls(base, given, case) ==
  /\ ControlsMeasured(base.config, base.answers, case) = ControlsMeasured(Config, given, case)
  /\ Cardinality(ControlsMeasured(Config, given, case)) = 1

FairTimes(base, given, policy, case) ==
  LET b == TimesOf(base.config.caseOf, base.answers, case)
      c == TimesOf(Config.caseOf, given, case)
  IN /\ Cardinality(DOMAIN b) >= policy.minimum /\ Cardinality(DOMAIN c) >= policy.minimum
     /\ policy.equalCounts => Cardinality(DOMAIN b) = Cardinality(DOMAIN c)
     /\ CloseTogether(b, policy.percent) /\ CloseTogether(c, policy.percent)

\* A baseline has an answer for each of its tasks.
LEMMA BaselineFacts ==
  ASSUME NEW base \in Baselines
  PROVE  /\ base.config.caseOf \in Seq(Nat) /\ base.answers \in Seq(Responses)
         /\ Len(base.answers) = Len(base.config.caseOf)
         /\ Len(base.answers) \in Nat
         /\ DOMAIN base.answers = 1 .. Len(base.answers)
         /\ DOMAIN base.config.caseOf = 1 .. Len(base.answers)
<1>1. /\ base.config.caseOf \in Seq(Nat) /\ base.answers \in Seq(Responses)
      /\ Len(base.answers) = Len(base.config.caseOf)
  BY ComparisonAssumption DEF ComparisonAssumption
<1> DEFINE a == base.answers
           c == base.config.caseOf
<1>2. a \in Seq(Responses) /\ c \in Seq(Nat) /\ Len(a) = Len(c)
  BY <1>1
<1> HIDE DEF a, c
<1>3. Len(a) \in Nat /\ DOMAIN a = 1 .. Len(a) /\ DOMAIN c = 1 .. Len(a)
  BY <1>2
<1>4. QED BY <1>1, <1>3 DEF a, c

\* Fairness is that of the runs and that of each case.
LEMMA FairByParts ==
  ASSUME NEW base \in Baselines, NEW given \in Seq(Responses), NEW policy
  PROVE  Fair(base, given, policy)
           <=> /\ FairRuns(base, given)
               /\ \A case \in Cases(Config) :
                    FairControls(base, given, case) /\ FairTimes(base, given, policy, case)
<1>1. /\ base.config.caseOf \in Seq(Nat) /\ base.answers \in Seq(Responses)
      /\ Len(base.answers) = Len(base.config.caseOf) /\ Len(base.answers) \in Nat
      /\ DOMAIN base.answers = 1 .. Len(base.answers)
      /\ DOMAIN base.config.caseOf = 1 .. Len(base.answers)
  BY BaselineFacts
<1>2. /\ Len(Config.caseOf) = NTasks /\ NTasks \in Nat /\ NTasks > 0
      /\ DOMAIN Config.caseOf = TaskIds /\ TaskIds = 1 .. NTasks
  BY BenchmarkAssumption DEF BenchmarkAssumption, NTasks, TaskIds
<1>3. DOMAIN given = 1 .. Len(given) /\ Len(given) \in Nat
  OBVIOUS
<1> DEFINE cases == \A case \in Cases(Config) :
                      FairControls(base, given, case) /\ FairTimes(base, given, policy, case)
<1>4. Fair(base, given, policy)
        <=> /\ base.machine = "here" /\ Cases(base.config) = Cases(Config)
            /\ \A task \in DOMAIN base.config.caseOf : Measured(base.answers[task])
            /\ DOMAIN given = TaskIds /\ \A task \in TaskIds : Measured(given[task])
            /\ cases
  BY DEF Fair, FairControls, FairTimes, ControlsMeasured
<1> HIDE DEF cases
<1>5. DOMAIN given = TaskIds <=> Len(given) = NTasks
  <2>1. ASSUME NEW m \in Nat, NEW n \in Nat, n > 0, 1 .. m = 1 .. n PROVE m = n
    <3>1. n \in 1 .. n
      BY <2>1
    <3>2. n \in 1 .. m
      BY <2>1, <3>1
    <3>3. m \in 1 .. m
      BY <2>1, <3>2
    <3>4. m \in 1 .. n
      BY <2>1, <3>3
    <3>5. QED BY <2>1, <3>2, <3>4
  <2>2. QED BY <1>2, <1>3, <2>1
<1>6. ASSUME Cases(base.config) = Cases(Config)
      PROVE  Len(base.answers) > 0
  <2>1. Cases(Config) # {}
    <3>1. 1 \in DOMAIN Config.caseOf
      BY <1>2
    <3>2. QED BY <3>1 DEF Cases
  <2>2. DOMAIN base.config.caseOf # {}
    <3>1. DOMAIN base.config.caseOf = {} => Cases(base.config) = {}
      BY DEF Cases
    <3>2. QED BY <1>6, <2>1, <3>1
  <2>3. QED BY <1>1, <2>2
<1>7. /\ MeasuredAll(base.config, base.answers)
           <=> /\ Len(base.answers) > 0
               /\ \A task \in DOMAIN base.config.caseOf : Measured(base.answers[task])
      /\ MeasuredAll(Config, given)
           <=> DOMAIN given = TaskIds /\ \A task \in TaskIds : Measured(given[task])
  BY <1>1, <1>2, <1>3, <1>5 DEF MeasuredAll
<1>8. QED BY <1>4, <1>6, <1>7 DEF FairRuns, cases

\* There is no reason not to compare the runs.
LEMMA NoRunReasons ==
  ASSUME NEW base, NEW cand
  PROVE  RunReasons(base, cand) = {}
           <=> /\ base.status = "complete" /\ cand.status = "complete"
               /\ DOMAIN base.rows = DOMAIN cand.rows
               /\ base.machine = cand.machine /\ cand.machine # "unknown"
               /\ ~ Inconsistent(base) /\ ~ Inconsistent(cand)
               /\ \A case \in DOMAIN base.rows \cap DOMAIN cand.rows :
                    ControlsOfCase(base, case) = ControlsOfCase(cand, case)
<1> DEFINE incomplete == {"incomplete" : p \in {q \in {base, cand} : q.status # "complete"}}
           cases == IF DOMAIN base.rows # DOMAIN cand.rows THEN {"cases"} ELSE {}
           unknown == IF base.machine = "unknown" \/ cand.machine = "unknown"
                      THEN {"machine unknown"} ELSE {}
           machine == IF base.machine # cand.machine THEN {"machine"} ELSE {}
           same == \A case \in DOMAIN base.rows \cap DOMAIN cand.rows :
                     ControlsOfCase(base, case) = ControlsOfCase(cand, case)
           controls == IF base.status # "complete" \/ cand.status # "complete" THEN {}
                       ELSE IF Inconsistent(base) \/ Inconsistent(cand)
                       THEN {"controls within a case"}
                       ELSE IF ~ same THEN {"controls"} ELSE {}
<1>1. RunReasons(base, cand) = incomplete \cup cases \cup unknown \cup machine \cup controls
  BY DEF RunReasons
<1>2. incomplete = {} <=> base.status = "complete" /\ cand.status = "complete"
  OBVIOUS
<1>3. cases = {} <=> DOMAIN base.rows = DOMAIN cand.rows
  OBVIOUS
<1>4. unknown = {} /\ machine = {} <=> base.machine = cand.machine /\ cand.machine # "unknown"
  OBVIOUS
<1> HIDE DEF same, incomplete, cases, unknown, machine
<1>5. controls = {} <=> \/ base.status # "complete" \/ cand.status # "complete"
                        \/ ~ Inconsistent(base) /\ ~ Inconsistent(cand) /\ same
  OBVIOUS
<1> HIDE DEF controls
<1>6. RunReasons(base, cand) = {}
        <=> incomplete = {} /\ cases = {} /\ unknown = {} /\ machine = {} /\ controls = {}
  BY <1>1
<1>7. QED BY <1>2, <1>3, <1>4, <1>5, <1>6 DEF same

\* There is no reason not to compare a case.
LEMMA NoCaseReasons ==
  ASSUME NEW base, NEW cand, NEW policy,
         base.stability \in {"insufficient", "unstable", "stable"},
         cand.stability \in {"insufficient", "unstable", "stable"}
  PROVE  CaseReasons(base, cand, policy) = {}
           <=> /\ base.stability = "stable" /\ cand.stability = "stable"
               /\ policy.equalCounts => base.replicates = cand.replicates
               /\ base.median # 0 /\ cand.median # 0
<1> DEFINE stability == {reason \in {"insufficient", "unstable"} :
                           reason \in {base.stability, cand.stability}}
           counts == IF policy.equalCounts /\ base.replicates # cand.replicates
                     THEN {"counts"} ELSE {}
           median == IF 0 \in {base.median, cand.median} THEN {"no median"} ELSE {}
<1>1. CaseReasons(base, cand, policy) = stability \cup counts \cup median
  BY DEF CaseReasons
<1>2. stability = {} <=> base.stability = "stable" /\ cand.stability = "stable"
  OBVIOUS
<1>3. counts = {} <=> (policy.equalCounts => base.replicates = cand.replicates)
  OBVIOUS
<1>4. median = {} <=> base.median # 0 /\ cand.median # 0
  OBVIOUS
<1> HIDE DEF stability, counts, median
<1>5. CaseReasons(base, cand, policy) = {} <=> stability = {} /\ counts = {} /\ median = {}
  BY <1>1
<1>6. QED BY <1>2, <1>3, <1>4, <1>5

\* The reasons that the runs give: there is none if and only if the comparison of
\* the runs and of their controls is fair.
LEMMA RunsCompared ==
  ASSUME NEW base \in Baselines, NEW given \in Seq(Responses), NEW b, NEW c,
         Describes(b, base.config, base.answers, base.machine), Describes(c, Config, given, "here")
  PROVE  RunReasons(b, c) = {}
           <=> /\ FairRuns(base, given)
               /\ \A case \in Cases(Config) : FairControls(base, given, case)
<1>1. /\ base.config.caseOf \in Seq(Nat) /\ base.answers \in Seq(Responses)
      /\ Config.caseOf \in Seq(Nat)
  BY BaselineFacts, BenchmarkAssumption DEF BenchmarkAssumption
<1>2. /\ b.status = "complete" <=> MeasuredAll(base.config, base.answers)
      /\ c.status = "complete" <=> MeasuredAll(Config, given)
  BY <1>1, CompleteMeasuredAll DEF Describes, MeasuredAll
<1>3. ASSUME NEW config, NEW answered \in Seq(Responses), config.caseOf \in Seq(Nat),
             MeasuredAll(config, answered)
      PROVE  CasesAnswered(config, answered) = Cases(config)
  <2>1. DOMAIN answered = DOMAIN config.caseOf
    <3>1. DOMAIN answered = 1 .. Len(answered) /\ DOMAIN config.caseOf = 1 .. Len(config.caseOf)
      BY <1>3
    <3>2. QED BY <1>3, <3>1 DEF MeasuredAll
  <2>2. QED BY <2>1, CasesOfRecords
<1>4. /\ MeasuredAll(base.config, base.answers) => DOMAIN b.rows = Cases(base.config)
      /\ MeasuredAll(Config, given) => DOMAIN c.rows = Cases(Config)
  BY <1>1, <1>3 DEF Describes
<1>5. ASSUME NEW case
      PROVE  /\ ControlsOfCase(b, case) = ControlsMeasured(base.config, base.answers, case)
             /\ ControlsOfCase(c, case) = ControlsMeasured(Config, given, case)
  BY CaseOfRecords DEF ControlsOfCase, Describes
<1>6. b.machine = c.machine /\ c.machine # "unknown" <=> base.machine = "here"
  BY DEF Describes
<1>7. CASE ~ FairRuns(base, given)
  <2>1. ~ /\ b.status = "complete" /\ c.status = "complete"
          /\ DOMAIN b.rows = DOMAIN c.rows /\ b.machine = c.machine /\ c.machine # "unknown"
    BY <1>2, <1>4, <1>6, <1>7 DEF FairRuns
  <2>2. RunReasons(b, c) # {}
    BY <2>1, NoRunReasons
  <2>3. QED BY <1>7, <2>2
<1>8. CASE FairRuns(base, given)
  <2>1. /\ b.status = "complete" /\ c.status = "complete"
        /\ DOMAIN b.rows = Cases(Config) /\ DOMAIN c.rows = Cases(Config)
        /\ b.machine = c.machine /\ c.machine # "unknown"
    BY <1>2, <1>4, <1>6, <1>8 DEF FairRuns
  <2>2. RunReasons(b, c) = {}
          <=> /\ ~ Inconsistent(b) /\ ~ Inconsistent(c)
              /\ \A case \in Cases(Config) : ControlsOfCase(b, case) = ControlsOfCase(c, case)
    BY <2>1, NoRunReasons
  <2>3. /\ Inconsistent(b) <=> \E case \in Cases(Config) : Cardinality(ControlsOfCase(b, case)) # 1
        /\ Inconsistent(c) <=> \E case \in Cases(Config) : Cardinality(ControlsOfCase(c, case)) # 1
    BY <2>1 DEF Inconsistent
  <2>4. RunReasons(b, c) = {}
          <=> \A case \in Cases(Config) :
                /\ ControlsOfCase(b, case) = ControlsOfCase(c, case)
                /\ Cardinality(ControlsOfCase(c, case)) = 1
    BY <2>2, <2>3
  <2>5. QED BY <1>5, <1>8, <2>4 DEF FairControls
<1>9. QED BY <1>7, <1>8

\* The rows of a case of two fair runs: there is no reason not to compare them if and
\* only if their times are fair, and their medians are those in the middle.
LEMMA CaseCompared ==
  ASSUME NEW base \in Baselines, NEW given \in Seq(Responses), NEW policy \in Policies,
         NEW b, NEW c, FairRuns(base, given), NEW case \in Cases(Config),
         Describes(b, base.config, base.answers, base.machine), Describes(c, Config, given, "here")
  PROVE  /\ DOMAIN UnderPolicy(b, policy) = Cases(Config)
         /\ DOMAIN UnderPolicy(c, policy) = Cases(Config)
         /\ CaseReasons(UnderPolicy(b, policy)[case], UnderPolicy(c, policy)[case], policy) = {}
              <=> FairTimes(base, given, policy, case)
         /\ UnderPolicy(b, policy)[case].median
              = TwiceMiddle(TimesOf(base.config.caseOf, base.answers, case))
         /\ UnderPolicy(c, policy)[case].median = TwiceMiddle(TimesOf(Config.caseOf, given, case))
<1>1. policy.minimum \in Nat /\ policy.percent \in Nat
  BY ComparisonAssumption DEF ComparisonAssumption
<1>2. ASSUME NEW config, NEW answered \in Seq(Responses), config.caseOf \in Seq(Nat),
             MeasuredAll(config, answered), NEW p, NEW machine,
             Describes(p, config, answered, machine), Cases(config) = Cases(Config)
      PROVE  /\ DOMAIN UnderPolicy(p, policy) = Cases(Config)
             /\ UnderPolicy(p, policy)[case]
                  = Summary(OfCase(config, RecordsOf(answered), case), policy.minimum, policy.percent)
  <2>1. DOMAIN answered = DOMAIN config.caseOf
    <3>1. DOMAIN answered = 1 .. Len(answered) /\ DOMAIN config.caseOf = 1 .. Len(config.caseOf)
      BY <1>2
    <3>2. QED BY <1>2, <3>1 DEF MeasuredAll
  <2>2. CasesOf(config, RecordsOf(answered)) = Cases(Config)
    BY <1>2, <2>1, CasesOfRecords
  <2>3. UnderPolicy(p, policy)
          = Summaries(config, RecordsOf(answered), policy.minimum, policy.percent)
    BY <1>2 DEF UnderPolicy, Describes
  <2>4. QED BY <2>2, <2>3 DEF Summaries
<1> DEFINE config == base.config
           answered == base.answers
           rb == Summary(OfCase(config, RecordsOf(answered), case), policy.minimum, policy.percent)
           rc == Summary(OfCase(Config, RecordsOf(given), case), policy.minimum, policy.percent)
           tb == TimesOf(config.caseOf, answered, case)
           tc == TimesOf(Config.caseOf, given, case)
<1>3. /\ config.caseOf \in Seq(Nat) /\ answered \in Seq(Responses)
      /\ Config.caseOf \in Seq(Nat)
  BY BaselineFacts, BenchmarkAssumption DEF BenchmarkAssumption
<1>4. MeasuredAll(config, answered) /\ MeasuredAll(Config, given) /\ Cases(config) = Cases(Config)
  BY DEF FairRuns
<1>5. /\ DOMAIN UnderPolicy(b, policy) = Cases(Config) /\ UnderPolicy(b, policy)[case] = rb
      /\ DOMAIN UnderPolicy(c, policy) = Cases(Config) /\ UnderPolicy(c, policy)[case] = rc
  BY <1>2, <1>3, <1>4
<1>6. IsRowOf(rb, tb, policy.minimum, policy.percent)
  <2>1. case \in Cases(config)
    BY <1>4
  <2> HIDE DEF config, answered
  <2>2. QED BY <1>1, <1>3, <1>4, <2>1, SummaryOfMeasured DEF MeasuredAll
<1>7. IsRowOf(rc, tc, policy.minimum, policy.percent)
  BY <1>1, <1>3, <1>4, SummaryOfMeasured DEF MeasuredAll
<1> HIDE DEF rb, rc, tb, tc
<1>8. CaseReasons(rb, rc, policy) = {}
        <=> /\ rb.stability = "stable" /\ rc.stability = "stable"
            /\ policy.equalCounts => rb.replicates = rc.replicates
            /\ rb.median # 0 /\ rc.median # 0
  BY <1>6, <1>7, NoCaseReasons DEF IsRowOf
<1>9. CaseReasons(rb, rc, policy) = {} <=> FairTimes(base, given, policy, case)
  BY <1>6, <1>7, <1>8 DEF FairTimes, IsRowOf, tb, tc
<1>10. QED BY <1>5, <1>6, <1>7, <1>9 DEF IsRowOf, tb, tc

\* compare_runs(): the verdict is the one by the design, for every two runs and every
\* policy.
LEMMA VerdictByDesign ==
  ASSUME NEW base \in Baselines, NEW given \in Seq(Responses), NEW policy \in Policies,
         NEW b, NEW c,
         Describes(b, base.config, base.answers, base.machine), Describes(c, Config, given, "here")
  PROVE  Comparison(b, c, policy).verdict =
           IF ~ Fair(base, given, policy) THEN "not comparable"
           ELSE IF \E case \in Cases(Config) : Slower(base, given, case, policy.threshold)
           THEN "fail" ELSE "pass"
<1> DEFINE ub == UnderPolicy(b, policy)
           uc == UnderPolicy(c, policy)
           aligned == DOMAIN ub \cap DOMAIN uc
           reasons == RunReasons(b, c)
                        \cup UNION {CaseReasons(ub[case], uc[case], policy) : case \in aligned}
           regressed == \E case \in aligned :
                          Regressed(ub[case].median, uc[case].median, policy.threshold)
           slower == \E case \in Cases(Config) : Slower(base, given, case, policy.threshold)
<1>1. Comparison(b, c, policy).verdict =
        IF reasons # {} THEN "not comparable" ELSE IF regressed THEN "fail" ELSE "pass"
  BY DEF Comparison
<1>2. reasons = {}
        <=> /\ RunReasons(b, c) = {}
            /\ \A case \in aligned : CaseReasons(ub[case], uc[case], policy) = {}
  <2> HIDE DEF aligned, ub, uc
  <2>1. QED OBVIOUS
<1>3. RunReasons(b, c) = {}
        <=> /\ FairRuns(base, given)
            /\ \A case \in Cases(Config) : FairControls(base, given, case)
  BY RunsCompared
<1>4. ASSUME FairRuns(base, given), NEW case \in Cases(Config)
      PROVE  /\ DOMAIN ub = Cases(Config) /\ DOMAIN uc = Cases(Config)
             /\ CaseReasons(ub[case], uc[case], policy) = {}
                  <=> FairTimes(base, given, policy, case)
             /\ Regressed(ub[case].median, uc[case].median, policy.threshold)
                  <=> Slower(base, given, case, policy.threshold)
  <2>1. /\ DOMAIN ub = Cases(Config) /\ DOMAIN uc = Cases(Config)
        /\ CaseReasons(ub[case], uc[case], policy) = {} <=> FairTimes(base, given, policy, case)
        /\ ub[case].median = TwiceMiddle(TimesOf(base.config.caseOf, base.answers, case))
        /\ uc[case].median = TwiceMiddle(TimesOf(Config.caseOf, given, case))
    BY <1>4, CaseCompared
  <2> HIDE DEF ub, uc
  <2>2. QED BY <2>1 DEF Regressed, Slower
<1>5. Cases(Config) # {}
  <2>1. Config.caseOf \in Seq(Nat) /\ Len(Config.caseOf) > 0
    BY BenchmarkAssumption DEF BenchmarkAssumption, NTasks
  <2>2. 1 \in DOMAIN Config.caseOf
    BY <2>1
  <2>3. QED BY <2>2 DEF Cases
<1>6. ASSUME FairRuns(base, given) PROVE aligned = Cases(Config)
  BY <1>4, <1>5, <1>6
<1>7. Fair(base, given, policy)
        <=> /\ FairRuns(base, given)
            /\ \A case \in Cases(Config) :
                 FairControls(base, given, case) /\ FairTimes(base, given, policy, case)
  BY FairByParts
<1> HIDE DEF ub, uc, aligned, reasons
<1>8. reasons = {} <=> Fair(base, given, policy)
  BY <1>2, <1>3, <1>4, <1>6, <1>7
<1>9. ASSUME Fair(base, given, policy) PROVE regressed <=> slower
  BY <1>4, <1>6, <1>7, <1>9
<1> HIDE DEF regressed, slower
<1>10. QED BY <1>1, <1>8, <1>9 DEF slower

-----------------------------------------------------------------------------
(* The documents of a run.                                                 *)

\* The artifacts that are written at a place, but for the raw file.
Done(spot) ==
  CASE spot = "config" -> {"environment"}
    [] spot \in {"raw", "summary.csv"} -> {"environment", "config"}
    [] spot = "summary.md" -> {"environment", "config", "summary.csv"}
    [] spot = "order" -> {"environment", "config", "summary.csv", "summary.md"}
    [] spot = "manifest" -> Artifacts \ {"raw"}
    [] OTHER -> {}

\* What an artifact says in the end.
Final(name) == Content(Config, name, FinalStatus(Config, run.records), run.records)

\* The artifacts that are written say what they should: all of them, if there is a
\* manifest.
DocumentsTrue ==
  /\ DOMAIN documents = Artifacts \ {"raw"}
  /\ \A name \in Done(run.at) : documents[name] = Final(name)
  /\ manifest # NoFile =>
       /\ manifest.expected = NTasks
       /\ \A name \in Artifacts \ {"raw"} : documents[name] = Final(name)

\* Where nothing is written yet.
LEMMA NothingDone ==
  ASSUME NEW spot, spot \notin {"config", "raw", "summary.csv", "summary.md", "order", "manifest"}
  PROVE  Done(spot) = {}
BY DEF Done

\* A run begins without documents.
LEMMA DocumentsBegin == BenchmarkInit => DocumentsTrue
<1> SUFFICES ASSUME BenchmarkInit PROVE DocumentsTrue
  OBVIOUS
<1>1. Done(run.at) = {}
  BY NothingDone DEF BenchmarkInit
<1>2. DOMAIN documents = Artifacts \ {"raw"} /\ manifest = NoFile
  BY DEF BenchmarkInit
<1>3. QED BY <1>1, <1>2 DEF DocumentsTrue

\* The documents stay true where nothing is written and they are all that is read of
\* the records.
LEMMA DocumentsStay ==
  ASSUME DocumentsTrue, documents' = documents, manifest' = manifest, Done(run'.at) = {},
         run'.records = run.records \/ manifest = NoFile
  PROVE  DocumentsTrue'
<1>1. CASE manifest = NoFile
  <2>1. manifest' = NoFile
    BY <1>1
  <2>2. DOMAIN documents' = Artifacts \ {"raw"}
    BY DEF DocumentsTrue
  <2>3. QED BY <2>1, <2>2 DEF DocumentsTrue
<1>2. CASE manifest # NoFile
  <2>1. run'.records = run.records
    BY <1>2
  <2>2. \A name : Final(name)' = Final(name)
    BY <2>1 DEF Final
  <2>3. QED BY <1>2, <2>2 DEF DocumentsTrue
<1>3. QED BY <1>1, <1>2

\* One artifact more.
LEMMA WriteArtifactDocuments ==
  ASSUME BenchmarkInv, DocumentsTrue, WriteArtifact
  PROVE  DocumentsTrue'
<1>1. /\ run.at \in Artifacts /\ RunTo(Following(run.at)) /\ manifest' = manifest
      /\ run.at = "raw" => documents' = documents
      /\ run.at # "raw" =>
           documents' = [documents EXCEPT ![run.at] =
                           Content(Config, run.at, run.status, run.records)]
  BY DEF WriteArtifact, RunAt
<1>2. run.at \in Closing /\ run.at \notin {"unlink", "ended"}
  BY <1>1 DEF Artifacts, Closing, Rewritten
<1>3. run.status = FinalStatus(Config, run.records) /\ manifest = NoFile /\ RunTyped
  BY <1>2, NoManifestYet DEF BenchmarkInv
<1>4. Following(run.at) \in Places
  BY <1>1, FollowingFacts DEF Artifacts, Places, Closing, Rewritten
<1>5. run'.at = Following(run.at) /\ run'.records = run.records
  BY <1>1, <1>3, <1>4, RunMoves
<1>6. \A name : Final(name)' = Final(name)
  BY <1>5 DEF Final
<1>7. DOMAIN documents = Artifacts \ {"raw"}
  BY DEF DocumentsTrue
<1>8. DOMAIN documents' = Artifacts \ {"raw"}
  BY <1>1, <1>7
<1>9. \A name \in DOMAIN documents :
        name # run.at => documents'[name] = documents[name]
  BY <1>1
<1>10. run.at # "raw" => documents'[run.at] = Final(run.at)
  BY <1>1, <1>3, <1>7 DEF Final
<1>11. Done(Following(run.at)) \subseteq (Done(run.at) \cup {run.at}) \ {"raw"}
  BY <1>1, FollowingFacts DEF Artifacts, Done
<1>12. Done(run.at) \subseteq Artifacts \ {"raw"}
  BY DEF Done, Artifacts
<1>13. ASSUME NEW name \in Done(run'.at) PROVE documents'[name] = Final(name)'
  <2>1. CASE name = run.at
    BY <1>5, <1>6, <1>10, <1>11, <2>1
  <2>2. CASE name # run.at
    <3>1. name \in Done(run.at) /\ name \in DOMAIN documents
      BY <1>5, <1>7, <1>11, <1>12, <2>2
    <3>2. documents[name] = Final(name)
      BY <3>1 DEF DocumentsTrue
    <3>3. QED BY <1>6, <1>9, <2>2, <3>1, <3>2
  <2>3. QED BY <2>1, <2>2
<1>14. QED BY <1>1, <1>3, <1>8, <1>13 DEF DocumentsTrue

\* Every step of a run keeps its documents true.
LEMMA DocumentsStep ==
  BenchmarkInv /\ BenchmarkInv' /\ DocumentsTrue /\ [BenchmarkNext]_benchmarkVars => DocumentsTrue'
<1> SUFFICES ASSUME BenchmarkInv, BenchmarkInv', DocumentsTrue, [BenchmarkNext]_benchmarkVars
             PROVE  DocumentsTrue'
  OBVIOUS
<1>1. RunTyped /\ RunTyped'
  BY DEF BenchmarkInv
<1> DEFINE Quiet == {"create state", "precondition", "execute", "append", "rollback", "remember",
                     "except", "except close", "close", "state", "environment", "ended"}
<1>2. \A spot \in Quiet : Done(spot) = {} /\ spot \in Places
  <2>1. ASSUME NEW spot \in Quiet PROVE Done(spot) = {} /\ spot \in Places
    BY NothingDone DEF Places, Closing
  <2>2. QED BY <2>1
<1>3. ASSUME NEW spot \in Quiet, RunTo(spot), documents' = documents, manifest' = manifest
      PROVE  DocumentsTrue'
  <2>1. run'.at = spot /\ run'.records = run.records
    BY <1>1, <1>2, <1>3, RunMoves
  <2>2. QED BY <1>2, <1>3, <2>1, DocumentsStay
<1>4. ASSUME run'.at \in Quiet, documents' = documents, manifest' = manifest,
             run.at \notin {"unlink", "ended"}
      PROVE  DocumentsTrue'
  <2>1. manifest = NoFile
    BY <1>4, NoManifestYet
  <2>2. QED BY <1>2, <1>4, <2>1, DocumentsStay
<1>5. CASE CreateOrder
  <2>1. /\ run.at = "create order" /\ RunTo("create state") /\ manifest' = manifest
        /\ documents' = [documents EXCEPT !["order"] = Content(Config, "order", "running", <<>>)]
    BY <1>5 DEF CreateOrder, RunAt
  <2>2. run'.at = "create state"
    BY <1>1, <1>2, <2>1, RunMoves
  <2>3. manifest = NoFile /\ DOMAIN documents' = DOMAIN documents
    BY <2>1, NoManifestYet
  <2>4. QED BY <1>2, <2>1, <2>2, <2>3 DEF DocumentsTrue
<1>6. CASE CreateState
  BY <1>3, <1>6 DEF CreateState
<1>7. CASE Precondition
  <2>1. PICK status : run' = [run EXCEPT !.preconditioning = status,
                                         !.at = IF status = "failed" THEN "close" ELSE "execute"]
    BY <1>7 DEF Precondition
  <2>2. run'.at \in {"close", "execute"}
    BY <1>1, <2>1 DEF RunTyped, RunStates
  <2>3. QED BY <1>4, <1>7, <2>2 DEF Precondition, RunAt
<1>8. CASE ExecuteWorker
  <2>1. PICK response : run' = [run EXCEPT !.record = Record(Len(run.records) + 1, response),
                                           !.at = "append"]
    BY <1>8 DEF ExecuteWorker
  <2>2. run'.at = "append"
    BY <1>1, <2>1 DEF RunTyped, RunStates
  <2>3. QED BY <1>4, <1>8, <2>2 DEF ExecuteWorker, RunAt
<1>9. CASE AllExecuted
  BY <1>3, <1>9 DEF AllExecuted
<1>10. CASE AppendDurable
  BY <1>3, <1>10 DEF AppendDurable
<1>11. CASE AppendFails
  BY <1>3, <1>11 DEF AppendFails
<1>12. CASE Rollback
  BY <1>3, <1>12 DEF Rollback
<1>13. CASE Remember
  <2>1. run'.at = "execute"
    BY <1>1, <1>13 DEF Remember, RunTyped, RunStates
  <2>2. QED BY <1>4, <1>13, <2>1 DEF Remember, RunAt
<1>14. CASE Interrupt
  BY <1>3, <1>14 DEF Interrupt
<1>15. CASE StateAfterException
  <2>1. run'.at = "except close"
    BY <1>1, <1>15 DEF StateAfterException, RunTyped, RunStates
  <2>2. QED BY <1>4, <1>15, <2>1 DEF StateAfterException, RunAt
<1>16. CASE CloseAfterException
  BY <1>3, <1>16 DEF CloseAfterException
<1>17. CASE Close
  BY <1>3, <1>17 DEF Close
<1>18. CASE FinalState
  <2>1. run'.at = "environment"
    BY <1>1, <1>18 DEF FinalState, RunTyped, RunStates
  <2>2. QED BY <1>4, <1>18, <2>1 DEF FinalState, RunAt
<1>19. CASE WriteArtifact
  BY <1>19, WriteArtifactDocuments
<1>20. CASE WriteManifest
  <2>1. /\ run.at = "manifest" /\ RunTo("unlink") /\ documents' = documents
        /\ manifest' = Manifest(Config, run.status, run.records, run.preconditioning,
                                [name \in Artifacts |-> Bytes(name)])
    BY <1>20 DEF WriteManifest, RunAt
  <2>2. "unlink" \in Places /\ Done("unlink") = {}
    BY NothingDone DEF Places, Closing
  <2>3. run'.at = "unlink" /\ run'.records = run.records
    BY <1>1, <2>1, <2>2, RunMoves
  <2>4. \A name : Final(name)' = Final(name)
    BY <2>3 DEF Final
  <2>5. manifest'.expected = NTasks
    BY <2>1 DEF Manifest, NTasks
  <2>6. Done(run.at) = Artifacts \ {"raw"}
    BY <2>1 DEF Done
  <2>7. QED BY <2>1, <2>2, <2>3, <2>4, <2>5, <2>6 DEF DocumentsTrue
<1>21. CASE UnlinkState
  BY <1>3, <1>21 DEF UnlinkState
<1>22. CASE Raise
  BY <1>3, <1>22 DEF Raise
<1>23. CASE KillRun
  BY <1>3, <1>23 DEF KillRun
<1>24. CASE UNCHANGED benchmarkVars
  BY <1>24 DEF benchmarkVars, DocumentsTrue, Final
<1>25. QED BY <1>5, <1>6, <1>7, <1>8, <1>9, <1>10, <1>11, <1>12, <1>13, <1>14, <1>15, <1>16,
          <1>17, <1>18, <1>19, <1>20, <1>21, <1>22, <1>23, <1>24 DEF BenchmarkNext

\* What is read of a run that loads, by the answers of its workers.
IsInput(p, given) ==
  /\ Describes(p, Config, given, "here")
  /\ p.expected = NTasks /\ p.completed = Len(given)
  /\ p.successful = Count(RecordsOf(given), "ok") /\ p.failed = Count(RecordsOf(given), "error")
  /\ p.rows = Summaries(Config, RecordsOf(given), Config.minimum, Config.percent)
  /\ p.entries = Entries(Config, RecordsOf(given)) /\ p.workers = Controls(RecordsOf(given))

\* A line is refused if and only if the exit of its worker contradicts its response.
LEMMA LineAccepted ==
  ASSUME NEW task, NEW response \in Responses
  PROVE  RecordAccepted(Record(task, response)) <=> ~ Contradicts(response)
<1>1. /\ Record(task, response).response = response
      /\ Record(task, response).status
           = IF response.kind = "ok" /\ response.code = 0 THEN "ok" ELSE "error"
  BY DEF Record
<1>2. CASE response = [kind |-> "none"]
  BY <1>1, <1>2 DEF RecordAccepted, FailureAccepted, SuccessAccepted, Contradicts
<1>3. CASE response \in [kind : {"error"}, code : {0, 1}]
  <2>1. response.kind = "error" /\ response.code \in {0, 1}
    BY <1>3
  <2>2. QED BY <1>1, <2>1 DEF RecordAccepted, FailureAccepted, SuccessAccepted, Contradicts
<1>4. CASE response.kind = "ok" /\ response.code \in {0, 1}
  BY <1>1, <1>4 DEF RecordAccepted, FailureAccepted, SuccessAccepted, Contradicts
<1>5. \/ response = [kind |-> "none"]
      \/ response \in [kind : {"error"}, code : {0, 1}]
      \/ response.kind = "ok" /\ response.code \in {0, 1}
  BY DEF Responses
<1>6. QED BY <1>2, <1>3, <1>4, <1>5

\* The tasks of the records are those of the answers, each once.
LEMMA TasksOfRecords ==
  ASSUME NEW given \in Seq(Responses)
  PROVE  /\ TasksOf(RecordsOf(given)) = 1 .. Len(given)
         /\ Cardinality(TasksOf(RecordsOf(given))) = Len(RecordsOf(given))
<1>1. /\ DOMAIN RecordsOf(given) = 1 .. Len(given) /\ Len(RecordsOf(given)) = Len(given)
      /\ Len(given) \in Nat
      /\ \A i \in 1 .. Len(given) : RecordsOf(given)[i] = Record(i, given[i])
  BY RecordsAreLines
<1>2. \A i \in 1 .. Len(given) : RecordsOf(given)[i].task = i
  BY <1>1, RecordFacts
<1>3. TasksOf(RecordsOf(given)) = 1 .. Len(given)
  BY <1>1, <1>2 DEF TasksOf
<1>4. Cardinality(1 .. Len(given)) = Len(given)
  BY <1>1, FirstNumbers
<1>5. QED BY <1>1, <1>3, <1>4

\* The execution order has the status of each record, and says what is pending.
LEMMA EntriesOfRecords ==
  ASSUME NEW given \in Seq(Responses), Len(given) <= NTasks, NEW p, IsInput(p, given)
  PROVE  OrderAccepted(p)
<1> DEFINE records == RecordsOf(given)
           entry(task) == IF \E i \in DOMAIN records : records[i].task = task
                          THEN (CHOOSE record \in {records[i] : i \in DOMAIN records} :
                                  record.task = task).status
                          ELSE "pending"
<1>1. p.lines = records /\ p.config = Config /\ p.entries = Entries(Config, records)
  BY DEF IsInput, Describes
<1>2. /\ DOMAIN records = 1 .. Len(given) /\ Len(given) \in Nat
      /\ \A i \in 1 .. Len(given) : records[i] = Record(i, given[i])
  BY RecordsAreLines
<1> HIDE DEF records
<1>3. \A i \in DOMAIN records : records[i].task = i
  BY <1>2, RecordFacts
<1>4. p.entries = [task \in DOMAIN Config.caseOf |-> entry(task)]
  BY <1>1 DEF Entries
<1>5. DOMAIN records \subseteq DOMAIN Config.caseOf
  <2>1. DOMAIN Config.caseOf = 1 .. NTasks /\ NTasks \in Nat
    BY BenchmarkAssumption DEF BenchmarkAssumption, NTasks
  <2>2. QED BY <1>2, <2>1
<1>6. ASSUME NEW i \in DOMAIN records PROVE entry(i) = records[i].status
  <2>1. \E j \in DOMAIN records : records[j].task = i
    BY <1>3
  <2>2. (CHOOSE record \in {records[j] : j \in DOMAIN records} : record.task = i) = records[i]
    <3> DEFINE found == CHOOSE record \in {records[j] : j \in DOMAIN records} : record.task = i
    <3>1. found \in {records[j] : j \in DOMAIN records} /\ found.task = i
      BY <2>1
    <3> HIDE DEF found
    <3>2. PICK j \in DOMAIN records : found = records[j]
      BY <3>1
    <3>3. j = i
      BY <1>3, <3>1, <3>2
    <3>4. QED BY <3>2, <3>3 DEF found
  <2>3. QED BY <2>1, <2>2
<1>7. TasksOf(p.lines) = DOMAIN records
  BY <1>1, <1>3 DEF TasksOf
<1>8. ASSUME NEW task, task \notin DOMAIN records PROVE entry(task) = "pending"
  BY <1>3, <1>8
<1> HIDE DEF entry
<1>9. DOMAIN p.entries = DOMAIN Config.caseOf
  BY <1>4
<1>10. \A task \in DOMAIN p.entries \ TasksOf(p.lines) : p.entries[task] = "pending"
  BY <1>4, <1>7, <1>8
<1>11. \A i \in DOMAIN p.lines : p.entries[p.lines[i].task] = p.lines[i].status
  BY <1>1, <1>3, <1>4, <1>5, <1>6
<1>12. QED BY <1>1, <1>9, <1>10, <1>11 DEF OrderAccepted

\* _load_input(): a run that loads is refused only for a worker whose exit contradicts
\* its response.
LEMMA InputByDesign ==
  ASSUME NEW given \in Seq(Responses), Len(given) <= NTasks, NEW p, IsInput(p, given)
  PROVE  InputAccepted(p) <=> \A task \in DOMAIN given : ~ Contradicts(given[task])
<1> DEFINE records == RecordsOf(given)
<1>1. /\ p.lines = records /\ p.config = Config /\ p.status = FinalStatus(Config, records)
      /\ p.expected = NTasks /\ p.completed = Len(given)
      /\ p.successful = Count(records, "ok") /\ p.failed = Count(records, "error")
      /\ p.rows = Summaries(Config, records, Config.minimum, Config.percent)
      /\ p.workers = Controls(records)
      /\ DOMAIN p.rows = CasesAnswered(Config, given)
  BY DEF IsInput, Describes
<1>2. /\ records \in Seq(RawLines) /\ Len(records) = Len(given) /\ Len(given) \in Nat
      /\ DOMAIN records = 1 .. Len(given) /\ DOMAIN given = 1 .. Len(given)
      /\ \A i \in 1 .. Len(given) : records[i] = Record(i, given[i])
  BY RecordsAreLines
<1>3. TasksOf(records) = 1 .. Len(given) /\ Cardinality(TasksOf(records)) = Len(records)
  BY TasksOfRecords
<1>4. /\ Config.caseOf \in Seq(Nat) /\ Len(Config.caseOf) = NTasks /\ NTasks \in Nat
      /\ DOMAIN Config.caseOf = 1 .. NTasks
  BY BenchmarkAssumption DEF BenchmarkAssumption, NTasks
<1>5. ASSUME p.status = "complete"
      PROVE  /\ Count(records, "error") = 0 /\ Len(given) = NTasks
             /\ CasesAnswered(Config, given) = Cases(Config)
  <2>1. /\ Len(given) = Len(Config.caseOf)
        /\ \A task \in 1 .. Len(given) : Measured(given[task])
    BY <1>1, <1>4, <1>5, CompleteMeasuredAll
  <2> HIDE DEF records
  <2>2. {i \in DOMAIN records : records[i].status = "error"} = {}
    <3>1. \A i \in 1 .. Len(given) : records[i].status = "ok"
      BY <1>2, <2>1, RecordFacts
    <3>2. QED BY <1>2, <3>1
  <2>3. Count(records, "error") = 0
    BY <2>2, FS_EmptySet DEF Count
  <2>4. DOMAIN given = DOMAIN Config.caseOf
    BY <1>2, <1>4, <2>1
  <2>5. QED BY <1>4, <2>1, <2>3, <2>4, CasesOfRecords
<1>6. (\A i \in DOMAIN p.lines : RecordAccepted(p.lines[i]))
        <=> \A task \in DOMAIN given : ~ Contradicts(given[task])
  <2>1. ASSUME NEW i \in 1 .. Len(given)
        PROVE  RecordAccepted(records[i]) <=> ~ Contradicts(given[i])
    <3>1. given[i] \in Responses
      BY <1>2
    <3>2. QED BY <1>2, <3>1, LineAccepted
  <2> HIDE DEF records
  <2>2. QED BY <1>1, <1>2, <2>1
<1> HIDE DEF records
<1>7. RecordsAccepted(p) <=> \A task \in DOMAIN given : ~ Contradicts(given[task])
  <2>1. 1 .. Len(given) \subseteq DOMAIN Config.caseOf
    BY <1>2, <1>4
  <2>2. p.status = "complete" => p.failed = 0 /\ TasksOf(p.lines) = DOMAIN Config.caseOf
    BY <1>1, <1>3, <1>4, <1>5
  <2>3. QED BY <1>1, <1>2, <1>3, <1>4, <1>6, <2>1, <2>2 DEF RecordsAccepted
<1>8. SummariesAccepted(p)
  BY <1>1, <1>5 DEF SummariesAccepted
<1>9. OrderAccepted(p)
  BY EntriesOfRecords
<1>10. WorkersAccepted(p)
  BY <1>1 DEF WorkersAccepted
<1>11. QED BY <1>7, <1>8, <1>9, <1>10 DEF InputAccepted

\* A baseline is described by its answers.
LEMMA FinishedDescribed ==
  ASSUME NEW base \in Baselines
  PROVE  Describes(Finished(base), base.config, base.answers, base.machine)
<1> DEFINE records == RecordsOf(base.answers)
           status == FinalStatus(base.config, records)
           docs == [name \in Artifacts \ {"raw"} |-> Content(base.config, name, status, records)]
           bound == Manifest(base.config, status, records, "complete", "bytes")
<1>1. Finished(base) = [Read(bound, records, docs) EXCEPT !.machine = base.machine]
  BY DEF Finished, RecordsOf
<1>2. bound.status = status
  BY DEF Manifest
<1>3. /\ docs["config"].config = base.config
      /\ docs["summary.csv"].rows
           = Summaries(base.config, records, base.config.minimum, base.config.percent)
  <2>1. "config" \in Artifacts \ {"raw"} /\ "summary.csv" \in Artifacts \ {"raw"}
    BY DEF Artifacts
  <2>2. /\ docs["config"] = Content(base.config, "config", status, records)
        /\ docs["summary.csv"] = Content(base.config, "summary.csv", status, records)
    BY <2>1
  <2> HIDE DEF docs, status, records
  <2>3. QED BY <2>2 DEF Content
<1> HIDE DEF records, status, docs, bound
<1>4. /\ Finished(base).status = bound.status /\ Finished(base).lines = records
      /\ Finished(base).config = docs["config"].config
      /\ Finished(base).rows = docs["summary.csv"].rows
      /\ Finished(base).machine = base.machine
  BY <1>1 DEF Read
<1>5. DOMAIN Finished(base).rows = CasesAnswered(base.config, base.answers)
  BY <1>3, <1>4, CasesOfRecords DEF Summaries, records
<1>6. QED BY <1>2, <1>3, <1>4, <1>5 DEF Describes, records, status

\* A run that loads is described by the answers whose records it has.
LEMMA LoadedIsInput ==
  ASSUME BenchmarkInv, DocumentsTrue, Loads,
         NEW given, given = [task \in DOMAIN raw.lines |-> answers[task]]
  PROVE  given \in Seq(Responses) /\ Len(given) <= NTasks /\ IsInput(Candidate, given)
<1>1. /\ manifest.status = FinalStatus(Config, run.records)
      /\ manifest.completed = Len(run.records)
      /\ manifest.successful = Count(run.records, "ok")
      /\ manifest.failed = Count(run.records, "error")
      /\ manifest.bound["raw"] = [lines |-> run.records, tail |-> "none"]
  BY DEF BenchmarkInv, ManifestTrue, Loads
<1>2. raw.lines = run.records
  BY <1>1 DEF Loads, Artifacts, Bytes
<1>3. /\ manifest.expected = NTasks
      /\ \A name \in Artifacts \ {"raw"} : documents[name] = Final(name)
  BY DEF DocumentsTrue, Loads
<1>4. /\ RunTyped /\ RecordsTrue /\ run.records \in Seq(RawLines) /\ answers \in Seq(Responses)
      /\ Len(run.records) \in Nat /\ Len(run.records) <= NTasks
  BY RunFields DEF BenchmarkInv, RunTyped, RecordsTrue
<1>5. /\ Len(answers) \in Nat /\ Len(run.records) <= Len(answers)
      /\ DOMAIN run.records = 1 .. Len(run.records)
      /\ \A i \in 1 .. Len(run.records) : run.records[i] = Record(i, answers[i])
  <2>1. Len(answers) = Len(run.records) \/ Len(answers) = Len(run.records) + 1
    BY <1>4 DEF RecordsTrue
  <2>2. Len(answers) \in Nat
    BY <1>4
  <2>3. Len(run.records) <= Len(answers)
    BY <1>4, <2>1, <2>2
  <2>4. DOMAIN run.records = 1 .. Len(run.records)
    BY <1>4
  <2>5. \A i \in 1 .. Len(run.records) : run.records[i] = Record(i, answers[i])
    BY <1>4, <2>4 DEF RecordsTrue
  <2>6. QED BY <2>2, <2>3, <2>4, <2>5
<1> DEFINE n == Len(run.records)
<1>6. given = [task \in 1 .. n |-> answers[task]]
  BY <1>2, <1>5
<1>7. given \in Seq(Responses) /\ Len(given) = n /\ DOMAIN given = 1 .. n
  <2>1. \A i \in 1 .. n : answers[i] \in Responses
    BY <1>4, <1>5
  <2> HIDE DEF n
  <2>2. n \in Nat
    BY <1>4 DEF n
  <2>3. QED BY <1>6, <2>1, <2>2
<1>8. RecordsOf(given) = run.records
  <2>1. run.records = [i \in 1 .. n |-> run.records[i]]
    BY <1>4
  <2>2. RecordsOf(given) = [i \in 1 .. n |-> Record(i, given[i])]
    BY <1>7 DEF RecordsOf
  <2>3. \A i \in 1 .. n : run.records[i] = Record(i, given[i])
    BY <1>5, <1>6
  <2> HIDE DEF n
  <2>4. QED BY <2>1, <2>2, <2>3
<1> DEFINE records == run.records
           status == FinalStatus(Config, records)
<1>9. /\ documents["config"].config = Config
      /\ documents["summary.csv"].rows
           = Summaries(Config, records, Config.minimum, Config.percent)
      /\ documents["order"].entries = Entries(Config, records)
      /\ documents["environment"].workers = Controls(records)
      /\ documents["environment"].machine = "here"
  <2>1. {"config", "summary.csv", "order", "environment"} \subseteq Artifacts \ {"raw"}
    BY DEF Artifacts
  <2>2. /\ documents["config"] = Content(Config, "config", status, records)
        /\ documents["summary.csv"] = Content(Config, "summary.csv", status, records)
        /\ documents["order"] = Content(Config, "order", status, records)
        /\ documents["environment"] = Content(Config, "environment", status, records)
    BY <1>3, <2>1 DEF Final
  <2> HIDE DEF status, records
  <2>3. QED BY <2>2 DEF Content
<1>10. /\ Candidate.status = manifest.status /\ Candidate.expected = manifest.expected
       /\ Candidate.completed = manifest.completed /\ Candidate.successful = manifest.successful
       /\ Candidate.failed = manifest.failed /\ Candidate.lines = raw.lines
       /\ Candidate.config = documents["config"].config
       /\ Candidate.rows = documents["summary.csv"].rows
       /\ Candidate.entries = documents["order"].entries
       /\ Candidate.workers = documents["environment"].workers
       /\ Candidate.machine = documents["environment"].machine
  BY DEF Candidate, Read
<1>11. DOMAIN Candidate.rows = CasesAnswered(Config, given)
  BY <1>8, <1>9, <1>10, CasesOfRecords DEF Summaries
<1>12. Describes(Candidate, Config, given, "here")
  BY <1>1, <1>2, <1>8, <1>9, <1>10, <1>11 DEF Describes
<1>13. IsInput(Candidate, given)
  BY <1>1, <1>3, <1>7, <1>8, <1>9, <1>10, <1>12 DEF IsInput
<1>14. QED BY <1>4, <1>7, <1>13

\* What the two invariants say of a comparison.
LEMMA VerdictTrue == BenchmarkInv /\ DocumentsTrue => VerdictJustified
<1> SUFFICES ASSUME BenchmarkInv, DocumentsTrue, Loads PROVE VerdictJustified
  BY DEF VerdictJustified
<1> DEFINE given == [task \in DOMAIN raw.lines |-> answers[task]]
<1>1. given \in Seq(Responses) /\ Len(given) <= NTasks /\ IsInput(Candidate, given)
  BY LoadedIsInput
<1> HIDE DEF given
<1>2. InputAccepted(Candidate) <=> \A task \in DOMAIN given : ~ Contradicts(given[task])
  BY <1>1, InputByDesign
<1>3. ASSUME NEW base \in Baselines, NEW policy \in Policies
      PROVE  Comparison(Finished(base), Candidate, policy).verdict =
               IF ~ Fair(base, given, policy) THEN "not comparable"
               ELSE IF \E case \in Cases(Config) : Slower(base, given, case, policy.threshold)
               THEN "fail" ELSE "pass"
  <2>1. Describes(Candidate, Config, given, "here")
    BY <1>1 DEF IsInput
  <2>2. QED BY <1>1, <2>1, FinishedDescribed, VerdictByDesign
<1>4. QED BY <1>2, <1>3 DEF VerdictJustified, given

\* benchmark_v2_compare.py, for every configuration, whatever the workers answered and
\* however the run ended, for every baseline and every policy: a run that loads is
\* refused only for a worker whose exit contradicts its response; there is no
\* verdict unless both runs measured everything in the same way, and then it is
\* "fail" if and only if a median is above the threshold.
THEOREM VerdictsAreJustified == BenchmarkSpec => []VerdictJustified
<1>1. BenchmarkSpec => []BenchmarkInv
  BY BenchmarkBegin, BenchmarkStep, PTL DEF BenchmarkSpec
<1>2. BenchmarkSpec => []DocumentsTrue
  BY <1>1, DocumentsBegin, DocumentsStep, PTL DEF BenchmarkSpec
<1>3. QED BY <1>1, <1>2, VerdictTrue, PTL

-----------------------------------------------------------------------------
(* Sums over the cells of a dataset.                                       *)

\* There are finitely many cells, those of a world among them.
LEMMA CellsFinite ==
    /\ NWorlds \in Nat \ {0} /\ NTones \in Nat \ {0}
    /\ IsFiniteSet(Cells)
    /\ \A w \in Worlds : OfWorld(w) \in SUBSET Cells
<1>1. NWorlds \in Nat \ {0} /\ NTones \in Nat \ {0}
    BY StoryAssumption
<1>2. IsFiniteSet(Worlds) /\ IsFiniteSet(Tones)
    BY <1>1, FirstNumbers DEF Worlds, Tones
<1>3. IsFiniteSet(Cells)
    BY <1>2, FS_Product DEF Cells
<1>4. QED BY <1>1, <1>3 DEF OfWorld, Cells

\* The sum over some of the cells is a natural number.
LEMMA TotalType ==
    ASSUME NEW q \in [Cells -> Nat], NEW S \in SUBSET Cells
    PROVE  /\ TotalOf(q, S) \in Nat /\ IsFiniteSet(S)
           /\ Restrict(q, S) \in [S -> Nat] /\ \A cell \in S : Restrict(q, S)[cell] = q[cell]
<1>1. IsFiniteSet(S)
    BY CellsFinite, FS_Subset
<1>2. Restrict(q, S) \in [S -> Nat] /\ \A cell \in S : Restrict(q, S)[cell] = q[cell]
    BY DEF Restrict
<1> DEFINE f == Restrict(q, S)
<1> HIDE DEF f
<1>3. SumFunction(f) \in Nat
    BY <1>1, <1>2, SumType DEF f
<1>4. QED BY <1>1, <1>2, <1>3 DEF TotalOf, f

\* The sum over no cell.
LEMMA TotalNone ==
    ASSUME NEW q \in [Cells -> Nat]
    PROVE  TotalOf(q, {}) = 0
<1>1. Restrict(q, {}) \in [{} -> Nat]
    BY TotalType
<1>2. QED BY <1>1, SumEmpty DEF TotalOf

\* The sum over one more cell.
LEMMA TotalMore ==
    ASSUME NEW q \in [Cells -> Nat], NEW S \in SUBSET Cells, NEW x \in Cells, x \notin S
    PROVE  TotalOf(q, S \cup {x}) = TotalOf(q, S) + q[x]
<1> DEFINE U == S \cup {x}
           f == Restrict(q, S)
           g == Restrict(q, U)
<1>1. U \in SUBSET Cells
    OBVIOUS
<1>2. g \in [U -> Nat] /\ \A cell \in U : g[cell] = q[cell]
    BY <1>1, TotalType
<1>3. f \in [S -> Nat] /\ IsFiniteSet(S) /\ \A cell \in S : f[cell] = q[cell]
    BY TotalType
<1>4. U = S \cup {x}
    OBVIOUS
<1> HIDE DEF f, g, U
<1>5. OneMore(U, g, S, f, x)
    BY <1>2, <1>3, <1>4 DEF OneMore
<1>6. SumFunction(g) = SumFunction(f) + g[x]
    BY <1>5, SumOneMore
<1>7. QED BY <1>2, <1>4, <1>6 DEF TotalOf, f, g, U

\* The sum over two sets of cells.
LEMMA TotalUnion ==
    ASSUME NEW q \in [Cells -> Nat], NEW S \in SUBSET Cells, NEW T \in SUBSET Cells, S \cap T = {}
    PROVE  TotalOf(q, S \cup T) = TotalOf(q, S) + TotalOf(q, T)
<1> DEFINE U == S \cup T
           f == Restrict(q, U)
           g == Restrict(q, S)
           h == Restrict(q, T)
<1>1. U \in SUBSET Cells /\ U = S \cup T
    OBVIOUS
<1>2. f \in [U -> Nat] /\ \A cell \in U : f[cell] = q[cell]
    BY <1>1, TotalType
<1>3. g \in [S -> Nat] /\ IsFiniteSet(S) /\ \A cell \in S : g[cell] = q[cell]
    BY TotalType
<1>4. h \in [T -> Nat] /\ IsFiniteSet(T) /\ \A cell \in T : h[cell] = q[cell]
    BY TotalType
<1> HIDE DEF f, g, h, U
<1>5. Parts(U, f, S, g, T, h)
    BY <1>1, <1>2, <1>3, <1>4 DEF Parts
<1>6. SumFunction(f) = SumFunction(g) + SumFunction(h)
    BY <1>5, SumUnion
<1>7. QED BY <1>1, <1>6 DEF TotalOf, f, g, h, U

\* A sum sees the cells it is over, and no more.
LEMMA TotalSame ==
    ASSUME NEW q, NEW p, NEW S \in SUBSET Cells, \A cell \in S : p[cell] = q[cell]
    PROVE  TotalOf(p, S) = TotalOf(q, S)
<1>1. Restrict(p, S) = Restrict(q, S)
    BY DEF Restrict
<1>2. QED BY <1>1 DEF TotalOf

\* A sum of less is less.
LEMMA TotalLess ==
    ASSUME NEW q \in [Cells -> Nat], NEW p \in [Cells -> Nat], NEW S \in SUBSET Cells,
           \A cell \in S : q[cell] <= p[cell]
    PROVE  TotalOf(q, S) <= TotalOf(p, S)
<1> DEFINE f == Restrict(q, S)
           g == Restrict(p, S)
<1>1. IsFiniteSet(S) /\ f \in [S -> Nat] /\ \A cell \in S : f[cell] = q[cell]
    BY TotalType
<1>2. g \in [S -> Nat] /\ \A cell \in S : g[cell] = p[cell]
    BY TotalType
<1> HIDE DEF f, g
<1>3. \A cell \in S : f[cell] <= g[cell]
    BY <1>1, <1>2
<1>4. S \in SUBSET S
    OBVIOUS
<1>5. SumFunction(f) <= SumFunction(g)
    BY <1>1, <1>2, <1>3, <1>4, SumMonotone
<1>6. QED BY <1>5 DEF TotalOf, f, g

\* A sum of sums is the sum of both.
LEMMA TotalPlus ==
    ASSUME NEW q \in [Cells -> Nat], NEW p \in [Cells -> Nat], NEW r \in [Cells -> Nat],
           NEW S \in SUBSET Cells, \A cell \in S : r[cell] = q[cell] + p[cell]
    PROVE  TotalOf(r, S) = TotalOf(q, S) + TotalOf(p, S)
<1> DEFINE Bad == {s \in SUBSET S : TotalOf(r, s) # TotalOf(q, s) + TotalOf(p, s)}
<1>1. IsFiniteSet(S) /\ Bad \in SUBSET (SUBSET S)
    BY TotalType
<1>2. ASSUME NEW s \in Bad, \A x \in s : s \ {x} \notin Bad PROVE FALSE
    <2>1. s \in SUBSET S /\ TotalOf(r, s) # TotalOf(q, s) + TotalOf(p, s)
        OBVIOUS
    <2>2. s # {}
        <3>1. TotalOf(r, {}) = 0 /\ TotalOf(q, {}) = 0 /\ TotalOf(p, {}) = 0
            BY TotalNone
        <3>2. TotalOf(r, {}) = TotalOf(q, {}) + TotalOf(p, {})
            BY <3>1
        <3> HIDE DEF Bad
        <3>3. QED BY <2>1, <3>2, Zenon
    <2>3. PICK x \in s : TRUE
        BY <2>2
    <2> DEFINE t == s \ {x}
    <2>4. TotalOf(r, t) = TotalOf(q, t) + TotalOf(p, t)
        BY <1>2, <2>1, <2>3
    <2>5. t \in SUBSET Cells /\ x \in Cells /\ x \notin t /\ s = t \cup {x} /\ x \in S
        BY <2>1, <2>3
    <2> HIDE DEF t, Bad
    <2>6. /\ TotalOf(r, s) = TotalOf(r, t) + r[x]
          /\ TotalOf(q, s) = TotalOf(q, t) + q[x]
          /\ TotalOf(p, s) = TotalOf(p, t) + p[x]
        BY <2>5, TotalMore
    <2>7. TotalOf(r, t) \in Nat /\ TotalOf(q, t) \in Nat /\ TotalOf(p, t) \in Nat
        BY <2>5, TotalType
    <2>8. r[x] = q[x] + p[x] /\ r[x] \in Nat /\ q[x] \in Nat /\ p[x] \in Nat
        BY <2>5
    <2>9. QED BY <2>1, <2>4, <2>6, <2>7, <2>8
<1> HIDE DEF Bad
<1>3. Bad = {}
    BY <1>1, <1>2, SmallestSubset
<1>4. QED BY <1>3 DEF Bad

\* How many things each cell has.
Tally(key, R) == [cell \in Cells |-> Cardinality({x \in R : key[x] = cell})]

\* Things are counted cell by cell.
LEMMA TotalTally ==
    ASSUME NEW R, IsFiniteSet(R), NEW key \in [R -> Cells], NEW S \in SUBSET Cells
    PROVE  /\ Tally(key, R) \in [Cells -> Nat]
           /\ TotalOf(Tally(key, R), S) = Cardinality({x \in R : key[x] \in S})
<1> DEFINE q == Tally(key, R)
           In(s) == {x \in R : key[x] \in s}
           Bad == {s \in SUBSET S : TotalOf(q, s) # Cardinality(In(s))}
<1>1. \A T \in SUBSET R : IsFiniteSet(T) /\ Cardinality(T) \in Nat
    BY FS_Subset, FS_CardinalityType
<1>2. q \in [Cells -> Nat]
    BY <1>1 DEF Tally
<1>3. IsFiniteSet(S) /\ Bad \in SUBSET (SUBSET S)
    BY <1>2, TotalType
<1>4. ASSUME NEW s \in Bad, \A x \in s : s \ {x} \notin Bad PROVE FALSE
    <2>1. s \in SUBSET S /\ TotalOf(q, s) # Cardinality(In(s))
        OBVIOUS
    <2>2. s # {}
        <3>1. TotalOf(q, {}) = 0
            BY <1>2, TotalNone
        <3>2. In({}) = {}
            OBVIOUS
        <3>3. Cardinality(In({})) = 0
            BY <3>2, FS_EmptySet
        <3>4. QED BY <2>1, <3>1, <3>3
    <2>3. PICK c \in s : TRUE
        BY <2>2
    <2> DEFINE t == s \ {c}
               own == {x \in R : key[x] = c}
    <2>4. TotalOf(q, t) = Cardinality(In(t))
        BY <1>4, <2>1, <2>3
    <2>5. t \in SUBSET Cells /\ c \in Cells /\ c \notin t /\ s = t \cup {c}
        BY <2>1, <2>3
    <2>6. In(s) = In(t) \cup own /\ In(t) \cap own = {}
        BY <2>5
    <2>7. q[c] = Cardinality(own)
        BY <2>5 DEF Tally
    <2>8. In(t) \in SUBSET R /\ own \in SUBSET R
        OBVIOUS
    <2> HIDE DEF t, Bad, q, In, own
    <2>9. TotalOf(q, s) = TotalOf(q, t) + q[c]
        BY <1>2, <2>5, TotalMore
    <2>10. Cardinality(In(s)) = Cardinality(In(t)) + Cardinality(own)
        <3>1. IsFiniteSet(In(t)) /\ IsFiniteSet(own) /\ Cardinality(In(t)) \in Nat /\ Cardinality(own) \in Nat
            BY <1>1, <2>8
        <3>2. Cardinality(In(t) \cup own)
                = Cardinality(In(t)) + Cardinality(own) - Cardinality(In(t) \cap own)
            BY <3>1, FS_Union
        <3>3. Cardinality(In(t) \cap own) = 0
            BY <2>6, FS_EmptySet, Zenon
        <3>4. QED BY <2>6, <3>1, <3>2, <3>3
    <2>11. QED BY <2>1, <2>4, <2>7, <2>9, <2>10
<1> HIDE DEF Bad
<1>5. Bad = {}
    BY <1>3, <1>4, SmallestSubset
<1>6. QED BY <1>2, <1>5 DEF Bad

\* As many cells as a set has.
LEMMA TotalOnes ==
    ASSUME NEW M \in SUBSET Cells, NEW S \in SUBSET Cells
    PROVE  /\ [cell \in Cells |-> IF cell \in M THEN 1 ELSE 0] \in [Cells -> Nat]
           /\ TotalOf([cell \in Cells |-> IF cell \in M THEN 1 ELSE 0], S) = Cardinality(M \cap S)
<1> DEFINE one == [cell \in Cells |-> IF cell \in M THEN 1 ELSE 0]
           key == [cell \in M |-> cell]
<1>1. IsFiniteSet(M)
    BY CellsFinite, FS_Subset
<1>2. key \in [M -> Cells] /\ \A cell \in M : key[cell] = cell
    OBVIOUS
<1>3. {x \in M : key[x] \in S} = M \cap S
    BY <1>2
<1>4. ASSUME NEW cell \in Cells PROVE Tally(key, M)[cell] = IF cell \in M THEN 1 ELSE 0
    <2>1. Tally(key, M)[cell] = Cardinality({x \in M : key[x] = cell})
        BY DEF Tally
    <2>2. {x \in M : key[x] = cell} = IF cell \in M THEN {cell} ELSE {}
        BY <1>2
    <2>3. Cardinality({cell}) = 1 /\ Cardinality({}) = 0
        BY FS_Singleton, FS_EmptySet
    <2>4. QED BY <2>1, <2>2, <2>3
<1> HIDE DEF key
<1>5. TotalOf(Tally(key, M), S) = Cardinality(M \cap S)
    BY <1>1, <1>2, <1>3, TotalTally
<1>6. one \in [Cells -> Nat] /\ \A cell \in S : one[cell] = Tally(key, M)[cell]
    BY <1>4
<1> HIDE DEF one
<1>7. TotalOf(one, S) = TotalOf(Tally(key, M), S)
    BY <1>6, TotalSame
<1>8. QED BY <1>5, <1>6, <1>7 DEF one
-----------------------------------------------------------------------------
(* The quotas of compute_quotas().                                         *)

\* Stories that a cell may have.
Within(q, avail) == q \in [Cells -> Nat] /\ \A cell \in Cells : q[cell] <= avail[cell]

\* A part of a number.
LEMMA ShareType ==
    ASSUME NEW n \in Nat, NEW parts \in Nat \ {0}, NEW position \in Int
    PROVE  Share(n, parts, position) \in Nat
<1>1. n \div parts \in Nat
    <2> DEFINE d == n \div parts
               r == n % parts
    <2>1. d \in Int /\ r \in 0 .. parts - 1 /\ n = parts * d + r
        OBVIOUS
    <2>2. QED BY <2>1, SMTT(30)
<1>2. QED BY <1>1 DEF Share

\* Equal quotas are within what there is.
LEMMA EqualWithin ==
    ASSUME NEW desired \in Nat, NEW avail \in [Cells -> Nat]
    PROVE  Within(Equal(desired, avail), avail)
<1> DEFINE share(cell) == Share(desired, NWorlds * NTones, Place(cell))
<1>1. ASSUME NEW cell \in Cells PROVE share(cell) \in Nat
    <2>1. NWorlds * NTones \in Nat \ {0}
        BY CellsFinite
    <2>2. cell[1] \in Nat /\ cell[2] \in Nat /\ NTones \in Nat
        BY CellsFinite DEF Cells, Worlds, Tones
    <2>3. Place(cell) \in Int
        BY <2>2 DEF Place
    <2>4. QED BY <2>1, <2>3, ShareType
<1>2. Equal(desired, avail) = [cell \in Cells |-> Least(share(cell), avail[cell])]
    BY DEF Equal
<1> HIDE DEF share
<1>3. QED BY <1>1, <1>2 DEF Within, Least

\* The cells of a world up to a tone, and those after it.
Left(w, k) == {cell \in OfWorld(w) : cell[2] <= k}
Right(w, k) == {cell \in OfWorld(w) : cell[2] > k}

\* One more cell of a world.
LEMMA NextCell ==
    ASSUME NEW w \in Worlds, NEW k \in 0 .. NTones - 1
    PROVE  /\ <<w, k + 1>> \in Cells
           /\ <<w, k + 1>> \notin Left(w, k) /\ Left(w, k + 1) = Left(w, k) \cup {<<w, k + 1>>}
           /\ <<w, k + 1>> \notin Right(w, k + 1) /\ Right(w, k) = Right(w, k + 1) \cup {<<w, k + 1>>}
           /\ Left(w, k) = {cell \in OfWorld(w) : cell[2] < k + 1}
           /\ Right(w, k + 1) = {cell \in OfWorld(w) : cell[2] > k + 1}
<1>1. NTones \in Nat /\ k + 1 \in Tones /\ k \in Int
    BY CellsFinite DEF Tones
<1>2. <<w, k + 1>> \in OfWorld(w) /\ <<w, k + 1>> \in Cells
    BY <1>1 DEF OfWorld, Cells
<1>3. \A cell \in OfWorld(w) : cell = <<w, cell[2]>> /\ cell[2] \in Int
    BY CellsFinite DEF OfWorld, Tones
<1>4. \A cell \in OfWorld(w) : cell = <<w, k + 1>> <=> cell[2] = k + 1
    BY <1>3
<1>5. \A cell \in OfWorld(w) :
          /\ cell[2] <= k + 1 <=> cell[2] <= k \/ cell[2] = k + 1
          /\ cell[2] > k <=> cell[2] > k + 1 \/ cell[2] = k + 1
          /\ cell[2] <= k <=> cell[2] < k + 1
    BY <1>1, <1>3
<1>6. <<w, k + 1>>[2] = k + 1
    OBVIOUS
<1>7. <<w, k + 1>> \notin Left(w, k) /\ <<w, k + 1>> \notin Right(w, k + 1)
    BY <1>1, <1>6 DEF Left, Right
<1>8. Left(w, k + 1) = Left(w, k) \cup {<<w, k + 1>>}
    BY <1>2, <1>4, <1>5 DEF Left
<1>9. Right(w, k) = Right(w, k + 1) \cup {<<w, k + 1>>}
    BY <1>2, <1>4, <1>5 DEF Right
<1>10. Left(w, k) = {cell \in OfWorld(w) : cell[2] < k + 1}
    BY <1>5 DEF Left
<1>11. QED BY <1>2, <1>7, <1>8, <1>9, <1>10 DEF Right

\* The cells of a world from either end.
LEMMA WorldEnds ==
    ASSUME NEW w \in Worlds
    PROVE  /\ Left(w, 0) = {} /\ Left(w, NTones) = OfWorld(w)
           /\ Right(w, NTones) = {} /\ Right(w, 0) = OfWorld(w)
           /\ \A k \in Int : Left(w, k) \in SUBSET Cells /\ Right(w, k) \in SUBSET Cells
<1>1. \A cell \in OfWorld(w) : cell[2] \in 1 .. NTones
    BY DEF OfWorld, Tones
<1>2. OfWorld(w) \in SUBSET Cells
    BY CellsFinite
<1>3. NTones \in Nat
    BY CellsFinite
<1>4. QED BY <1>1, <1>2, <1>3 DEF Left, Right

\* What a cell gets or gives up, and what there is left to give.
LEMMA FillStep ==
    ASSUME NEW m \in Nat, NEW spare \in Nat, NEW room \in Nat
    PROVE  /\ Clamp(m - spare, room) \in Nat /\ Clamp(m - spare, room) <= room
           /\ Least(m, spare + room) = Least(m, spare) + Clamp(m - spare, room)
BY DEF Clamp, Least

\* q[cell] grows toward a world's share.
Grown(missing, avail, q, w) ==
  [cell \in OfWorld(w) |->
     q[cell] + Clamp(missing - (TotalOf(avail, {c \in OfWorld(w) : c[2] < cell[2]})
                                  - TotalOf(q, {c \in OfWorld(w) : c[2] < cell[2]})),
                     avail[cell] - q[cell])]

\* q[cell] shrinks toward it.
Trimmed(excess, q, w) ==
  [cell \in OfWorld(w) |->
     q[cell] - Clamp(excess - TotalOf(q, {c \in OfWorld(w) : c[2] > cell[2]}), q[cell])]

\* A world that grows takes from its first cells, until it has its share or all
\* that it has.
LEMMA GrownTotal ==
    ASSUME NEW avail \in [Cells -> Nat], NEW q, Within(q, avail), NEW w \in Worlds,
           NEW missing \in Nat, NEW p \in [Cells -> Nat],
           \A cell \in OfWorld(w) : p[cell] = Grown(missing, avail, q, w)[cell]
    PROVE  TotalOf(p, OfWorld(w))
             = TotalOf(q, OfWorld(w))
                 + Least(missing, TotalOf(avail, OfWorld(w)) - TotalOf(q, OfWorld(w)))
<1> DEFINE Good(k) == TotalOf(p, Left(w, k))
                        = TotalOf(q, Left(w, k))
                            + Least(missing, TotalOf(avail, Left(w, k)) - TotalOf(q, Left(w, k)))
           Bad == {k \in 0 .. NTones : ~ Good(k)}
<1>1. NTones \in Nat /\ q \in [Cells -> Nat] /\ \A cell \in Cells : q[cell] <= avail[cell]
    BY CellsFinite DEF Within
<1>2. Good(0)
    <2>1. Left(w, 0) = {}
        BY WorldEnds
    <2>2. TotalOf(p, {}) = 0 /\ TotalOf(q, {}) = 0 /\ TotalOf(avail, {}) = 0
        BY <1>1, TotalNone
    <2>3. Least(missing, 0 - 0) = 0
        BY DEF Least
    <2>4. QED BY <2>1, <2>2, <2>3
<1>3. ASSUME NEW k \in 0 .. NTones - 1, Good(k) PROVE Good(k + 1)
    <2> DEFINE L == Left(w, k)
               M == Left(w, k + 1)
               x == <<w, k + 1>>
    <2>1. x \in Cells /\ x \notin L /\ M = L \cup {x} /\ L = {c \in OfWorld(w) : c[2] < k + 1}
        BY NextCell
    <2>2. L \in SUBSET Cells /\ x \in OfWorld(w) /\ x[2] = k + 1
        BY <1>1, <1>3, WorldEnds DEF OfWorld, Tones
    <2>3. p[x] = q[x] + Clamp(missing - (TotalOf(avail, L) - TotalOf(q, L)), avail[x] - q[x])
        BY <2>1, <2>2 DEF Grown
    <2>4. TotalOf(p, L) = TotalOf(q, L) + Least(missing, TotalOf(avail, L) - TotalOf(q, L))
        BY <1>3
    <2> HIDE DEF L, M, x
    <2>5. /\ TotalOf(p, M) = TotalOf(p, L) + p[x]
          /\ TotalOf(q, M) = TotalOf(q, L) + q[x]
          /\ TotalOf(avail, M) = TotalOf(avail, L) + avail[x]
        BY <1>1, <2>1, <2>2, TotalMore
    <2>6. /\ TotalOf(q, L) \in Nat /\ TotalOf(avail, L) \in Nat
          /\ TotalOf(q, L) <= TotalOf(avail, L)
        BY <1>1, <2>2, TotalType, TotalLess
    <2>7. q[x] \in Nat /\ avail[x] \in Nat /\ q[x] <= avail[x]
        BY <1>1, <2>1
    <2> DEFINE spare == TotalOf(avail, L) - TotalOf(q, L)
               room == avail[x] - q[x]
    <2>8. spare \in Nat /\ room \in Nat
        BY <2>6, <2>7
    <2>9. TotalOf(avail, M) - TotalOf(q, M) = spare + room
        BY <2>5, <2>6, <2>7
    <2>10. p[x] = q[x] + Clamp(missing - spare, room)
        BY <2>3
    <2>11. TotalOf(p, L) = TotalOf(q, L) + Least(missing, spare)
        BY <2>4
    <2> HIDE DEF spare, room
    <2>12. /\ Clamp(missing - spare, room) \in Nat
           /\ Least(missing, spare + room) = Least(missing, spare) + Clamp(missing - spare, room)
        BY <2>8, FillStep
    <2>13. Least(missing, spare) \in Nat
        BY <2>8 DEF Least
    <2>14. TotalOf(p, M) = TotalOf(q, M) + Least(missing, TotalOf(avail, M) - TotalOf(q, M))
        BY <2>5, <2>6, <2>7, <2>9, <2>10, <2>11, <2>12, <2>13
    <2>15. QED BY <2>14 DEF M
<1> HIDE DEF Good
<1>4. Bad = {}
    <2>1. SUFFICES ASSUME Bad # {} PROVE FALSE
        OBVIOUS
    <2>2. PICK n \in Bad : \A m \in Bad : n <= m
        <3>1. Bad \in SUBSET Nat
            BY <1>1
        <3> HIDE DEF Bad
        <3>2. QED BY <2>1, <3>1, LeastNumber
    <2>3. n # 0 /\ n \in 0 .. NTones /\ ~ Good(n)
        BY <1>2, <2>2
    <2>4. n - 1 \in 0 .. NTones - 1 /\ n - 1 + 1 = n /\ n - 1 \notin Bad /\ n - 1 \in 0 .. NTones
        BY <1>1, <2>2, <2>3
    <2>5. Good(n - 1)
        BY <2>4
    <2>6. QED BY <1>3, <2>3, <2>4, <2>5
<1>5. Good(NTones)
    BY <1>1, <1>4
<1>6. Left(w, NTones) = OfWorld(w)
    BY WorldEnds
<1>7. QED BY <1>5, <1>6 DEF Good

\* A world that has too much gives up its last cells first, until it has its
\* share.
LEMMA TrimmedTotal ==
    ASSUME NEW q \in [Cells -> Nat], NEW w \in Worlds, NEW excess \in Nat, NEW p \in [Cells -> Nat],
           \A cell \in OfWorld(w) : p[cell] = Trimmed(excess, q, w)[cell]
    PROVE  TotalOf(p, OfWorld(w))
             = TotalOf(q, OfWorld(w)) - Least(excess, TotalOf(q, OfWorld(w)))
<1> DEFINE Good(k) == TotalOf(p, Right(w, k))
                        = TotalOf(q, Right(w, k)) - Least(excess, TotalOf(q, Right(w, k)))
           Bad == {k \in 0 .. NTones : ~ Good(NTones - k)}
<1>1. NTones \in Nat
    BY CellsFinite
<1>2. Good(NTones)
    <2>1. Right(w, NTones) = {}
        BY WorldEnds
    <2>2. TotalOf(p, {}) = 0 /\ TotalOf(q, {}) = 0
        BY TotalNone
    <2>3. Least(excess, 0) = 0
        BY DEF Least
    <2>4. QED BY <2>1, <2>2, <2>3
<1>3. ASSUME NEW k \in 0 .. NTones - 1, Good(k + 1) PROVE Good(k)
    <2> DEFINE L == Right(w, k + 1)
               M == Right(w, k)
               x == <<w, k + 1>>
    <2>1. x \in Cells /\ x \notin L /\ M = L \cup {x} /\ L = {c \in OfWorld(w) : c[2] > k + 1}
        BY NextCell
    <2>2. L \in SUBSET Cells /\ x \in OfWorld(w) /\ x[2] = k + 1
        BY <1>1, <1>3, WorldEnds DEF OfWorld, Tones
    <2>3. p[x] = q[x] - Clamp(excess - TotalOf(q, L), q[x])
        BY <2>1, <2>2 DEF Trimmed
    <2>4. TotalOf(p, L) = TotalOf(q, L) - Least(excess, TotalOf(q, L))
        BY <1>3
    <2> HIDE DEF L, M, x
    <2>5. TotalOf(p, M) = TotalOf(p, L) + p[x] /\ TotalOf(q, M) = TotalOf(q, L) + q[x]
        BY <2>1, <2>2, TotalMore
    <2>6. TotalOf(q, L) \in Nat /\ q[x] \in Nat
        BY <2>1, <2>2, TotalType
    <2>7. /\ Clamp(excess - TotalOf(q, L), q[x]) \in Nat
          /\ Least(excess, TotalOf(q, L) + q[x])
               = Least(excess, TotalOf(q, L)) + Clamp(excess - TotalOf(q, L), q[x])
        BY <2>6, FillStep
    <2>8. Least(excess, TotalOf(q, L)) \in Nat
        BY <2>6 DEF Least
    <2>9. TotalOf(p, M) = TotalOf(q, M) - Least(excess, TotalOf(q, M))
        BY <2>3, <2>4, <2>5, <2>6, <2>7, <2>8
    <2>10. QED BY <2>9 DEF M
<1> HIDE DEF Good
<1>4. Bad = {}
    <2>1. SUFFICES ASSUME Bad # {} PROVE FALSE
        OBVIOUS
    <2>2. PICK n \in Bad : \A m \in Bad : n <= m
        <3>1. Bad \in SUBSET Nat
            BY <1>1
        <3> HIDE DEF Bad
        <3>2. QED BY <2>1, <3>1, LeastNumber
    <2>3. n # 0 /\ n \in 0 .. NTones /\ ~ Good(NTones - n)
        BY <1>1, <1>2, <2>2
    <2>4. n - 1 \notin Bad /\ n - 1 \in 0 .. NTones
        BY <1>1, <2>2, <2>3
    <2>5. Good(NTones - (n - 1))
        BY <2>4
    <2>6. NTones - n \in 0 .. NTones - 1 /\ NTones - (n - 1) = (NTones - n) + 1
        BY <1>1, <2>3
    <2>7. QED BY <1>3, <2>3, <2>5, <2>6
<1>5. Good(NTones - NTones)
    BY <1>1, <1>4
<1>6. Right(w, 0) = OfWorld(w) /\ NTones - NTones = 0
    BY <1>1, WorldEnds
<1>7. QED BY <1>5, <1>6 DEF Good

\* Every world has its share, or all of its stories.
LEMMA MarginalsReached ==
    ASSUME NEW desired \in Nat, NEW avail \in [Cells -> Nat], NEW q, Within(q, avail)
    PROVE  /\ Within(ToMarginals(desired, avail, q), avail)
           /\ \A w \in Worlds :
                TotalOf(ToMarginals(desired, avail, q), OfWorld(w))
                  = Least(Share(desired, NWorlds, w), TotalOf(avail, OfWorld(w)))
<1> DEFINE p == ToMarginals(desired, avail, q)
           Missing(w) == Share(desired, NWorlds, w) - TotalOf(q, OfWorld(w))
           before(cell) == {c \in OfWorld(cell[1]) : c[2] < cell[2]}
           after(cell) == {c \in OfWorld(cell[1]) : c[2] > cell[2]}
           Spare(cell) == TotalOf(avail, before(cell)) - TotalOf(q, before(cell))
<1>1. q \in [Cells -> Nat] /\ \A cell \in Cells : q[cell] <= avail[cell]
    BY DEF Within
<1>2. p = [cell \in Cells |->
             IF Missing(cell[1]) >= 0
             THEN q[cell] + Clamp(Missing(cell[1]) - Spare(cell), avail[cell] - q[cell])
             ELSE q[cell] - Clamp(-Missing(cell[1]) - TotalOf(q, after(cell)), q[cell])]
    BY DEF ToMarginals
<1> HIDE DEF p
<1>3. ASSUME NEW w \in Worlds
      PROVE  /\ OfWorld(w) \in SUBSET Cells
             /\ TotalOf(q, OfWorld(w)) \in Nat /\ TotalOf(avail, OfWorld(w)) \in Nat
             /\ TotalOf(q, OfWorld(w)) <= TotalOf(avail, OfWorld(w))
             /\ Share(desired, NWorlds, w) \in Nat
    <2>1. OfWorld(w) \in SUBSET Cells /\ NWorlds \in Nat \ {0} /\ w \in Int
        BY CellsFinite DEF Worlds
    <2>2. TotalOf(q, OfWorld(w)) \in Nat /\ TotalOf(avail, OfWorld(w)) \in Nat
        BY <1>1, <2>1, TotalType
    <2>3. TotalOf(q, OfWorld(w)) <= TotalOf(avail, OfWorld(w))
        BY <1>1, <2>1, TotalLess
    <2>4. QED BY <2>1, <2>2, <2>3, ShareType
<1>4. ASSUME NEW cell \in Cells
      PROVE  /\ cell[1] \in Worlds /\ Missing(cell[1]) \in Int
             /\ Spare(cell) \in Nat /\ TotalOf(q, after(cell)) \in Nat
             /\ avail[cell] \in Nat /\ q[cell] \in Nat /\ avail[cell] - q[cell] \in Nat
    <2>1. cell[1] \in Worlds
        BY DEF Cells
    <2>2. before(cell) \in SUBSET Cells /\ after(cell) \in SUBSET Cells
        BY <1>3, <2>1
    <2>3. Missing(cell[1]) \in Int
        BY <1>3, <2>1
    <2> DEFINE b == before(cell)
    <2>4. b \in SUBSET Cells
        BY <2>2
    <2> HIDE DEF b
    <2>5. TotalOf(q, b) \in Nat /\ TotalOf(avail, b) \in Nat /\ TotalOf(q, b) <= TotalOf(avail, b)
        BY <1>1, <2>4, TotalType, TotalLess
    <2>6. TotalOf(avail, b) - TotalOf(q, b) \in Nat
        BY <2>5
    <2>7. Spare(cell) \in Nat
        BY <2>6 DEF b
    <2>8. TotalOf(q, after(cell)) \in Nat
        BY <1>1, <2>2, TotalType
    <2>9. avail[cell] \in Nat /\ q[cell] \in Nat /\ q[cell] <= avail[cell]
        BY <1>1
    <2>10. QED BY <2>1, <2>3, <2>7, <2>8, <2>9
<1> HIDE DEF Missing, Spare, after
<1>5. ASSUME NEW cell \in Cells PROVE p[cell] \in Nat /\ p[cell] <= avail[cell]
    <2>1. CASE Missing(cell[1]) >= 0
        <3> DEFINE m == Missing(cell[1])
                   spare == Spare(cell)
                   room == avail[cell] - q[cell]
        <3>1. m \in Nat /\ spare \in Nat /\ room \in Nat
            BY <1>4, <2>1
        <3>2. p[cell] = q[cell] + Clamp(m - spare, room)
            BY <1>2, <2>1
        <3>3. avail[cell] = q[cell] + room
            BY <1>4
        <3> HIDE DEF m, spare, room
        <3>4. Clamp(m - spare, room) \in Nat /\ Clamp(m - spare, room) <= room
            BY <3>1, FillStep
        <3>5. QED BY <1>4, <3>1, <3>2, <3>3, <3>4
    <2>2. CASE ~ (Missing(cell[1]) >= 0)
        <3> DEFINE m == -Missing(cell[1])
                   spare == TotalOf(q, after(cell))
                   room == q[cell]
        <3>1. m \in Nat /\ spare \in Nat /\ room \in Nat
            BY <1>4, <2>2
        <3>2. p[cell] = q[cell] - Clamp(m - spare, room)
            BY <1>2, <2>2
        <3>3. q[cell] = room /\ q[cell] <= avail[cell] /\ avail[cell] \in Nat
            BY <1>1, <1>4
        <3> HIDE DEF m, spare, room
        <3>4. Clamp(m - spare, room) \in Nat /\ Clamp(m - spare, room) <= room
            BY <3>1, FillStep
        <3>5. QED BY <3>1, <3>2, <3>3, <3>4
    <2>3. QED BY <2>1, <2>2
<1>6. p \in [Cells -> Nat] /\ Within(p, avail)
    <2>1. p = [cell \in Cells |-> p[cell]]
        BY <1>2
    <2>2. p \in [Cells -> Nat]
        BY <1>5, <2>1
    <2>3. QED BY <1>5, <2>2 DEF Within
<1>7. ASSUME NEW w \in Worlds
      PROVE  TotalOf(p, OfWorld(w)) = Least(Share(desired, NWorlds, w), TotalOf(avail, OfWorld(w)))
    <2> DEFINE target == Share(desired, NWorlds, w)
               T == TotalOf(q, OfWorld(w))
               A == TotalOf(avail, OfWorld(w))
               m == Missing(w)
    <2>1. T \in Nat /\ A \in Nat /\ T <= A /\ target \in Nat /\ m = target - T
        BY <1>3 DEF Missing
    <2>2. \A cell \in OfWorld(w) : cell[1] = w /\ cell \in Cells
        BY <1>3 DEF OfWorld
    <2>3. CASE m >= 0
        <3>1. \A cell \in OfWorld(w) : p[cell] = Grown(m, avail, q, w)[cell]
            <4> SUFFICES ASSUME NEW cell \in OfWorld(w) PROVE p[cell] = Grown(m, avail, q, w)[cell]
                OBVIOUS
            <4>1. cell[1] = w /\ cell \in Cells
                BY <2>2
            <4>2. p[cell] = q[cell] + Clamp(m - Spare(cell), avail[cell] - q[cell])
                BY <1>2, <2>3, <4>1
            <4>3. Spare(cell) = TotalOf(avail, {c \in OfWorld(w) : c[2] < cell[2]})
                                  - TotalOf(q, {c \in OfWorld(w) : c[2] < cell[2]})
                BY <4>1 DEF Spare
            <4>4. QED BY <4>2, <4>3 DEF Grown
        <3>2. m \in Nat
            BY <2>1, <2>3
        <3> HIDE DEF m
        <3>3. TotalOf(p, OfWorld(w)) = T + Least(m, A - T)
            BY <1>6, <3>1, <3>2, GrownTotal
        <3>4. T + Least(m, A - T) = Least(target, A)
            BY <2>1, <2>3 DEF Least
        <3>5. QED BY <3>3, <3>4
    <2>4. CASE ~ (m >= 0)
        <3> DEFINE e == -m
        <3>1. \A cell \in OfWorld(w) : p[cell] = Trimmed(e, q, w)[cell]
            <4> SUFFICES ASSUME NEW cell \in OfWorld(w) PROVE p[cell] = Trimmed(e, q, w)[cell]
                OBVIOUS
            <4>1. cell[1] = w /\ cell \in Cells
                BY <2>2
            <4>2. p[cell] = q[cell] - Clamp(-m - TotalOf(q, after(cell)), q[cell])
                BY <1>2, <2>4, <4>1
            <4>3. after(cell) = {c \in OfWorld(w) : c[2] > cell[2]}
                BY <4>1 DEF after
            <4>4. QED BY <4>2, <4>3 DEF Trimmed
        <3>2. e \in Nat
            BY <2>1, <2>4
        <3>3. e = T - target
            BY <2>1
        <3> HIDE DEF e
        <3>4. TotalOf(p, OfWorld(w)) = T - Least(e, T)
            BY <1>1, <1>6, <3>1, <3>2, TrimmedTotal
        <3>5. T - Least(e, T) = Least(target, A)
            BY <2>1, <2>4, <3>3 DEF Least
        <3>6. QED BY <3>4, <3>5
    <2>5. QED BY <2>3, <2>4
<1>8. QED BY <1>6, <1>7 DEF p

\* The worlds up to one of them.
FirstWorlds(k) == {cell \in Cells : cell[1] <= k}

\* The shares of the worlds add up to what is wanted.
LEMMA SharesFit ==
    ASSUME NEW desired \in Nat, NEW p \in [Cells -> Nat],
           \A w \in Worlds : TotalOf(p, OfWorld(w)) <= Share(desired, NWorlds, w)
    PROVE  TotalOf(p, Cells) <= desired
<1> DEFINE base == desired \div NWorlds
           rest == desired % NWorlds
           Good(k) == TotalOf(p, FirstWorlds(k)) <= base * k + Least(k, rest)
           Bad == {k \in 0 .. NWorlds : ~ Good(k)}
<1>1. NWorlds \in Nat \ {0}
    BY CellsFinite
<1>2. base \in Int /\ rest \in 0 .. NWorlds - 1 /\ desired = NWorlds * base + rest
    BY <1>1
<1>3. base \in Nat
    BY <1>1, <1>2, SMTT(30)
<1>4. \A w \in Worlds : Share(desired, NWorlds, w) = base + (IF w <= rest THEN 1 ELSE 0)
    BY DEF Share
<1>5. \A k \in Int : FirstWorlds(k) \in SUBSET Cells
    BY DEF FirstWorlds
<1>6. \A cell \in Cells : cell[1] \in 1 .. NWorlds
    BY DEF Cells, Worlds
<1> HIDE DEF base, rest
<1>7. Good(0)
    <2>1. FirstWorlds(0) = {}
        BY <1>6 DEF FirstWorlds
    <2>2. TotalOf(p, {}) = 0
        BY TotalNone
    <2>3. base * 0 + Least(0, rest) = 0
        BY <1>2, <1>3 DEF Least
    <2>4. TotalOf(p, FirstWorlds(0)) = 0
        BY <2>1, <2>2, Zenon
    <2> DEFINE x == base * 0 + Least(0, rest)
               y == TotalOf(p, FirstWorlds(0))
    <2>5. x = 0 /\ y = 0
        BY <2>3, <2>4
    <2> HIDE DEF x, y
    <2>6. y <= x
        BY <2>5
    <2>7. QED BY <2>6 DEF x, y
<1>8. ASSUME NEW k \in 0 .. NWorlds - 1, Good(k) PROVE Good(k + 1)
    <2> DEFINE w == k + 1
               F == FirstWorlds(k)
               G == FirstWorlds(w)
               W == OfWorld(w)
    <2>1. w \in Worlds /\ w \in Int /\ k \in Int /\ k \in Nat
        BY <1>1 DEF Worlds
    <2>2. F \in SUBSET Cells /\ G \in SUBSET Cells /\ W \in SUBSET Cells
        BY <1>5, <2>1, CellsFinite
    <2>3. \A cell \in Cells : cell[1] = w <=> cell \in W
        BY <2>1 DEF OfWorld, Cells
    <2>4. G = F \cup W /\ F \cap W = {}
        <3>1. \A cell \in Cells : cell[1] <= w <=> cell[1] <= k \/ cell[1] = w
            BY <1>6, <2>1
        <3>2. \A cell \in Cells : cell[1] <= k => cell[1] # w
            BY <1>6, <2>1
        <3> HIDE DEF w, W
        <3>3. QED BY <2>2, <2>3, <3>1, <3>2 DEF FirstWorlds
    <2> HIDE DEF F, G, W
    <2>5. TotalOf(p, G) = TotalOf(p, F) + TotalOf(p, W)
        BY <2>2, <2>4, TotalUnion
    <2>6. TotalOf(p, F) \in Nat /\ TotalOf(p, W) \in Nat
        BY <2>2, TotalType
    <2>7. TotalOf(p, W) <= base + (IF w <= rest THEN 1 ELSE 0)
        BY <1>4, <2>1 DEF W
    <2>8. TotalOf(p, F) <= base * k + Least(k, rest)
        BY <1>8 DEF F
    <2>9. base * w = base * k + base /\ base * k \in Nat
        BY <1>3, <2>1
    <2>10. Least(w, rest) = Least(k, rest) + (IF w <= rest THEN 1 ELSE 0) /\ Least(k, rest) \in Int
        BY <1>1, <1>2, <2>1 DEF Least
    <2> DEFINE bw == base * w
               bk == base * k
               one == IF w <= rest THEN 1 ELSE 0
    <2>11. one \in Int /\ bk \in Int
        BY <2>9
    <2> HIDE DEF bw, bk, one, w
    <2>12. TotalOf(p, G) <= bw + Least(w, rest)
        BY <1>3, <2>5, <2>6, <2>7, <2>8, <2>9, <2>10, <2>11 DEF bw, bk, one
    <2>13. QED BY <2>12 DEF G, w, bw
<1> HIDE DEF Good
<1>9. Bad = {}
    <2>1. SUFFICES ASSUME Bad # {} PROVE FALSE
        OBVIOUS
    <2>2. PICK n \in Bad : \A m \in Bad : n <= m
        <3>1. Bad \in SUBSET Nat
            BY <1>1
        <3> HIDE DEF Bad
        <3>2. QED BY <2>1, <3>1, LeastNumber
    <2>3. n # 0 /\ n \in 0 .. NWorlds /\ ~ Good(n)
        BY <1>7, <2>2
    <2>4. n - 1 \in 0 .. NWorlds - 1 /\ n - 1 + 1 = n /\ n - 1 \notin Bad /\ n - 1 \in 0 .. NWorlds
        BY <1>1, <2>2, <2>3
    <2>5. Good(n - 1)
        BY <2>4
    <2>6. QED BY <1>8, <2>3, <2>4, <2>5
<1>10. Good(NWorlds)
    BY <1>1, <1>9
<1>11. FirstWorlds(NWorlds) = Cells
    BY <1>1, <1>6 DEF FirstWorlds
<1>12. base * NWorlds = NWorlds * base /\ Least(NWorlds, rest) = rest
    BY <1>1, <1>2, <1>3 DEF Least
<1>13. QED BY <1>2, <1>10, <1>11, <1>12 DEF Good

\* What a cell has been given after so many rounds, and the cells that have more.
Added(room, r) == [cell \in Cells |-> Least(r, room[cell])]
Beyond(room, r) == {cell \in Cells : room[cell] > r}

\* One more round gives a story to each cell that has more.
LEMMA RoundAdds ==
    ASSUME NEW room \in [Cells -> Nat], NEW r \in Nat
    PROVE  /\ Added(room, r) \in [Cells -> Nat] /\ TotalOf(Added(room, r), Cells) \in Nat
           /\ IsFiniteSet(Beyond(room, r)) /\ Cardinality(Beyond(room, r)) \in Nat
           /\ Beyond(room, r) \in SUBSET Cells
           /\ TotalOf(Added(room, r + 1), Cells)
                = TotalOf(Added(room, r), Cells) + Cardinality(Beyond(room, r))
           /\ TotalOf(Added(room, 0), Cells) = 0
<1> DEFINE M == Beyond(room, r)
           one == [cell \in Cells |-> IF cell \in M THEN 1 ELSE 0]
           a == Added(room, r)
           b == Added(room, r + 1)
           z == Added(room, 0)
<1>1. Cells \in SUBSET Cells /\ M \in SUBSET Cells
    BY DEF Beyond
<1>2. IsFiniteSet(M) /\ Cardinality(M) \in Nat
    BY <1>1, CellsFinite, FS_Subset, FS_CardinalityType
<1>3. a \in [Cells -> Nat] /\ b \in [Cells -> Nat] /\ z \in [Cells -> Nat]
    BY DEF Added, Least
<1>4. \A cell \in Cells : b[cell] = a[cell] + one[cell]
    BY DEF Added, Least, Beyond
<1>5. \A cell \in Cells : z[cell] = 0
    BY DEF Added, Least
<1> HIDE DEF M, a, b, z
<1>6. one \in [Cells -> Nat] /\ TotalOf(one, Cells) = Cardinality(M \cap Cells)
    BY <1>1, TotalOnes
<1>7. M \cap Cells = M
    BY <1>1
<1> HIDE DEF one
<1>8. TotalOf(b, Cells) = TotalOf(a, Cells) + TotalOf(one, Cells)
    BY <1>1, <1>3, <1>4, <1>6, TotalPlus
<1>9. TotalOf(a, Cells) \in Nat /\ TotalOf(z, Cells) \in Nat
    BY <1>1, <1>3, TotalType
<1>10. TotalOf(z, Cells) = 0
    <2>1. TotalOf(z, Cells) = TotalOf(z, Cells) + TotalOf(z, Cells)
        BY <1>1, <1>3, <1>5, TotalPlus
    <2>2. QED BY <1>9, <2>1
<1>11. QED BY <1>1, <1>2, <1>3, <1>6, <1>7, <1>8, <1>9, <1>10 DEF M, a, b, z

\* The last round that can be given to all.
LastRound(room, deficit, r) ==
  /\ TotalOf(Added(room, r), Cells) <= deficit
  /\ r = deficit \/ TotalOf(Added(room, r + 1), Cells) > deficit

\* There is one, and what is missing after it is at most one for each cell that
\* has more.
LEMMA RoundsExist ==
    ASSUME NEW room \in [Cells -> Nat], NEW deficit \in Nat
    PROVE  \E r \in 0 .. deficit : LastRound(room, deficit, r)
<1> DEFINE used(r) == TotalOf(Added(room, r), Cells)
           Over == {r \in 1 .. deficit : used(r) > deficit}
<1>1. \A r \in Nat : used(r) \in Nat
    BY RoundAdds
<1>2. used(0) = 0
    BY RoundAdds
<1>3. CASE Over = {}
    <2>1. used(deficit) <= deficit
        <3>1. CASE deficit = 0
            BY <1>2, <3>1
        <3>2. CASE deficit # 0
            BY <1>1, <1>3, <3>2
        <3>3. QED BY <3>1, <3>2
    <2>2. QED BY <2>1 DEF LastRound
<1>4. CASE Over # {}
    <2>1. PICK n \in Over : \A m \in Over : n <= m
        <3>1. Over \in SUBSET Nat
            OBVIOUS
        <3> HIDE DEF Over
        <3>2. QED BY <1>4, <3>1, LeastNumber
    <2>2. n \in 1 .. deficit /\ used(n) > deficit
        BY <2>1
    <2> DEFINE m == n - 1
    <2>3. m \in 0 .. deficit /\ m \in Nat /\ m + 1 = n /\ m \notin Over
        BY <2>1, <2>2
    <2>4. used(m) <= deficit
        <3>1. CASE m = 0
            BY <1>2, <3>1
        <3>2. CASE m # 0
            BY <1>1, <2>3, <3>2
        <3>3. QED BY <3>1, <3>2
    <2> HIDE DEF m
    <2>5. used(m + 1) > deficit
        BY <2>2, <2>3
    <2>6. QED BY <2>3, <2>4, <2>5 DEF LastRound
<1>5. QED BY <1>3, <1>4

LEMMA RoundsEnough ==
    ASSUME NEW room \in [Cells -> Nat], NEW deficit \in Nat, TotalOf(room, Cells) >= deficit,
           NEW r \in 0 .. deficit, LastRound(room, deficit, r)
    PROVE  deficit - TotalOf(Added(room, r), Cells) \in 0 .. Cardinality(Beyond(room, r))
<1> DEFINE used == TotalOf(Added(room, r), Cells)
           M == Beyond(room, r)
<1>1. r \in Nat
    OBVIOUS
<1>2. /\ used \in Nat /\ Cardinality(M) \in Nat /\ IsFiniteSet(M) /\ M \in SUBSET Cells
      /\ TotalOf(Added(room, r + 1), Cells) = used + Cardinality(M)
      /\ Added(room, r) \in [Cells -> Nat]
    BY <1>1, RoundAdds
<1>3. used <= deficit
    BY DEF LastRound
<1>4. CASE TotalOf(Added(room, r + 1), Cells) > deficit
    <2> HIDE DEF used, M
    <2>1. QED BY <1>2, <1>3, <1>4 DEF used, M
<1>5. CASE r = deficit /\ M = {}
    <2>1. \A cell \in Cells : Added(room, r)[cell] = room[cell]
        BY <1>1, <1>5 DEF Added, Least, Beyond
    <2>2. Cells \in SUBSET Cells
        OBVIOUS
    <2>3. used = TotalOf(room, Cells)
        BY <2>1, <2>2, TotalSame
    <2>4. Cardinality(M) = 0
        BY <1>5, FS_EmptySet
    <2> HIDE DEF used, M
    <2>5. QED BY <1>2, <1>3, <2>3, <2>4 DEF used, M
<1>6. CASE r = deficit /\ M # {}
    <2> DEFINE a == Added(room, r)
    <2>1. PICK x \in M : TRUE
        BY <1>6
    <2> DEFINE S == Cells \ {x}
    <2>2. x \in Cells /\ S \in SUBSET Cells /\ x \notin S /\ Cells = S \cup {x}
        BY <1>2
    <2>3. a[x] = r
        BY <1>1, <2>1, <2>2 DEF Added, Least, Beyond
    <2>4. a \in [Cells -> Nat] /\ used = TotalOf(a, Cells)
        BY <1>2
    <2> HIDE DEF a, S, M, used
    <2>5. TotalOf(a, S \cup {x}) = TotalOf(a, S) + a[x] /\ TotalOf(a, S) \in Nat
        BY <2>2, <2>4, TotalMore, TotalType
    <2>6. used >= r
        BY <1>1, <2>2, <2>3, <2>4, <2>5
    <2>7. QED BY <1>2, <1>3, <1>6, <2>6 DEF used, M
<1>7. QED BY <1>4, <1>5, <1>6 DEF LastRound

\* Different cells have different places.
LEMMA PlacesDiffer ==
    ASSUME NEW c \in Cells, NEW d \in Cells
    PROVE  Place(c) \in Int /\ (Place(c) = Place(d) => c = d)
<1>1. NTones \in Nat \ {0} /\ NWorlds \in Nat \ {0}
    BY CellsFinite
<1>2. /\ c = <<c[1], c[2]>> /\ c[1] \in Nat /\ c[2] \in 1 .. NTones
      /\ d = <<d[1], d[2]>> /\ d[1] \in Nat /\ d[2] \in 1 .. NTones
    BY <1>1 DEF Cells, Worlds, Tones
<1> DEFINE a == c[1]
           b == d[1]
           s == c[2]
           t == d[2]
<1>3. a \in Nat /\ b \in Nat /\ s \in 1 .. NTones /\ t \in 1 .. NTones
    BY <1>2
<1>4. Place(c) = (a - 1) * NTones + s /\ Place(d) = (b - 1) * NTones + t
    BY DEF Place
<1> HIDE DEF a, b, s, t
<1>5. ASSUME NEW m \in Nat, NEW n \in Nat, NEW u \in 1 .. NTones, NEW v \in 1 .. NTones, m < n
      PROVE  (m - 1) * NTones + u < (n - 1) * NTones + v
    <2> DEFINE k == n - m - 1
    <2>1. k \in Nat /\ n = m + 1 + k
        BY <1>5
    <2> HIDE DEF k
    <2>2. (n - 1) * NTones = (m - 1) * NTones + NTones + k * NTones
        BY <1>1, <2>1, SMTT(30)
    <2>3. k * NTones \in Nat /\ (m - 1) * NTones \in Int
        BY <1>1, <2>1, SMTT(30)
    <2>4. QED BY <1>1, <2>2, <2>3
<1>6. (a - 1) * NTones \in Int
    BY <1>1, <1>3
<1>7. Place(c) \in Int
    BY <1>3, <1>4, <1>6
<1>8. ASSUME Place(c) = Place(d) PROVE c = d
    <2>1. ~ (a < b)
        BY <1>3, <1>4, <1>5, <1>7, <1>8
    <2>2. ~ (b < a)
        BY <1>3, <1>4, <1>5, <1>7, <1>8
    <2>3. a = b
        BY <1>3, <2>1, <2>2
    <2>4. s = t
        BY <1>3, <1>4, <1>6, <1>8, <2>3
    <2>5. QED BY <1>2, <2>3, <2>4 DEF a, b, s, t
<1>9. QED BY <1>7, <1>8

\* Things with different numbers have different turns, in the order of the numbers.
LEMMA TurnsBiject ==
    ASSUME NEW M, IsFiniteSet(M), NEW key \in [M -> Int], OneToOne(key, M)
    PROVE  \E turn \in [M -> 1 .. Cardinality(M)] :
             /\ turn = [x \in M |-> Cardinality({y \in M : key[y] <= key[x]})]
             /\ OneToOne(turn, M) /\ Reaches(turn, M, 1 .. Cardinality(M))
<1> DEFINE n == Cardinality(M)
           upto(x) == {y \in M : key[y] <= key[x]}
           turn == [x \in M |-> Cardinality(upto(x))]
<1>1. n \in Nat
    BY FS_CardinalityType
<1>2. ASSUME NEW x \in M
      PROVE  /\ upto(x) \in SUBSET M /\ x \in upto(x) /\ IsFiniteSet(upto(x))
             /\ Cardinality(upto(x)) \in 1 .. n
    <2>1. upto(x) \in SUBSET M /\ x \in upto(x)
        OBVIOUS
    <2> HIDE DEF upto
    <2>2. IsFiniteSet(upto(x)) /\ Cardinality(upto(x)) <= n /\ Cardinality(upto(x)) \in Nat
        BY <2>1, FS_Subset, FS_CardinalityType
    <2>3. Cardinality(upto(x)) # 0
        BY <2>1, <2>2, FS_EmptySet
    <2>4. QED BY <1>1, <2>1, <2>2, <2>3
<1>3. ASSUME NEW x \in M, NEW y \in M, key[x] < key[y]
      PROVE  Cardinality(upto(x)) < Cardinality(upto(y))
    <2>1. upto(x) \in SUBSET upto(y) /\ y \in upto(y) /\ y \notin upto(x)
        BY <1>3
    <2> HIDE DEF upto
    <2>2. IsFiniteSet(upto(y)) /\ Cardinality(upto(x)) \in Nat /\ Cardinality(upto(y)) \in Nat
        BY <1>1, <1>2
    <2>3. /\ Cardinality(upto(x)) <= Cardinality(upto(y))
          /\ Cardinality(upto(x)) # Cardinality(upto(y))
        BY <2>1, <2>2, FS_Subset
    <2>4. QED BY <2>2, <2>3
<1> HIDE DEF upto
<1>4. ASSUME NEW x \in M, NEW y \in M, Cardinality(upto(x)) = Cardinality(upto(y)) PROVE x = y
    <2>1. ~ (key[x] < key[y]) /\ ~ (key[y] < key[x])
        BY <1>1, <1>2, <1>3, <1>4
    <2>2. key[x] = key[y]
        BY <2>1
    <2>3. QED BY <2>2 DEF OneToOne
<1>5. turn \in [M -> 1 .. n] /\ OneToOne(turn, M)
    BY <1>2, <1>4 DEF OneToOne
<1>6. IsFiniteSet(1 .. n) /\ Cardinality(M) = Cardinality(1 .. n)
    BY <1>1, FirstNumbers
<1>7. Reaches(turn, M, 1 .. n)
    <2> HIDE DEF turn
    <2>1. QED BY <1>5, <1>6, IntoCounts
<1>8. turn = [x \in M |-> Cardinality({y \in M : key[y] <= key[x]})]
    BY DEF upto
<1> HIDE DEF turn
<1>9. QED BY <1>5, <1>7, <1>8

\* The first m of the cells in M, in their order, are m cells.
LEMMA TurnsCount ==
    ASSUME NEW M \in SUBSET Cells, NEW m \in 0 .. Cardinality(M)
    PROVE  Cardinality({cell \in M : Cardinality({c \in M : Place(c) <= Place(cell)}) <= m}) = m
<1> DEFINE n == Cardinality(M)
           key == [cell \in M |-> Place(cell)]
           upto(cell) == {c \in M : Place(c) <= Place(cell)}
           turn == [cell \in M |-> Cardinality(upto(cell))]
           F == {cell \in M : Cardinality(upto(cell)) <= m}
           part == [cell \in F |-> turn[cell]]
<1>1. IsFiniteSet(M) /\ n \in Nat
    BY CellsFinite, FS_Subset, FS_CardinalityType
<1>2. \A c, d \in M : Place(c) \in Int /\ (Place(c) = Place(d) => c = d)
    BY PlacesDiffer
<1>3. key \in [M -> Int] /\ OneToOne(key, M)
    BY <1>2 DEF OneToOne
<1>4. turn = [x \in M |-> Cardinality({y \in M : key[y] <= key[x]})]
    <2>1. \A x \in M : upto(x) = {y \in M : key[y] <= key[x]}
        OBVIOUS
    <2>2. QED BY <2>1
<1>5. turn \in [M -> 1 .. n] /\ OneToOne(turn, M) /\ Reaches(turn, M, 1 .. n)
    <2> HIDE DEF key, turn
    <2>1. \E t \in [M -> 1 .. n] :
            /\ t = [x \in M |-> Cardinality({y \in M : key[y] <= key[x]})]
            /\ OneToOne(t, M) /\ Reaches(t, M, 1 .. n)
        BY <1>1, <1>3, TurnsBiject
    <2>2. QED BY <1>4, <2>1
<1>6. /\ \A cell \in M : Cardinality(upto(cell)) \in 1 .. n
      /\ \A a, b \in M : Cardinality(upto(a)) = Cardinality(upto(b)) => a = b
      /\ \A k \in 1 .. n : \E cell \in M : Cardinality(upto(cell)) = k
    <2>1. \A x \in M : turn[x] = Cardinality(upto(x))
        OBVIOUS
    <2> HIDE DEF turn, upto
    <2>2. QED BY <1>5, <2>1 DEF OneToOne, Reaches
<1> HIDE DEF upto
<1>7. m \in Nat /\ m <= n /\ 1 .. m \subseteq 1 .. n
    BY <1>1
<1>8. part \in [F -> 1 .. m] /\ OneToOne(part, F) /\ Reaches(part, F, 1 .. m)
    <2>1. \A cell \in F : part[cell] = Cardinality(upto(cell)) /\ cell \in M
        OBVIOUS
    <2>2. part \in [F -> 1 .. m]
        BY <1>6, <1>7, <2>1
    <2>3. \A c, d \in F : part[c] = part[d] => c = d
        BY <1>6, <2>1
    <2>4. \A k \in 1 .. m : \E cell \in F : part[cell] = k
        <3> SUFFICES ASSUME NEW k \in 1 .. m PROVE \E cell \in F : part[cell] = k
            OBVIOUS
        <3>1. PICK cell \in M : Cardinality(upto(cell)) = k
            BY <1>6, <1>7
        <3>2. cell \in F
            BY <1>7, <3>1
        <3>3. QED BY <2>1, <3>1, <3>2
    <2> HIDE DEF part, F
    <2>5. QED BY <2>2, <2>3, <2>4 DEF OneToOne, Reaches
<1>9. IsFiniteSet(F)
    BY <1>1, FS_Subset
<1>10. IsFiniteSet(1 .. m) /\ Cardinality(1 .. m) = m
    BY <1>7, FirstNumbers
<1>11. Cardinality(1 .. m) = Cardinality(F)
    <2> HIDE DEF part, F
    <2>1. QED BY <1>8, <1>9, OntoCounts
<1>12. QED BY <1>10, <1>11 DEF upto

\* What is still missing is given, and nothing more.
LEMMA FilledExact ==
    ASSUME NEW desired \in Nat, NEW avail \in [Cells -> Nat], NEW q, Within(q, avail),
           TotalOf(q, Cells) <= desired, Enough(desired, avail)
    PROVE  /\ Within(Filled(desired, avail, q), avail)
           /\ TotalOf(Filled(desired, avail, q), Cells) = desired
           /\ \A cell \in Cells : q[cell] <= Filled(desired, avail, q)[cell]
<1> DEFINE deficit == Clamp(desired - TotalOf(q, Cells), desired)
           Given(r) == [cell \in Cells |-> q[cell] + Least(r, avail[cell] - q[cell])]
           Used(r) == TotalOf(Given(r), Cells) - TotalOf(q, Cells)
           rounds == CHOOSE r \in 0 .. deficit :
                       Used(r) <= deficit /\ (r = deficit \/ Used(r + 1) > deficit)
           more == {cell \in Cells : avail[cell] - q[cell] > rounds}
           Turn(cell) == Cardinality({c \in more : Place(c) <= Place(cell)})
           f == Filled(desired, avail, q)
           room == [cell \in Cells |-> avail[cell] - q[cell]]
<1>1. f = [cell \in Cells |->
             Given(rounds)[cell]
               + (IF cell \in more /\ Turn(cell) <= deficit - Used(rounds) THEN 1 ELSE 0)]
    BY DEF Filled
<1> HIDE DEF f
<1>2. /\ q \in [Cells -> Nat] /\ \A cell \in Cells : q[cell] <= avail[cell]
      /\ Cells \in SUBSET Cells
    BY DEF Within
<1>3. TotalOf(q, Cells) \in Nat
    BY <1>2, TotalType
<1>4. deficit \in Nat /\ deficit = desired - TotalOf(q, Cells)
    BY <1>3 DEF Clamp, Least
<1>5. room \in [Cells -> Nat] /\ \A cell \in Cells : avail[cell] = q[cell] + room[cell]
    BY <1>2
<1>6. TotalOf(room, Cells) >= deficit
    <2> HIDE DEF room, deficit
    <2>1. TotalOf(avail, Cells) = TotalOf(q, Cells) + TotalOf(room, Cells)
        BY <1>2, <1>5, TotalPlus
    <2>2. TotalOf(room, Cells) \in Nat
        BY <1>2, <1>5, TotalType
    <2>3. TotalOf(avail, Cells) >= desired
        BY DEF Enough
    <2>4. QED BY <1>3, <1>4, <2>1, <2>2, <2>3
<1>7. ASSUME NEW r \in Nat
      PROVE  Given(r) \in [Cells -> Nat] /\ Used(r) = TotalOf(Added(room, r), Cells)
    <2> DEFINE a == Added(room, r)
               g == Given(r)
    <2>1. a \in [Cells -> Nat] /\ TotalOf(a, Cells) \in Nat
        BY <1>5, RoundAdds
    <2>2. \A cell \in Cells : g[cell] = q[cell] + a[cell]
        BY DEF Added
    <2>3. g \in [Cells -> Nat]
        BY <1>2, <2>1, <2>2
    <2> HIDE DEF a, g
    <2>4. TotalOf(g, Cells) = TotalOf(q, Cells) + TotalOf(a, Cells)
        BY <1>2, <2>1, <2>2, <2>3, TotalPlus
    <2>5. TotalOf(g, Cells) - TotalOf(q, Cells) = TotalOf(a, Cells)
        BY <1>3, <2>1, <2>4
    <2>6. QED BY <2>3, <2>5 DEF a, g
<1> HIDE DEF Used, deficit
<1>8. \A r \in 0 .. deficit :
          LastRound(room, deficit, r) <=> Used(r) <= deficit /\ (r = deficit \/ Used(r + 1) > deficit)
    <2> HIDE DEF Given, room
    <2>1. \A r \in 0 .. deficit : r \in Nat /\ r + 1 \in Nat
        BY <1>4
    <2>2. QED BY <1>7, <2>1 DEF LastRound
<1>9. rounds \in 0 .. deficit /\ LastRound(room, deficit, rounds)
    <2>1. \E r \in 0 .. deficit : LastRound(room, deficit, r)
        <3> HIDE DEF room
        <3>1. QED BY <1>4, <1>5, RoundsExist
    <2>2. \E r \in 0 .. deficit : Used(r) <= deficit /\ (r = deficit \/ Used(r + 1) > deficit)
        BY <1>8, <2>1
    <2>3. /\ rounds \in 0 .. deficit
          /\ Used(rounds) <= deficit /\ (rounds = deficit \/ Used(rounds + 1) > deficit)
        BY <2>2
    <2> HIDE DEF rounds, room
    <2>4. QED BY <1>8, <2>3
<1> HIDE DEF rounds
<1>10. more = Beyond(room, rounds)
    BY DEF Beyond
<1> HIDE DEF more, room
<1>11. rounds \in Nat
    BY <1>4, <1>9
<1>12. deficit - Used(rounds) \in 0 .. Cardinality(more)
    <2>1. deficit - TotalOf(Added(room, rounds), Cells) \in 0 .. Cardinality(Beyond(room, rounds))
        BY <1>4, <1>5, <1>6, <1>9, RoundsEnough
    <2> HIDE DEF Given
    <2>2. Used(rounds) = TotalOf(Added(room, rounds), Cells)
        BY <1>7, <1>11
    <2>3. QED BY <1>10, <2>1, <2>2
<1> DEFINE left == deficit - Used(rounds)
           F == {cell \in more : Turn(cell) <= left}
           one == [cell \in Cells |-> IF cell \in F THEN 1 ELSE 0]
<1>13. more \in SUBSET Cells
    BY <1>5, <1>10, <1>11, RoundAdds
<1>14. Cardinality(F) = left
    <2> HIDE DEF left
    <2>1. QED BY <1>12, <1>13, TurnsCount DEF left
<1> HIDE DEF Turn
<1>15. \A cell \in Cells : one[cell] = IF cell \in more /\ Turn(cell) <= left THEN 1 ELSE 0
    OBVIOUS
<1>16. F \in SUBSET Cells
    BY <1>13
<1>17. one \in [Cells -> Nat] /\ TotalOf(one, Cells) = left
    <2> HIDE DEF F, left
    <2>1. F \cap Cells = F
        BY <1>16
    <2>2. QED BY <1>2, <1>14, <1>16, <2>1, TotalOnes
<1> DEFINE g == Given(rounds)
<1>18. g \in [Cells -> Nat] /\ Used(rounds) = TotalOf(g, Cells) - TotalOf(q, Cells)
    BY <1>7, <1>11 DEF Used
<1>19. \A cell \in Cells : f[cell] = g[cell] + one[cell]
    <2> HIDE DEF one, g, left
    <2>1. QED BY <1>1, <1>15 DEF g, left
<1>20. \A cell \in Cells : g[cell] = q[cell] + Least(rounds, room[cell])
    BY DEF room
<1>21. \A cell \in Cells : cell \in F => room[cell] > rounds
    BY <1>10 DEF Beyond
<1> HIDE DEF g, F, left
<1>22. ASSUME NEW cell \in Cells
       PROVE  f[cell] \in Nat /\ f[cell] <= avail[cell] /\ q[cell] <= f[cell]
    <2>1. q[cell] \in Nat /\ room[cell] \in Nat /\ avail[cell] = q[cell] + room[cell]
        BY <1>2, <1>5
    <2>2. one[cell] \in {0, 1} /\ (one[cell] = 1 => room[cell] > rounds)
        BY <1>21
    <2>3. f[cell] = q[cell] + Least(rounds, room[cell]) + one[cell]
        BY <1>19, <1>20
    <2> HIDE DEF one
    <2>4. Least(rounds, room[cell]) + one[cell] \in 0 .. room[cell]
        BY <1>11, <2>1, <2>2 DEF Least
    <2>5. QED BY <1>11, <2>1, <2>2, <2>3, <2>4 DEF Least
<1> HIDE DEF one
<1>23. f \in [Cells -> Nat]
    <2>1. f = [cell \in Cells |-> f[cell]]
        BY <1>1
    <2>2. QED BY <1>22, <2>1
<1>24. TotalOf(f, Cells) = desired
    <2>1. TotalOf(f, Cells) = TotalOf(g, Cells) + TotalOf(one, Cells)
        BY <1>2, <1>17, <1>18, <1>19, <1>23, TotalPlus
    <2>2. TotalOf(g, Cells) \in Nat
        BY <1>2, <1>18, TotalType
    <2>3. left = deficit - Used(rounds)
        BY DEF left
    <2>4. QED BY <1>3, <1>4, <1>17, <1>18, <2>1, <2>2, <2>3
<1>25. QED BY <1>22, <1>23, <1>24 DEF Within, f

\* compute_quotas() asks for as many stories as are wanted, of no cell for more
\* than it has, and of no world for less than its share while it has more.
THEOREM QuotasExact ==
    ASSUME NEW desired \in Nat, NEW avail \in [Cells -> Nat], Enough(desired, avail)
    PROVE  /\ Within(Quotas(desired, avail), avail)
           /\ TotalOf(Quotas(desired, avail), Cells) = desired
           /\ \A w \in Worlds :
                TotalOf(Quotas(desired, avail), OfWorld(w))
                  >= Least(Share(desired, NWorlds, w), TotalOf(avail, OfWorld(w)))
<1> DEFINE p == Equal(desired, avail)
           q == ToMarginals(desired, avail, p)
           f == Filled(desired, avail, q)
<1>1. Within(p, avail)
    BY EqualWithin
<1> HIDE DEF p
<1>2. /\ Within(q, avail)
      /\ \A w \in Worlds :
           TotalOf(q, OfWorld(w)) = Least(Share(desired, NWorlds, w), TotalOf(avail, OfWorld(w)))
    BY <1>1, MarginalsReached
<1> HIDE DEF q
<1>3. q \in [Cells -> Nat]
    BY <1>2 DEF Within
<1>4. ASSUME NEW w \in Worlds
      PROVE  /\ OfWorld(w) \in SUBSET Cells /\ TotalOf(q, OfWorld(w)) \in Nat
             /\ TotalOf(q, OfWorld(w)) <= Share(desired, NWorlds, w)
    <2>1. OfWorld(w) \in SUBSET Cells /\ NWorlds \in Nat \ {0} /\ w \in Int
        BY CellsFinite DEF Worlds
    <2>2. /\ Share(desired, NWorlds, w) \in Nat
          /\ TotalOf(q, OfWorld(w)) \in Nat /\ TotalOf(avail, OfWorld(w)) \in Nat
        BY <1>3, <2>1, ShareType, TotalType
    <2>3. QED BY <1>2, <2>1, <2>2 DEF Least
<1>5. TotalOf(q, Cells) <= desired
    BY <1>3, <1>4, SharesFit
<1>6. /\ Within(f, avail) /\ TotalOf(f, Cells) = desired
      /\ \A cell \in Cells : q[cell] <= f[cell]
    BY <1>2, <1>5, FilledExact
<1> HIDE DEF f
<1>7. f \in [Cells -> Nat]
    BY <1>6 DEF Within
<1>8. ASSUME NEW w \in Worlds
      PROVE  TotalOf(f, OfWorld(w)) >= Least(Share(desired, NWorlds, w), TotalOf(avail, OfWorld(w)))
    <2>1. TotalOf(q, OfWorld(w)) <= TotalOf(f, OfWorld(w))
        BY <1>3, <1>4, <1>6, <1>7, TotalLess
    <2>2. TotalOf(f, OfWorld(w)) \in Nat
        BY <1>4, <1>7, TotalType
    <2>3. QED BY <1>2, <1>4, <2>1, <2>2
<1>9. Quotas(desired, avail) = f
    BY DEF Quotas, f, q, p
<1>10. QED BY <1>6, <1>8, <1>9
-----------------------------------------------------------------------------
(* The rows that are kept.                                                 *)

Bucket(rows, part, cell) == {row \in rows : row.partition = part /\ row.cell = cell}

\* A heap gives up b before a.
Ahead(a, b) == a.rank < b.rank \/ (a.rank = b.rank /\ b.copy < a.copy)

\* Rows that differ in their rank or their copy.
Told(rows) ==
  /\ IsFiniteSet(rows)
  /\ \A row \in rows : row.rank \in Nat /\ row.copy \in Nat
  /\ \A a, b \in rows : a.rank = b.rank /\ a.copy = b.copy => a = b

\* Of two rows one is ahead, and what is ahead of it is ahead of both.
LEMMA AheadOrders ==
    ASSUME NEW rows, Told(rows), NEW a \in rows, NEW b \in rows
    PROVE  /\ a # b => Ahead(a, b) \/ Ahead(b, a)
           /\ \A c \in rows : Ahead(c, a) /\ Ahead(a, b) => Ahead(c, b)
           /\ Ahead(a, b) => a.rank <= b.rank /\ a # b
BY DEF Told, Ahead

\* A heap has a last row, which is the one it gives up.
LEMMA LargestIsLast ==
    ASSUME NEW heap, Told(heap), heap # {}
    PROVE  Largest(heap) \in heap /\ \A row \in heap \ {Largest(heap)} : Ahead(row, Largest(heap))
<1> DEFINE Last(s) == \E row \in s : \A other \in s \ {row} : Ahead(other, row)
           Bad == {s \in SUBSET heap : s # {} /\ ~ Last(s)}
<1>1. IsFiniteSet(heap) /\ Bad \in SUBSET (SUBSET heap)
    BY DEF Told
<1>2. ASSUME NEW s \in Bad, \A x \in s : s \ {x} \notin Bad PROVE FALSE
    <2>1. s \in SUBSET heap /\ s # {} /\ ~ Last(s)
        OBVIOUS
    <2>2. PICK x \in s : TRUE
        BY <2>1
    <2>3. CASE s \ {x} = {}
        <3>1. \A other \in s \ {x} : Ahead(other, x)
            BY <2>3
        <3>2. QED BY <2>1, <3>1
    <2>4. CASE s \ {x} # {}
        <3>1. Last(s \ {x})
            BY <1>2, <2>1, <2>4
        <3>2. PICK l \in s \ {x} : \A other \in (s \ {x}) \ {l} : Ahead(other, l)
            BY <3>1
        <3> HIDE DEF Bad, Last
        <3>3. l \in heap /\ x \in heap /\ l # x
            BY <2>1, <3>2
        <3>4. Ahead(l, x) \/ Ahead(x, l)
            BY <3>3, AheadOrders
        <3>5. CASE Ahead(x, l)
            <4>1. \A other \in s \ {l} : Ahead(other, l)
                BY <3>2, <3>5
            <4>2. QED BY <2>1, <3>2, <4>1 DEF Last
        <3>6. CASE Ahead(l, x)
            <4>1. ASSUME NEW other \in s \ {x} PROVE Ahead(other, x)
                <5>1. CASE other = l
                    BY <3>6, <5>1
                <5>2. CASE other # l
                    <6>1. Ahead(other, l) /\ other \in heap
                        BY <2>1, <3>2, <5>2
                    <6>2. QED BY <3>3, <3>6, <6>1, AheadOrders
                <5>3. QED BY <5>1, <5>2
            <4>2. QED BY <2>1, <4>1 DEF Last
        <3>7. QED BY <3>4, <3>5, <3>6
    <2>5. QED BY <2>3, <2>4
<1> HIDE DEF Bad
<1>3. Bad = {}
    BY <1>1, <1>2, SmallestSubset
<1>4. \E row \in heap : \A other \in heap \ {row} : Ahead(other, row)
    BY <1>3 DEF Bad
<1>5. Largest(heap) = CHOOSE row \in heap : \A other \in heap \ {row} : Ahead(other, row)
    BY DEF Largest, Ahead
<1>6. QED BY <1>4, <1>5

\* What is kept of the rows of a cell that have been read: as many of the first
\* of them as its quota.
HeapExact(held, read, quota) ==
  /\ held \subseteq read
  /\ Cardinality(held) = Least(quota, Cardinality(read))
  /\ \A a \in held, b \in read \ held : Ahead(a, b)

\* A row is pushed, and what is too much is given up.
LEMMA PushIsExact ==
    ASSUME NEW rows, Told(rows), NEW read \in SUBSET rows, NEW row \in rows, row \notin read,
           NEW held, NEW quota \in Nat \ {0}, HeapExact(held, read, quota)
    PROVE  HeapExact(Pushed(held, row, quota), read \cup {row}, quota)
<1> DEFINE pushed == held \cup {row}
           next == read \cup {row}
           last == Largest(pushed)
           rest == pushed \ {last}
<1>1. /\ held \subseteq read /\ Cardinality(held) = Least(quota, Cardinality(read))
      /\ \A a \in held, b \in read \ held : Ahead(a, b)
    BY DEF HeapExact
<1>2. IsFiniteSet(rows)
    BY DEF Told
<1>3. /\ IsFiniteSet(read) /\ Cardinality(read) \in Nat
      /\ IsFiniteSet(held) /\ Cardinality(held) \in Nat
    BY <1>1, <1>2, FS_Subset, FS_CardinalityType
<1>4. /\ IsFiniteSet(pushed) /\ Cardinality(pushed) = Cardinality(held) + 1
      /\ IsFiniteSet(next) /\ Cardinality(next) = Cardinality(read) + 1
    BY <1>1, <1>3, FS_AddElement
<1>5. pushed \subseteq next /\ pushed # {} /\ pushed \in SUBSET rows
    BY <1>1
<1>6. CASE Cardinality(pushed) > quota
    <2>1. Pushed(held, row, quota) = rest
        BY <1>6 DEF Pushed
    <2>2. Told(pushed)
        <3> HIDE DEF pushed
        <3>1. QED BY <1>4, <1>5 DEF Told
    <2>3. last \in pushed /\ \A other \in pushed \ {last} : Ahead(other, last)
        <3> HIDE DEF pushed
        <3>1. QED BY <1>5, <2>2, LargestIsLast
    <2> HIDE DEF last
    <2>4. Cardinality(rest) = Cardinality(pushed) - 1
        <3> HIDE DEF pushed
        <3>1. QED BY <1>4, <2>3, FS_RemoveElement
    <2>5. Cardinality(rest) = Least(quota, Cardinality(next))
        BY <1>1, <1>3, <1>4, <1>6, <2>4 DEF Least
    <2>6. ASSUME NEW a \in rest, NEW b \in next \ rest PROVE Ahead(a, b)
        <3>1. a \in pushed /\ a # last /\ Ahead(a, last)
            BY <2>3
        <3>2. CASE b = last
            BY <3>1, <3>2
        <3>3. CASE b # last
            <4>1. b \in read \ held /\ b # row
                BY <3>3
            <4>2. CASE a \in held
                BY <1>1, <4>1, <4>2
            <4>3. CASE a = row
                <5>1. last \in held
                    BY <2>3, <3>1, <4>3
                <5>2. Ahead(last, b) /\ Ahead(a, last)
                    BY <1>1, <3>1, <4>1, <5>1
                <5>3. a \in rows /\ b \in rows /\ last \in rows
                    BY <1>1, <4>1, <4>3, <5>1
                <5> HIDE DEF rest, next, pushed
                <5>4. QED BY <5>2, <5>3, AheadOrders
            <4>4. QED BY <3>1, <4>2, <4>3
        <3>4. QED BY <3>2, <3>3
    <2>7. rest \subseteq next
        BY <1>5
    <2> HIDE DEF rest, next
    <2>8. HeapExact(rest, next, quota)
        BY <2>5, <2>6, <2>7 DEF HeapExact
    <2>9. QED BY <2>1, <2>8 DEF next
<1>7. CASE ~ (Cardinality(pushed) > quota)
    <2>1. Pushed(held, row, quota) = pushed
        BY <1>7 DEF Pushed
    <2>2. Cardinality(held) = Cardinality(read)
        <3> HIDE DEF pushed, next
        <3>1. QED BY <1>1, <1>3, <1>4, <1>7 DEF Least
    <2>3. held = read
        BY <1>1, <1>3, <2>2, FS_Subset
    <2>4. pushed = next
        BY <2>3
    <2>5. Cardinality(pushed) = Least(quota, Cardinality(next))
        <3> HIDE DEF pushed, next
        <3>1. QED BY <1>3, <1>4, <1>7, <2>4 DEF Least
    <2> HIDE DEF pushed, next
    <2>6. HeapExact(pushed, next, quota)
        BY <2>4, <2>5 DEF HeapExact
    <2>7. QED BY <2>1, <2>6 DEF next
<1>8. QED BY <1>6, <1>7

\* Nothing is kept where the quota is nothing.
LEMMA NothingKept ==
    ASSUME NEW read, IsFiniteSet(read), NEW held
    PROVE  HeapExact(held, read, 0) <=> held = {}
<1>1. Cardinality(read) \in Nat /\ Cardinality({}) = 0
    BY FS_CardinalityType, FS_EmptySet
<1>2. Least(0, Cardinality(read)) = 0
    BY <1>1 DEF Least
<1>3. ASSUME HeapExact(held, read, 0) PROVE held = {}
    <2>1. held \subseteq read /\ Cardinality(held) = 0
        BY <1>2, <1>3 DEF HeapExact
    <2>2. QED BY <2>1, FS_Subset, FS_EmptySet
<1>4. ASSUME held = {} PROVE HeapExact(held, read, 0)
    BY <1>1, <1>2, <1>4 DEF HeapExact
<1>5. QED BY <1>3, <1>4

\* Rows of different ranks are put in the order of the ranks, each once.
LEMMA RanksOrder ==
    ASSUME NEW rows, IsFiniteSet(rows), \A row \in rows : row.rank \in Nat,
           \A a, b \in rows : a.rank = b.rank => a = b
    PROVE  /\ Range(ByRank(rows)) = rows /\ Len(ByRank(rows)) = Cardinality(rows)
           /\ \A i, j \in 1 .. Cardinality(rows) : i < j => ByRank(rows)[i].rank < ByRank(rows)[j].rank
<1> DEFINE n == Cardinality(rows)
           key == [row \in rows |-> row.rank]
           upto(row) == Cardinality({other \in rows : other.rank <= row.rank})
           turn == [row \in rows |-> upto(row)]
           s == ByRank(rows)
<1>1. n \in Nat
    BY FS_CardinalityType
<1>2. key \in [rows -> Int] /\ OneToOne(key, rows)
    BY DEF OneToOne
<1>3. \A x \in rows : upto(x) = Cardinality({y \in rows : key[y] <= key[x]})
    <2>1. \A x \in rows : {other \in rows : other.rank <= x.rank} = {y \in rows : key[y] <= key[x]}
        OBVIOUS
    <2>2. QED BY <2>1
<1>4. turn = [x \in rows |-> Cardinality({y \in rows : key[y] <= key[x]})]
    <2> HIDE DEF upto
    <2>1. QED BY <1>3
<1>5. turn \in [rows -> 1 .. n] /\ OneToOne(turn, rows) /\ Reaches(turn, rows, 1 .. n)
    <2> HIDE DEF key, turn
    <2>1. \E t \in [rows -> 1 .. n] :
            /\ t = [x \in rows |-> Cardinality({y \in rows : key[y] <= key[x]})]
            /\ OneToOne(t, rows) /\ Reaches(t, rows, 1 .. n)
        BY <1>2, TurnsBiject
    <2>2. QED BY <1>4, <2>1
<1>6. /\ \A row \in rows : upto(row) \in 1 .. n
      /\ \A a, b \in rows : upto(a) = upto(b) => a = b
      /\ \A k \in 1 .. n : \E row \in rows : upto(row) = k
    <2>1. \A x \in rows : turn[x] = upto(x)
        OBVIOUS
    <2> HIDE DEF turn, upto
    <2>2. QED BY <1>5, <2>1 DEF OneToOne, Reaches
<1>7. ASSUME NEW x \in rows, NEW y \in rows, x.rank < y.rank PROVE upto(x) < upto(y)
    <2> DEFINE P == {other \in rows : other.rank <= x.rank}
               Q == {other \in rows : other.rank <= y.rank}
    <2>1. \A other \in rows : other.rank \in Nat
        OBVIOUS
    <2>2. P \in SUBSET Q /\ Q \in SUBSET rows /\ y \in Q /\ y \notin P
        BY <1>7, <2>1
    <2> HIDE DEF P, Q
    <2>3. IsFiniteSet(Q) /\ IsFiniteSet(P)
        BY <2>2, FS_Subset
    <2>4. Cardinality(P) \in Nat /\ Cardinality(Q) \in Nat
        BY <2>3, FS_CardinalityType
    <2>5. Cardinality(P) <= Cardinality(Q) /\ Cardinality(P) # Cardinality(Q)
        BY <2>2, <2>3, FS_Subset
    <2>6. Cardinality(P) < Cardinality(Q)
        BY <2>4, <2>5
    <2>7. QED BY <2>6 DEF P, Q
<1>8. s = [i \in 1 .. n |-> CHOOSE row \in rows : upto(row) = i]
    BY DEF ByRank
<1> HIDE DEF upto, s
<1>9. \A i \in 1 .. n : s[i] \in rows /\ upto(s[i]) = i
    BY <1>6, <1>8
<1>10. DOMAIN s = 1 .. n /\ Len(s) = n
    BY <1>1, <1>8
<1>11. Range(s) = rows
    <2>1. \A row \in rows : s[upto(row)] = row
        BY <1>6, <1>9
    <2>2. QED BY <1>6, <1>9, <1>10, <2>1 DEF Range
<1>12. ASSUME NEW i \in 1 .. n, NEW j \in 1 .. n, i < j PROVE s[i].rank < s[j].rank
    <2>1. s[i] \in rows /\ s[j] \in rows /\ upto(s[i]) = i /\ upto(s[j]) = j
        BY <1>9
    <2> DEFINE a == s[i]
               b == s[j]
    <2> HIDE DEF a, b
    <2>2. a \in rows /\ b \in rows /\ upto(a) = i /\ upto(b) = j
        BY <2>1 DEF a, b
    <2>3. ~ (b.rank < a.rank)
        BY <1>7, <1>12, <2>2
    <2>4. a.rank # b.rank
        BY <1>12, <2>2
    <2>5. a.rank \in Nat /\ b.rank \in Nat
        BY <2>2
    <2>6. a.rank < b.rank
        BY <2>3, <2>4, <2>5
    <2>7. QED BY <2>6 DEF a, b
<1>13. QED BY <1>10, <1>11, <1>12 DEF s

-----------------------------------------------------------------------------
(* The selection.                                                          *)

\* What is assumed of the rows of a source.
LEMMA SourceRows ==
    ASSUME NEW rows \in Sources
    PROVE  /\ Told(rows) /\ IsFiniteSet(rows)
           /\ \A row \in rows : row.partition \in Partitions /\ row.cell \in Cells \cup {NoCell}
           /\ \A a, b \in rows : a.id = b.id <=> a.rank = b.rank
<1>1. /\ IsFiniteSet(rows)
      /\ \A row \in rows :
            /\ row.partition \in Partitions /\ row.cell \in Cells \cup {NoCell}
            /\ row.rank \in Nat /\ row.copy \in Nat
      /\ \A a, b \in rows :
            /\ a.id = b.id <=> a.rank = b.rank
            /\ a.id = b.id /\ a.copy = b.copy => a = b
    BY StoryAssumption
<1>2. QED BY <1>1 DEF Told

\* A source is counted cell by cell.
LEMMA CountsOfSource ==
    ASSUME NEW rows \in Sources, NEW part \in Partitions
    PROVE  /\ Counts(rows, part) \in [Cells -> Nat]
           /\ \A cell \in Cells :
                /\ IsFiniteSet(Bucket(rows, part, cell))
                /\ Counts(rows, part)[cell] = Cardinality(Bucket(rows, part, cell))
           /\ \A S \in SUBSET Cells :
                TotalOf(Counts(rows, part), S)
                  = Cardinality({row \in rows : row.partition = part /\ row.cell \in S})
<1> DEFINE avail == Counts(rows, part)
           R == {row \in rows : row.partition = part /\ row.cell \in Cells}
           key == [row \in R |-> row.cell]
<1>1. IsFiniteSet(rows)
    BY SourceRows
<1>2. \A cell \in Cells :
         /\ IsFiniteSet(Bucket(rows, part, cell)) /\ Cardinality(Bucket(rows, part, cell)) \in Nat
         /\ avail[cell] = Cardinality(Bucket(rows, part, cell))
    <2> TAKE cell \in Cells
    <2>1. Bucket(rows, part, cell) \in SUBSET rows
        BY DEF Bucket
    <2>2. IsFiniteSet(Bucket(rows, part, cell)) /\ Cardinality(Bucket(rows, part, cell)) \in Nat
        BY <1>1, <2>1, FS_Subset, FS_CardinalityType
    <2>3. avail[cell] = Cardinality(Bucket(rows, part, cell))
        BY DEF Counts, Bucket
    <2>4. QED BY <2>2, <2>3
<1>3. avail = [cell \in Cells |-> Cardinality(Bucket(rows, part, cell))]
    BY DEF Counts, Bucket
<1>4. avail \in [Cells -> Nat]
    BY <1>2, <1>3
<1>5. IsFiniteSet(R) /\ key \in [R -> Cells]
    <2>1. R \in SUBSET rows /\ key \in [R -> Cells]
        OBVIOUS
    <2>2. QED BY <1>1, <2>1, FS_Subset
<1>6. avail = Tally(key, R)
    <2>1. \A cell \in Cells : {x \in R : key[x] = cell} = Bucket(rows, part, cell)
        BY DEF Bucket
    <2>2. QED BY <1>3, <2>1 DEF Tally
<1>7. ASSUME NEW S \in SUBSET Cells
      PROVE  TotalOf(avail, S) = Cardinality({row \in rows : row.partition = part /\ row.cell \in S})
    <2>1. {x \in R : key[x] \in S} = {row \in rows : row.partition = part /\ row.cell \in S}
        OBVIOUS
    <2> HIDE DEF avail, R, key
    <2>2. TotalOf(Tally(key, R), S) = Cardinality({x \in R : key[x] \in S})
        BY <1>5, TotalTally
    <2>3. QED BY <1>6, <2>1, <2>2
<1>8. QED BY <1>2, <1>4, <1>7

\* Heaps that are exact for all rows of a partition are a selection of it.
LEMMA HeapsSelect ==
    ASSUME NEW rows \in Sources, NEW part \in Partitions, NEW wanted \in Nat,
           Enough(wanted, Counts(rows, part)),
           NEW chosen \in SUBSET rows,
           \A row \in chosen : row.partition = part /\ row.cell \in Cells,
           \A a, b \in chosen : a.id = b.id => a = b,
           \A cell \in Cells :
             HeapExact(Bucket(chosen, part, cell), Bucket(rows, part, cell),
                       Quotas(wanted, Counts(rows, part))[cell])
    PROVE  Selected(rows, part, ByRank(chosen), wanted)
<1> DEFINE avail == Counts(rows, part)
           quota == Quotas(wanted, avail)
           key == [row \in chosen |-> row.cell]
           s == ByRank(chosen)
<1>1. avail \in [Cells -> Nat]
    BY CountsOfSource
<1>2. \A cell \in Cells : avail[cell] = Cardinality(Bucket(rows, part, cell))
    BY CountsOfSource
<1>3. \A S \in SUBSET Cells :
        TotalOf(avail, S) = Cardinality({row \in rows : row.partition = part /\ row.cell \in S})
    BY CountsOfSource
<1>4. /\ Within(quota, avail) /\ TotalOf(quota, Cells) = wanted
      /\ \A w \in Worlds :
           TotalOf(quota, OfWorld(w)) >= Least(Share(wanted, NWorlds, w), TotalOf(avail, OfWorld(w)))
    <2> HIDE DEF avail
    <2>1. Enough(wanted, avail)
        BY DEF avail
    <2>2. QED BY <1>1, <2>1, QuotasExact
<1>5. \A cell \in Cells : HeapExact(Bucket(chosen, part, cell), Bucket(rows, part, cell), quota[cell])
    OBVIOUS
<1> HIDE DEF quota, avail
<1>6. quota \in [Cells -> Nat] /\ \A cell \in Cells : quota[cell] <= avail[cell]
    BY <1>4 DEF Within
<1>7. \A cell \in Cells : Cardinality(Bucket(chosen, part, cell)) = quota[cell]
    <2> TAKE cell \in Cells
    <2>1. Cardinality(Bucket(chosen, part, cell)) = Least(quota[cell], avail[cell])
        BY <1>2, <1>5 DEF HeapExact
    <2>2. quota[cell] \in Nat /\ avail[cell] \in Nat /\ quota[cell] <= avail[cell]
        BY <1>1, <1>6
    <2>3. QED BY <2>1, <2>2 DEF Least
<1>8. IsFiniteSet(chosen) /\ key \in [chosen -> Cells]
    <2>1. IsFiniteSet(rows)
        BY SourceRows
    <2>2. QED BY <2>1, FS_Subset
<1>9. Tally(key, chosen) = quota
    <2>1. \A cell \in Cells : {x \in chosen : key[x] = cell} = Bucket(chosen, part, cell)
        BY DEF Bucket
    <2>2. Tally(key, chosen) = [cell \in Cells |-> quota[cell]]
        BY <1>7, <2>1 DEF Tally
    <2>3. QED BY <1>6, <2>2
<1>10. \A S \in SUBSET Cells : TotalOf(quota, S) = Cardinality({x \in chosen : x.cell \in S})
    <2> TAKE S \in SUBSET Cells
    <2>1. {x \in chosen : key[x] \in S} = {x \in chosen : x.cell \in S}
        OBVIOUS
    <2> HIDE DEF key
    <2>2. TotalOf(Tally(key, chosen), S) = Cardinality({x \in chosen : key[x] \in S})
        BY <1>8, TotalTally
    <2>3. QED BY <1>9, <2>1, <2>2
<1>11. Cardinality(chosen) = wanted
    <2>1. {x \in chosen : x.cell \in Cells} = chosen
        OBVIOUS
    <2>2. QED BY <1>4, <1>10, <2>1
<1>12. Range(s) = chosen /\ Len(s) = wanted
       /\ \A i, j \in 1 .. Len(s) : i < j => s[i].rank < s[j].rank
    <2>1. /\ \A row \in chosen : row.rank \in Nat
          /\ \A a, b \in chosen : a.rank = b.rank => a = b
        BY SourceRows DEF Told
    <2>2. /\ Range(ByRank(chosen)) = chosen /\ Len(ByRank(chosen)) = Cardinality(chosen)
          /\ \A i, j \in 1 .. Cardinality(chosen) :
               i < j => ByRank(chosen)[i].rank < ByRank(chosen)[j].rank
        BY <1>8, <2>1, RanksOrder
    <2>3. QED BY <1>11, <2>2
<1> HIDE DEF s
<1>13. chosen \subseteq {row \in rows : Eligible(row) /\ row.partition = part}
    <2>1. \A row \in chosen : row.cell # NoCell
        BY DEF Cells, Worlds, NoCell
    <2>2. QED BY <2>1 DEF Eligible
<1>14. ASSUME NEW w \in Worlds
       PROVE  Cardinality(chosen \cap Of(rows, part, w))
                >= Least(Share(wanted, NWorlds, w), Cardinality(Of(rows, part, w)))
    <2>1. OfWorld(w) \in SUBSET Cells
        BY CellsFinite
    <2>2. {x \in chosen : x.cell \in OfWorld(w)} = chosen \cap Of(rows, part, w)
        BY DEF Of
    <2>3. {row \in rows : row.partition = part /\ row.cell \in OfWorld(w)} = Of(rows, part, w)
        BY DEF Of
    <2>4. TotalOf(quota, OfWorld(w)) = Cardinality(chosen \cap Of(rows, part, w))
        BY <1>10, <2>1, <2>2
    <2>5. TotalOf(avail, OfWorld(w)) = Cardinality(Of(rows, part, w))
        BY <1>3, <2>1, <2>3
    <2>6. QED BY <1>4, <2>4, <2>5
<1>15. ASSUME NEW row \in chosen, NEW other \in rows \ chosen,
              row.partition = other.partition, row.cell = other.cell
       PROVE  row.rank <= other.rank
    <2>1. /\ row \in Bucket(chosen, part, row.cell)
          /\ other \in Bucket(rows, part, row.cell) \ Bucket(chosen, part, row.cell)
        BY <1>15 DEF Bucket
    <2>2. row.cell \in Cells
        OBVIOUS
    <2>3. Ahead(row, other)
        BY <1>5, <2>1, <2>2 DEF HeapExact
    <2>4. row.rank \in Nat /\ other.rank \in Nat
        BY SourceRows DEF Told
    <2>5. QED BY <2>3, <2>4 DEF Ahead
<1>16. QED
    <2>1. /\ Len(s) = wanted
          /\ Range(s) \subseteq {row \in rows : Eligible(row) /\ row.partition = part}
          /\ \A i, j \in 1 .. Len(s) : i < j => s[i].rank < s[j].rank
        BY <1>12, <1>13
    <2>2. \A w \in Worlds :
            Cardinality(Range(s) \cap Of(rows, part, w))
              >= Least(Share(wanted, NWorlds, w), Cardinality(Of(rows, part, w)))
        BY <1>12, <1>14
    <2>3. \A row \in Range(s), other \in rows \ Range(s) :
            row.partition = other.partition /\ row.cell = other.cell => row.rank <= other.rank
        BY <1>12, <1>15
    <2>4. Selected(rows, part, s, wanted)
        BY <2>1, <2>2, <2>3 DEF Selected
    <2>5. QED BY <2>4 DEF s

\* Rows without a duplicate differ in their ids.
LEMMA NoDuplicates ==
    ASSUME NEW rows, IsFiniteSet(rows), ~ HasDuplicates(rows), NEW a \in rows, NEW b \in rows,
           a.id = b.id
    PROVE  a = b
<1> DEFINE f == [row \in rows |-> row.id]
           T == Ids(rows)
<1>1. f \in [rows -> T] /\ Reaches(f, rows, T)
    BY DEF Ids, Reaches
<1>2. ~ (Cardinality(T) < Cardinality(rows))
    BY DEF HasDuplicates
<1> HIDE DEF T, f
<1>3. /\ IsFiniteSet(T) /\ Cardinality(T) <= Cardinality(rows)
      /\ Cardinality(T) = Cardinality(rows) <=> OneToOne(f, rows)
    BY <1>1, OntoCounts
<1>4. Cardinality(T) \in Nat /\ Cardinality(rows) \in Nat
    BY <1>3, FS_CardinalityType
<1>5. OneToOne(f, rows)
    BY <1>2, <1>3, <1>4
<1>6. QED BY <1>5 DEF f, OneToOne

\* The quotas of a process, of both partitions.
QuotaOf(rows, wanted) == [part \in Partitions |-> Quotas(wanted[part], Counts(rows, part))]

\* The second pass: every heap is exact for the rows read so far, and the
\* quotas are those of the first pass, which has found enough.
Selecting(rows, prep) ==
  /\ prep = [at |-> "select", wanted |-> prep.wanted, unread |-> prep.unread,
                kept |-> prep.kept, quota |-> prep.quota]
  /\ prep.wanted \in Wanted
  /\ prep.unread \subseteq rows /\ prep.kept \subseteq rows \ prep.unread
  /\ \A row \in prep.kept : row.cell \in Cells
  /\ prep.quota = QuotaOf(rows, prep.wanted)
  /\ \A part \in Partitions : Enough(prep.wanted[part], Counts(rows, part))
  /\ \A part \in Partitions, cell \in Cells :
       HeapExact(Bucket(prep.kept, part, cell), Bucket(rows \ prep.unread, part, cell),
                 prep.quota[part][cell])

\* A quota is a number.
LEMMA QuotaIsNumber ==
    ASSUME NEW rows \in Sources, NEW wanted \in Wanted,
           \A part \in Partitions : Enough(wanted[part], Counts(rows, part)),
           NEW part \in Partitions, NEW cell \in Cells
    PROVE  QuotaOf(rows, wanted)[part][cell] \in Nat
<1>1. wanted[part] \in Nat
    BY StoryAssumption
<1>2. Counts(rows, part) \in [Cells -> Nat]
    BY CountsOfSource
<1>3. Enough(wanted[part], Counts(rows, part))
    OBVIOUS
<1>4. Within(Quotas(wanted[part], Counts(rows, part)), Counts(rows, part))
    BY <1>1, <1>2, <1>3, QuotasExact
<1>5. QuotaOf(rows, wanted)[part] = Quotas(wanted[part], Counts(rows, part))
    BY DEF QuotaOf
<1>6. QED BY <1>4, <1>5 DEF Within

\* The second pass begins with empty heaps.
LEMMA SelectingStarts ==
    ASSUME NEW rows \in Sources, NEW wanted \in Wanted,
           \A part \in Partitions : Enough(wanted[part], Counts(rows, part))
    PROVE  Selecting(rows, [at |-> "select", wanted |-> wanted, unread |-> rows, kept |-> {},
                            quota |-> QuotaOf(rows, wanted)])
<1> DEFINE prep == [at |-> "select", wanted |-> wanted, unread |-> rows, kept |-> {},
                       quota |-> QuotaOf(rows, wanted)]
<1>1. ASSUME NEW part \in Partitions, NEW cell \in Cells
      PROVE  HeapExact(Bucket({}, part, cell), Bucket(rows \ rows, part, cell),
                       QuotaOf(rows, wanted)[part][cell])
    <2>1. Bucket({}, part, cell) = {} /\ Bucket(rows \ rows, part, cell) = {}
        BY DEF Bucket
    <2>2. Cardinality({}) = 0
        BY FS_EmptySet
    <2>3. QuotaOf(rows, wanted)[part][cell] \in Nat
        BY QuotaIsNumber
    <2>4. Least(QuotaOf(rows, wanted)[part][cell], 0) = 0
        BY <2>3 DEF Least
    <2>5. HeapExact({}, {}, QuotaOf(rows, wanted)[part][cell])
        BY <2>2, <2>4 DEF HeapExact
    <2>6. QED BY <2>1, <2>5
<1>2. QED BY <1>1 DEF Selecting

\* A process with fewer rows to read, and other rows kept.
LEMMA FewerUnread ==
    ASSUME NEW w, NEW u, NEW k, NEW q, NEW prep,
           prep = [at |-> "select", wanted |-> w, unread |-> u, kept |-> k, quota |-> q],
           NEW row, NEW held,
           NEW next, next = [prep EXCEPT !.unread = @ \ {row}, !.kept = held]
    PROVE  next = [at |-> "select", wanted |-> w, unread |-> u \ {row}, kept |-> held, quota |-> q]
<1>1. prep \in [{"at", "wanted", "unread", "kept", "quota"} -> {"select", w, u, k, q}]
    OBVIOUS
<1>2. DOMAIN next = {"at", "wanted", "unread", "kept", "quota"} /\ next = [x \in DOMAIN next |-> next[x]]
    BY <1>1
<1>3. /\ next.at = "select" /\ next.wanted = w /\ next.quota = q
      /\ next.unread = u \ {row} /\ next.kept = held
    OBVIOUS
<1>4. QED BY <1>2, <1>3

\* The second pass reads a row: its heap keeps the first of the rows of its cell.
LEMMA RowSelects ==
    ASSUME NEW rows \in Sources, NEW prep, Selecting(rows, prep), NEW row \in prep.unread,
           NEW heap, heap = Bucket(prep.kept, row.partition, row.cell),
           NEW quota, quota = prep.quota[row.partition][row.cell],
           NEW held, held = (IF Eligible(row) /\ quota > 0
                             THEN (prep.kept \ heap) \cup Pushed(heap, row, quota)
                             ELSE prep.kept)
    PROVE  Selecting(rows, [prep EXCEPT !.unread = @ \ {row}, !.kept = held])
<1> DEFINE next == [prep EXCEPT !.unread = @ \ {row}, !.kept = held]
           read(part, cell) == Bucket(rows \ prep.unread, part, cell)
<1>1. /\ prep = [at |-> "select", wanted |-> prep.wanted, unread |-> prep.unread,
                    kept |-> prep.kept, quota |-> prep.quota]
      /\ prep.wanted \in Wanted
      /\ prep.unread \subseteq rows /\ prep.kept \subseteq rows \ prep.unread
      /\ \A r \in prep.kept : r.cell \in Cells
      /\ prep.quota = QuotaOf(rows, prep.wanted)
      /\ \A part \in Partitions : Enough(prep.wanted[part], Counts(rows, part))
    BY DEF Selecting
<1>2. \A part \in Partitions, cell \in Cells :
         HeapExact(Bucket(prep.kept, part, cell), read(part, cell), prep.quota[part][cell])
    BY DEF Selecting
<1>3. next = [at |-> "select", wanted |-> prep.wanted, unread |-> prep.unread \ {row},
              kept |-> held, quota |-> prep.quota]
    <2> DEFINE w == prep.wanted
               u == prep.unread
               k == prep.kept
               q == prep.quota
    <2>1. prep = [at |-> "select", wanted |-> w, unread |-> u, kept |-> k, quota |-> q]
        BY <1>1
    <2> HIDE DEF w, u, k, q
    <2>2. next = [prep EXCEPT !.unread = @ \ {row}, !.kept = held]
        OBVIOUS
    <2> HIDE DEF next
    <2>3. next = [at |-> "select", wanted |-> w, unread |-> u \ {row}, kept |-> held, quota |-> q]
        BY <2>1, <2>2, FewerUnread
    <2>4. QED BY <2>3 DEF w, u, k, q
<1>4. /\ next.at = "select" /\ next.wanted = prep.wanted
      /\ next.unread = prep.unread \ {row} /\ next.kept = held /\ next.quota = prep.quota
    BY <1>3
<1> HIDE DEF next
<1>5. row \in rows /\ row.partition \in Partitions /\ row.cell \in Cells \cup {NoCell}
    BY <1>1, SourceRows
<1>6. NoCell \notin Cells /\ (Eligible(row) <=> row.cell \in Cells)
    BY <1>5 DEF Eligible, Cells, Worlds, NoCell
<1>7. \A part \in Partitions, cell \in Cells :
         ~ (row.partition = part /\ row.cell = cell)
           => Bucket(rows \ next.unread, part, cell) = read(part, cell)
    BY <1>4 DEF Bucket
<1>8. row.cell \in Cells =>
         Bucket(rows \ next.unread, row.partition, row.cell) = read(row.partition, row.cell) \cup {row}
    BY <1>4, <1>5 DEF Bucket
<1>9. row.cell \in Cells => quota \in Nat
    BY <1>1, <1>5, QuotaIsNumber
<1>10. row.cell \in Cells => HeapExact(heap, read(row.partition, row.cell), quota)
    BY <1>2, <1>5
<1>11. IsFiniteSet(read(row.partition, row.cell)) /\ Told(rows)
    <2>1. read(row.partition, row.cell) \in SUBSET rows
        BY DEF Bucket
    <2>2. IsFiniteSet(rows) /\ Told(rows)
        BY SourceRows
    <2>3. QED BY <2>1, <2>2, FS_Subset
<1>12. /\ held \subseteq rows \ next.unread
       /\ \A r \in held : r.cell \in Cells
       /\ \A part \in Partitions, cell \in Cells :
            HeapExact(Bucket(held, part, cell), Bucket(rows \ next.unread, part, cell),
                      prep.quota[part][cell])
    <2>1. CASE Eligible(row) /\ quota > 0
        <3> DEFINE pushed == Pushed(heap, row, quota)
                   old == read(row.partition, row.cell)
        <3>1. row.cell \in Cells /\ quota \in Nat \ {0}
            BY <1>6, <1>9, <2>1
        <3>2. row \notin old /\ old \in SUBSET rows
            BY DEF Bucket
        <3>3. HeapExact(pushed, old \cup {row}, quota)
            <4>1. HeapExact(heap, old, quota)
                BY <1>10, <3>1
            <4> HIDE DEF old
            <4>2. QED BY <1>5, <1>11, <3>1, <3>2, <4>1, PushIsExact
        <3>4. pushed \subseteq old \cup {row}
            BY <3>3 DEF HeapExact
        <3>5. held = (prep.kept \ heap) \cup pushed
            BY <2>1
        <3>6. \A r \in pushed : r \in rows /\ r \notin next.unread
                                /\ r.partition = row.partition /\ r.cell = row.cell
            BY <1>4, <1>5, <3>4 DEF Bucket
        <3>7. pushed = Bucket(held, row.partition, row.cell)
            BY <3>5, <3>6 DEF Bucket
        <3> HIDE DEF pushed
        <3>8. held \subseteq rows \ next.unread /\ \A r \in held : r.cell \in Cells
            BY <1>1, <1>4, <3>1, <3>5, <3>6
        <3>9. ASSUME NEW part \in Partitions, NEW cell \in Cells
              PROVE  HeapExact(Bucket(held, part, cell), Bucket(rows \ next.unread, part, cell),
                               prep.quota[part][cell])
            <4>1. CASE row.partition = part /\ row.cell = cell
                BY <1>8, <3>1, <3>3, <3>7, <4>1
            <4>2. CASE ~ (row.partition = part /\ row.cell = cell)
                <5>1. Bucket(held, part, cell) = Bucket(prep.kept, part, cell)
                    BY <3>5, <3>6, <4>2 DEF Bucket
                <5>2. Bucket(rows \ next.unread, part, cell) = read(part, cell)
                    BY <1>7, <4>2
                <5>3. HeapExact(Bucket(prep.kept, part, cell), read(part, cell), prep.quota[part][cell])
                    BY <1>2
                <5> HIDE DEF read
                <5>4. QED BY <5>1, <5>2, <5>3
            <4>3. QED BY <4>1, <4>2
        <3>10. QED BY <3>8, <3>9
    <2>2. CASE ~ (Eligible(row) /\ quota > 0)
        <3>1. held = prep.kept
            BY <2>2
        <3>2. held \subseteq rows \ next.unread /\ \A r \in held : r.cell \in Cells
            BY <1>1, <1>4, <3>1
        <3>3. ASSUME NEW part \in Partitions, NEW cell \in Cells
              PROVE  HeapExact(Bucket(held, part, cell), Bucket(rows \ next.unread, part, cell),
                               prep.quota[part][cell])
            <4>1. CASE row.partition = part /\ row.cell = cell
                <5> DEFINE old == read(row.partition, row.cell)
                <5>1. row.cell \in Cells /\ quota = 0
                    BY <1>6, <1>9, <2>2, <4>1
                <5>2. HeapExact(heap, old, 0) /\ IsFiniteSet(old)
                    BY <1>10, <1>11, <5>1
                <5>3. Bucket(rows \ next.unread, part, cell) = old \cup {row}
                    BY <1>8, <4>1, <5>1
                <5>4. Bucket(held, part, cell) = heap /\ prep.quota[part][cell] = 0
                    BY <3>1, <4>1, <5>1
                <5> HIDE DEF old
                <5>5. heap = {}
                    BY <5>2, NothingKept
                <5>6. IsFiniteSet(old \cup {row})
                    BY <5>2, FS_AddElement
                <5>7. HeapExact(heap, old \cup {row}, 0)
                    BY <5>5, <5>6, NothingKept
                <5>8. QED BY <5>3, <5>4, <5>7
            <4>2. CASE ~ (row.partition = part /\ row.cell = cell)
                BY <1>2, <1>7, <3>1, <4>2
            <4>3. QED BY <4>1, <4>2
        <3>4. QED BY <3>2, <3>3
    <2>3. QED BY <2>1, <2>2
<1>13. next.unread \subseteq rows
    BY <1>1, <1>4
<1>14. Selecting(rows, next)
    BY <1>1, <1>3, <1>4, <1>12, <1>13 DEF Selecting
<1>15. QED BY <1>14 DEF next

\* When all rows are read the heaps hold the selection, unless it is refused.
LEMMA SelectionEnds ==
    ASSUME NEW rows \in Sources, NEW prep, Selecting(rows, prep), prep.unread = {},
           NEW train, train = {row \in prep.kept : row.partition = "train"},
           NEW val, val = {row \in prep.kept : row.partition = "val"},
           ~ HasDuplicates(train), ~ HasDuplicates(val), Ids(train) \cap Ids(val) = {}
    PROVE  DataExact(rows, [wanted |-> prep.wanted, train |-> ByRank(train), val |-> ByRank(val)])
<1> DEFINE data == [wanted |-> prep.wanted, train |-> ByRank(train), val |-> ByRank(val)]
           chosen == [part \in Partitions |-> {row \in prep.kept : row.partition = part}]
<1>1. /\ prep.wanted \in Wanted /\ prep.kept \subseteq rows
      /\ \A r \in prep.kept : r.cell \in Cells
      /\ prep.quota = QuotaOf(rows, prep.wanted)
      /\ \A part \in Partitions : Enough(prep.wanted[part], Counts(rows, part))
      /\ \A part \in Partitions, cell \in Cells :
           HeapExact(Bucket(prep.kept, part, cell), Bucket(rows \ prep.unread, part, cell),
                     prep.quota[part][cell])
    BY DEF Selecting
<1>2. /\ data.wanted = prep.wanted
      /\ data["train"] = ByRank(train) /\ data["val"] = ByRank(val)
      /\ \A part \in Partitions : data[part] = ByRank(chosen[part])
    BY DEF Partitions
<1>3. \A part \in Partitions : ~ HasDuplicates(chosen[part])
    BY DEF Partitions
<1>4. IsFiniteSet(rows)
    BY SourceRows
<1>5. \A part \in Partitions :
         chosen[part] \in SUBSET rows
         /\ \A row \in chosen[part] : row.partition = part /\ row.cell \in Cells
    BY <1>1
<1>6. \A part \in Partitions, cell \in Cells :
         Bucket(chosen[part], part, cell) = Bucket(prep.kept, part, cell)
    BY DEF Bucket
<1> HIDE DEF data, chosen
<1>7. ASSUME NEW part \in Partitions
      PROVE  Selected(rows, part, data[part], data.wanted[part])
    <2> DEFINE held == chosen[part]
               wanted == prep.wanted[part]
    <2>1. wanted \in Nat /\ Enough(wanted, Counts(rows, part))
        BY <1>1, StoryAssumption
    <2>2. IsFiniteSet(held)
        BY <1>4, <1>5, FS_Subset
    <2>3. \A a, b \in held : a.id = b.id => a = b
        BY <1>3, <2>2, NoDuplicates
    <2>4. ASSUME NEW cell \in Cells
          PROVE  HeapExact(Bucket(held, part, cell), Bucket(rows, part, cell),
                           Quotas(wanted, Counts(rows, part))[cell])
        <3>1. HeapExact(Bucket(prep.kept, part, cell), Bucket(rows \ prep.unread, part, cell),
                        prep.quota[part][cell])
            BY <1>1
        <3>2. rows \ prep.unread = rows
            OBVIOUS
        <3>3. prep.quota[part][cell] = Quotas(wanted, Counts(rows, part))[cell]
            BY <1>1 DEF QuotaOf
        <3>4. QED BY <1>6, <3>1, <3>2, <3>3
    <2>5. held \in SUBSET rows /\ \A row \in held : row.partition = part /\ row.cell \in Cells
        BY <1>5
    <2> HIDE DEF held, wanted
    <2>6. Selected(rows, part, ByRank(held), wanted)
        BY <2>1, <2>3, <2>4, <2>5, HeapsSelect
    <2>7. QED BY <1>2, <2>6 DEF held, wanted
<1>8. Range(ByRank(train)) = train /\ Range(ByRank(val)) = val
    <2>1. ASSUME NEW held \in SUBSET rows, ~ HasDuplicates(held) PROVE Range(ByRank(held)) = held
        <3>1. IsFiniteSet(held)
            BY <1>4, FS_Subset
        <3>2. \A a, b \in held : a.id = b.id => a = b
            BY <2>1, <3>1, NoDuplicates
        <3>3. /\ \A row \in held : row.rank \in Nat
              /\ \A a, b \in held : a.rank = b.rank => a = b
            BY <3>2, SourceRows DEF Told
        <3>4. QED BY <3>1, <3>3, RanksOrder
    <2>2. train \in SUBSET rows /\ val \in SUBSET rows
        BY <1>1
    <2>3. QED BY <2>1, <2>2
<1>9. Ids(Range(data["train"])) \cap Ids(Range(data["val"])) = {}
    BY <1>2, <1>8
<1>10. DataExact(rows, data)
    BY <1>7, <1>9 DEF DataExact
<1>11. QED BY <1>10 DEF data

-----------------------------------------------------------------------------
(* The swap.                                                               *)

\* What a directory holds.
DirectoryExact(rows, directory) ==
  \/ directory = NoDirectory
  \/ /\ directory = Directory(directory.data, directory.whole)
     /\ DataExact(rows, directory.data)

\* A process that has selected its stories.
StoryPlaces == {"stage", "metadata", "publish", "published", "restore", "remove backup", "remove staging"}

Preparing(rows, prep) ==
  /\ prep.at \in StoryPlaces
  /\ prep = [at |-> prep.at, had |-> prep.had, data |-> prep.data]
  /\ DataExact(rows, prep.data)

ProcessExact == prepare = NoProcess \/ Selecting(source, prepare) \/ Preparing(source, prepare)

DirectoriesExact ==
  DirectoryExact(source, staging) /\ DirectoryExact(source, output) /\ DirectoryExact(source, backup)

Whole(directory) == directory # NoDirectory /\ directory.whole

\* A directory about to be moved in is whole.
StagingReady ==
  /\ PrepareAt("metadata") => staging # NoDirectory
  /\ PrepareAt("publish") => Whole(staging)

\* What is in the output is whole; with nothing in it what is set aside is, and
\* a process that found an output has it there or can put one back.
SwapSafe ==
  ~stranded =>
    /\ output # NoDirectory => Whole(output)
    /\ output = NoDirectory => backup = NoDirectory \/ Whole(backup)
    /\ prepared => Whole(output) \/ Whole(backup)
    /\ prepare.at \in StoryPlaces /\ prepare.had => output # NoDirectory \/ backup # NoDirectory
    /\ prepare.at \in {"stage", "metadata", "published", "remove staging"} /\ prepare.had
         => output # NoDirectory
    /\ PrepareAt("published") => output # NoDirectory
    /\ PrepareAt("remove backup") => output # NoDirectory \/ backup = NoDirectory

\* The inductive invariant of a preparation.
StoryInv ==
  /\ source \in Sources
  /\ ProcessExact /\ DirectoriesExact /\ StagingReady /\ SwapSafe

\* A process that has its stories goes on with them.
LEMMA GoesOn ==
    ASSUME NEW rows, NEW prep, Preparing(rows, prep), NEW position \in StoryPlaces,
           NEW next, next = [prep EXCEPT !.at = position]
    PROVE  /\ Preparing(rows, next)
           /\ next.at = position /\ next.had = prep.had /\ next.data = prep.data
<1> DEFINE a == prep.at
           h == prep.had
           d == prep.data
<1>1. prep = [at |-> a, had |-> h, data |-> d] /\ DataExact(rows, d)
    BY DEF Preparing
<1> HIDE DEF a, h, d
<1>2. next = [at |-> position, had |-> h, data |-> d]
    BY <1>1
<1>3. QED BY <1>1, <1>2 DEF Preparing

\* PrepareTo() says no more than that.
LEMMA PrepareGoesOn ==
    ASSUME Preparing(source, prepare), source' = source, NEW position \in StoryPlaces, PrepareTo(position)
    PROVE  /\ ProcessExact'
           /\ prepare'.at = position /\ prepare'.had = prepare.had /\ prepare'.data = prepare.data
<1>1. prepare' = [prepare EXCEPT !.at = position]
    BY DEF PrepareTo
<1>2. /\ Preparing(source, prepare')
      /\ prepare'.at = position /\ prepare'.had = prepare.had /\ prepare'.data = prepare.data
    BY <1>1, GoesOn
<1>3. QED BY <1>2 DEF ProcessExact

\* A directory with all of its files, or without some, holds what it held.
LEMMA StillExact ==
    ASSUME NEW rows, NEW directory, DirectoryExact(rows, directory), directory # NoDirectory,
           NEW whole, NEW next, next = [directory EXCEPT !.whole = whole]
    PROVE  DirectoryExact(rows, next) /\ next # NoDirectory /\ next.whole = whole
<1> DEFINE d == directory.data
           w == directory.whole
<1>1. directory = [kind |-> "directory", data |-> d, whole |-> w] /\ DataExact(rows, d)
    BY DEF DirectoryExact, Directory
<1> HIDE DEF d, w
<1>2. next = [kind |-> "directory", data |-> d, whole |-> whole]
    BY <1>1
<1>3. next # NoDirectory
    BY <1>2 DEF NoDirectory
<1>4. QED BY <1>1, <1>2, <1>3 DEF DirectoryExact, Directory

\* A new directory.
LEMMA NewDirectory ==
    ASSUME NEW rows, NEW data, DataExact(rows, data)
    PROVE  /\ DirectoryExact(rows, Directory(data, FALSE)) /\ Directory(data, FALSE) # NoDirectory
           /\ DirectoryExact(rows, NoDirectory) /\ ~ Whole(NoDirectory)
BY DEF DirectoryExact, Directory, NoDirectory, Whole

\* Where a process is says what it has.
LEMMA ProcessAt ==
    ASSUME ProcessExact
    PROVE  /\ PrepareAt("select") => Selecting(source, prepare)
           /\ prepare.at \in StoryPlaces => Preparing(source, prepare)
           /\ prepare.at \in {"idle", "select"} \cup StoryPlaces
<1>1. prepare = NoProcess => prepare.at = "idle"
    BY DEF NoProcess
<1>2. Selecting(source, prepare) => prepare.at = "select"
    BY DEF Selecting
<1>3. Preparing(source, prepare) => prepare.at \in StoryPlaces
    BY DEF Preparing
<1>4. "idle" \notin StoryPlaces /\ "select" \notin StoryPlaces
    BY DEF StoryPlaces
<1>5. QED BY <1>1, <1>2, <1>3, <1>4 DEF ProcessExact, PrepareAt

\* A process that has ended is nowhere.
LEMMA NoProcessAt ==
    ASSUME prepare' = NoProcess
    PROVE  /\ ProcessExact' /\ StagingReady'
           /\ prepare'.at \notin StoryPlaces /\ \A position \in StoryPlaces : ~ PrepareAt(position)'
BY DEF ProcessExact, StagingReady, NoProcess, StoryPlaces, PrepareAt

\* The initial state.
LEMMA StoryStarts == StoryInit => StoryInv
BY DEF StoryInit, StoryInv, ProcessExact, DirectoriesExact, DirectoryExact, StagingReady, SwapSafe,
       NoProcess, NoDirectory, StoryPlaces, PrepareAt

\* The passes leave the directories alone.
LEMMA PassesKeepInv ==
    ASSUME StoryInv, FirstPass \/ SelectRow \/ Finalize
    PROVE  StoryInv'
<1>1. /\ source \in Sources /\ ProcessExact /\ DirectoriesExact /\ StagingReady /\ SwapSafe
    BY DEF StoryInv
<1>2. source' = source /\ output' = output /\ backup' = backup /\ staging' = staging
      /\ prepared' = prepared /\ stranded' = stranded
    BY DEF FirstPass, SelectRow, Finalize
<1>3. DirectoriesExact'
    BY <1>1, <1>2 DEF DirectoriesExact
<1>4. ASSUME prepare' = NoProcess \/ Selecting(source', prepare') PROVE StoryInv'
    <2>1. prepare'.at \in {"idle", "select"}
        BY <1>4 DEF NoProcess, Selecting
    <2>2. ProcessExact' /\ StagingReady'
        BY <1>4, <2>1 DEF ProcessExact, StagingReady, PrepareAt
    <2>3. SwapSafe'
        BY <1>1, <1>2, <2>1 DEF SwapSafe, PrepareAt, StoryPlaces
    <2>4. QED BY <1>1, <1>2, <1>3, <2>2, <2>3 DEF StoryInv
<1>5. CASE FirstPass
    <2>1. PICK wanted \in Wanted :
            LET avail == [part \in Partitions |-> Counts(source, part)]
            IN IF \A part \in Partitions : Enough(wanted[part], avail[part])
               THEN prepare' =
                      [at |-> "select", wanted |-> wanted, unread |-> source, kept |-> {},
                       quota |-> [part \in Partitions |-> Quotas(wanted[part], avail[part])]]
               ELSE prepare' = NoProcess
        BY <1>5 DEF FirstPass
    <2>2. CASE prepare' = NoProcess
        BY <1>4, <2>2
    <2>3. CASE /\ \A part \in Partitions : Enough(wanted[part], Counts(source, part))
               /\ prepare' = [at |-> "select", wanted |-> wanted, unread |-> source, kept |-> {},
                              quota |-> QuotaOf(source, wanted)]
        BY <1>1, <1>2, <1>4, <2>3, SelectingStarts
    <2>4. QED
        <3>1. \/ prepare' = NoProcess
              \/ /\ \A part \in Partitions : Enough(wanted[part], Counts(source, part))
                 /\ prepare' = [at |-> "select", wanted |-> wanted, unread |-> source, kept |-> {},
                                quota |-> [part \in Partitions |->
                                             Quotas(wanted[part], Counts(source, part))]]
            BY <2>1
        <3>2. QED BY <2>2, <2>3, <3>1 DEF QuotaOf
<1>6. CASE SelectRow
    <2>1. PICK row \in prepare.unread :
            LET heap == {other \in prepare.kept :
                           other.partition = row.partition /\ other.cell = row.cell}
                quota == prepare.quota[row.partition][row.cell]
                held == IF Eligible(row) /\ quota > 0
                        THEN (prepare.kept \ heap) \cup Pushed(heap, row, quota)
                        ELSE prepare.kept
            IN prepare' = [prepare EXCEPT !.unread = @ \ {row}, !.kept = held]
        BY <1>6 DEF SelectRow
    <2> DEFINE heap == Bucket(prepare.kept, row.partition, row.cell)
               quota == prepare.quota[row.partition][row.cell]
               held == IF Eligible(row) /\ quota > 0
                       THEN (prepare.kept \ heap) \cup Pushed(heap, row, quota)
                       ELSE prepare.kept
    <2>2. prepare' = [prepare EXCEPT !.unread = @ \ {row}, !.kept = held]
        BY <2>1 DEF Bucket
    <2>3. Selecting(source, prepare)
        BY <1>1, <1>6, ProcessAt DEF SelectRow
    <2>4. Selecting(source, [prepare EXCEPT !.unread = @ \ {row}, !.kept = held])
        BY <1>1, <2>3, RowSelects
    <2> HIDE DEF held
    <2>5. QED BY <1>2, <1>4, <2>2, <2>4
<1>7. CASE Finalize
    <2> DEFINE train == {row \in prepare.kept : row.partition = "train"}
               val == {row \in prepare.kept : row.partition = "val"}
               data == [wanted |-> prepare.wanted, train |-> ByRank(train), val |-> ByRank(val)]
    <2>1. Selecting(source, prepare) /\ prepare.unread = {}
        BY <1>1, <1>7, ProcessAt DEF Finalize
    <2>2. \/ prepare' = NoProcess
          \/ /\ ~ HasDuplicates(train) /\ ~ HasDuplicates(val) /\ Ids(train) \cap Ids(val) = {}
             /\ prepare' = [at |-> "stage", had |-> output # NoDirectory, data |-> data]
        BY <1>7 DEF Finalize, Partitions
    <2>3. CASE prepare' = NoProcess
        BY <1>4, <2>3
    <2>4. CASE /\ ~ HasDuplicates(train) /\ ~ HasDuplicates(val) /\ Ids(train) \cap Ids(val) = {}
               /\ prepare' = [at |-> "stage", had |-> output # NoDirectory, data |-> data]
        <3>1. DataExact(source, data)
            BY <1>1, <2>1, <2>4, SelectionEnds
        <3> HIDE DEF data
        <3>2. prepare'.at = "stage" /\ prepare'.data = data /\ (prepare'.had <=> output # NoDirectory)
              /\ prepare' = [at |-> prepare'.at, had |-> prepare'.had, data |-> prepare'.data]
            BY <2>4
        <3>3. Preparing(source', prepare')
            BY <1>2, <3>1, <3>2 DEF Preparing, StoryPlaces
        <3>4. ProcessExact' /\ StagingReady'
            BY <3>2, <3>3 DEF ProcessExact, StagingReady, PrepareAt
        <3>5. SwapSafe'
            BY <1>1, <1>2, <3>2 DEF SwapSafe, PrepareAt, StoryPlaces
        <3>6. QED BY <1>1, <1>2, <1>3, <3>4, <3>5 DEF StoryInv
    <2>5. QED BY <2>2, <2>3, <2>4
<1>8. QED BY <1>5, <1>6, <1>7

\* The staging directory is written and removed.
LEMMA StagingKeepsInv ==
    ASSUME StoryInv, Stage \/ WriteMetadata \/ StagingFails \/ RemoveStaging
    PROVE  StoryInv'
<1>1. /\ source \in Sources /\ ProcessExact /\ DirectoriesExact /\ StagingReady /\ SwapSafe
    BY DEF StoryInv
<1>2. source' = source /\ output' = output /\ backup' = backup
      /\ prepared' = prepared /\ stranded' = stranded
    BY DEF Stage, WriteMetadata, StagingFails, RemoveStaging
<1>3. /\ DirectoryExact(source, staging) /\ DirectoryExact(source, output)
      /\ DirectoryExact(source, backup)
    BY <1>1 DEF DirectoriesExact
<1>4. /\ prepare.at \in StoryPlaces => Preparing(source, prepare)
      /\ prepare.at \in {"idle", "select"} \cup StoryPlaces
    BY <1>1, ProcessAt
<1>5. ASSUME NEW position \in StoryPlaces, Preparing(source, prepare), PrepareTo(position)
      PROVE  /\ ProcessExact'
             /\ prepare'.at = position /\ prepare'.had = prepare.had /\ prepare'.data = prepare.data
    BY <1>2, <1>5, PrepareGoesOn
<1>6. CASE Stage
    <2>1. prepare.at = "stage" /\ Preparing(source, prepare)
          /\ staging' = Directory(prepare.data, FALSE) /\ PrepareTo("metadata")
        BY <1>4, <1>6 DEF Stage, PrepareAt, StoryPlaces
    <2>2. ProcessExact' /\ prepare'.at = "metadata" /\ prepare'.had = prepare.had
        BY <1>5, <2>1 DEF StoryPlaces
    <2>3. DirectoryExact(source, staging') /\ staging' # NoDirectory
        BY <2>1, NewDirectory DEF Preparing
    <2>4. DirectoriesExact'
        BY <1>2, <1>3, <2>3 DEF DirectoriesExact
    <2>5. StagingReady'
        BY <2>2, <2>3 DEF StagingReady, PrepareAt
    <2>6. SwapSafe'
        BY <1>1, <1>2, <2>1, <2>2 DEF SwapSafe, PrepareAt, StoryPlaces
    <2>7. QED BY <1>1, <1>2, <2>2, <2>4, <2>5, <2>6 DEF StoryInv
<1>7. CASE WriteMetadata
    <2>1. prepare.at = "metadata" /\ Preparing(source, prepare)
          /\ staging' = [staging EXCEPT !.whole = TRUE] /\ PrepareTo("publish")
        BY <1>4, <1>7 DEF WriteMetadata, PrepareAt, StoryPlaces
    <2>2. ProcessExact' /\ prepare'.at = "publish" /\ prepare'.had = prepare.had
        BY <1>5, <2>1 DEF StoryPlaces
    <2>3. staging # NoDirectory
        BY <1>1, <2>1 DEF StagingReady, PrepareAt
    <2>4. DirectoryExact(source, staging') /\ staging' # NoDirectory /\ staging'.whole = TRUE
        BY <1>3, <2>1, <2>3, StillExact
    <2>5. DirectoriesExact'
        BY <1>2, <1>3, <2>4 DEF DirectoriesExact
    <2>6. StagingReady'
        BY <2>2, <2>4 DEF StagingReady, PrepareAt, Whole
    <2>7. SwapSafe'
        BY <1>1, <1>2, <2>1, <2>2 DEF SwapSafe, PrepareAt, StoryPlaces
    <2>8. QED BY <1>1, <1>2, <2>2, <2>5, <2>6, <2>7 DEF StoryInv
<1>8. CASE StagingFails
    <2>1. prepare.at \in {"stage", "metadata"} /\ Preparing(source, prepare)
          /\ staging' = staging /\ PrepareTo("remove staging")
        BY <1>4, <1>8 DEF StagingFails, StoryPlaces
    <2>2. ProcessExact' /\ prepare'.at = "remove staging" /\ prepare'.had = prepare.had
        BY <1>5, <2>1 DEF StoryPlaces
    <2>3. DirectoriesExact'
        BY <1>2, <1>3, <2>1 DEF DirectoriesExact
    <2>4. StagingReady'
        BY <2>2 DEF StagingReady, PrepareAt
    <2>5. SwapSafe'
        BY <1>1, <1>2, <2>1, <2>2 DEF SwapSafe, PrepareAt, StoryPlaces
    <2>6. QED BY <1>1, <1>2, <2>2, <2>3, <2>4, <2>5 DEF StoryInv
<1>9. CASE RemoveStaging
    <2>1. staging' = NoDirectory /\ prepare' = NoProcess
        BY <1>9 DEF RemoveStaging
    <2>2. /\ ProcessExact' /\ StagingReady'
          /\ prepare'.at \notin StoryPlaces /\ \A position \in StoryPlaces : ~ PrepareAt(position)'
        BY <2>1, NoProcessAt
    <2>3. DirectoriesExact'
        BY <1>2, <1>3, <2>1 DEF DirectoriesExact, DirectoryExact
    <2>4. SwapSafe'
        BY <1>1, <1>2, <2>2 DEF SwapSafe, PrepareAt, StoryPlaces
    <2>5. QED BY <1>1, <1>2, <2>2, <2>3, <2>4 DEF StoryInv
<1>10. QED BY <1>6, <1>7, <1>8, <1>9

\* The output is moved aside, and the staging directory in.
LEMMA MovesKeepInv ==
    ASSUME StoryInv, RemoveOldBackup \/ MoveAside \/ MoveIn \/ PublishRaises
    PROVE  StoryInv'
<1>1. /\ source \in Sources /\ ProcessExact /\ DirectoriesExact /\ StagingReady /\ SwapSafe
    BY DEF StoryInv
<1>2. source' = source /\ stranded' = stranded
    BY DEF RemoveOldBackup, MoveAside, MoveIn, PublishRaises
<1>3. /\ DirectoryExact(source, staging) /\ DirectoryExact(source, output)
      /\ DirectoryExact(source, backup) /\ DirectoryExact(source, NoDirectory) /\ ~ Whole(NoDirectory)
    BY <1>1 DEF DirectoriesExact, DirectoryExact, Whole
<1>4. /\ prepare.at \in {"publish", "published"} /\ Preparing(source, prepare)
      /\ PrepareAt("publish") => Whole(staging)
    <2>1. prepare.at \in {"publish", "published"}
        BY DEF RemoveOldBackup, MoveAside, MoveIn, PublishRaises, PrepareAt
    <2>2. Preparing(source, prepare)
        BY <1>1, <2>1, ProcessAt DEF StoryPlaces
    <2>3. QED BY <1>1, <2>1, <2>2 DEF StagingReady
<1>5. ASSUME NEW position \in StoryPlaces, PrepareTo(position)
      PROVE  /\ ProcessExact'
             /\ prepare'.at = position /\ prepare'.had = prepare.had /\ prepare'.data = prepare.data
    BY <1>2, <1>4, <1>5, PrepareGoesOn
<1>6. CASE RemoveOldBackup
    <2>1. /\ PrepareAt("publish") /\ output # NoDirectory /\ backup' = NoDirectory
          /\ prepare' = prepare /\ staging' = staging /\ output' = output /\ prepared' = prepared
        BY <1>6 DEF RemoveOldBackup
    <2>2. ProcessExact' /\ StagingReady'
        BY <1>1, <1>2, <2>1 DEF ProcessExact, StagingReady, PrepareAt
    <2>3. DirectoriesExact'
        BY <1>2, <1>3, <2>1 DEF DirectoriesExact
    <2>4. SwapSafe'
        BY <1>1, <1>2, <2>1 DEF SwapSafe, PrepareAt, StoryPlaces
    <2>5. QED BY <1>1, <1>2, <2>2, <2>3, <2>4 DEF StoryInv
<1>7. CASE MoveAside
    <2>1. /\ PrepareAt("publish") /\ output # NoDirectory /\ backup = NoDirectory
          /\ backup' = output /\ output' = NoDirectory
          /\ prepare' = prepare /\ staging' = staging /\ prepared' = prepared
        BY <1>7 DEF MoveAside
    <2>2. ProcessExact' /\ StagingReady'
        BY <1>1, <1>2, <2>1 DEF ProcessExact, StagingReady, PrepareAt
    <2>3. DirectoriesExact'
        BY <1>2, <1>3, <2>1 DEF DirectoriesExact
    <2>4. SwapSafe'
        BY <1>1, <1>2, <2>1 DEF SwapSafe, PrepareAt, StoryPlaces
    <2>5. QED BY <1>1, <1>2, <2>2, <2>3, <2>4 DEF StoryInv
<1>8. CASE MoveIn
    <2>1. /\ PrepareAt("publish") /\ output = NoDirectory
          /\ output' = staging /\ staging' = NoDirectory /\ PrepareTo("published")
          /\ backup' = backup
        BY <1>8 DEF MoveIn
    <2>2. ProcessExact' /\ prepare'.at = "published" /\ prepare'.had = prepare.had
        BY <1>5, <2>1 DEF StoryPlaces
    <2>3. Whole(output') /\ output' # NoDirectory
        BY <1>4, <2>1 DEF Whole
    <2>4. DirectoriesExact' /\ StagingReady'
        BY <1>2, <1>3, <2>1, <2>2 DEF DirectoriesExact, StagingReady, PrepareAt
    <2>5. SwapSafe'
        BY <1>1, <1>2, <2>2, <2>3 DEF SwapSafe, PrepareAt, StoryPlaces
    <2>6. QED BY <1>1, <1>2, <2>2, <2>4, <2>5 DEF StoryInv
<1>9. CASE PublishRaises
    <2>1. /\ PrepareTo("restore") /\ staging' = staging /\ output' = output /\ prepared' = prepared
          /\ \/ backup' = backup
             \/ /\ output # NoDirectory /\ backup # NoDirectory
                /\ backup' = [backup EXCEPT !.whole = FALSE]
        BY <1>9 DEF PublishRaises
    <2>2. ProcessExact' /\ prepare'.at = "restore" /\ prepare'.had = prepare.had
        BY <1>5, <2>1 DEF StoryPlaces
    <2>3. \/ backup' = backup
          \/ output # NoDirectory /\ backup' # NoDirectory /\ DirectoryExact(source, backup')
        BY <1>3, <2>1, StillExact
    <2>4. DirectoriesExact' /\ StagingReady'
        BY <1>2, <1>3, <2>1, <2>2, <2>3 DEF DirectoriesExact, StagingReady, PrepareAt
    <2>5. SwapSafe'
        BY <1>1, <1>2, <1>4, <2>1, <2>2, <2>3 DEF SwapSafe, PrepareAt, StoryPlaces
    <2>6. QED BY <1>1, <1>2, <2>2, <2>4, <2>5 DEF StoryInv
<1>10. QED BY <1>6, <1>7, <1>8, <1>9

\* The handler swaps back, and what is left is removed.
LEMMA RestoresKeepInv ==
    ASSUME StoryInv, Restore \/ RestoreFails \/ RemoveBackup
    PROVE  StoryInv'
<1>1. /\ source \in Sources /\ ProcessExact /\ DirectoriesExact /\ StagingReady /\ SwapSafe
    BY DEF StoryInv
<1>2. source' = source /\ staging' = staging /\ prepared' = prepared
    BY DEF Restore, RestoreFails, RemoveBackup
<1>3. /\ DirectoryExact(source, staging) /\ DirectoryExact(source, output)
      /\ DirectoryExact(source, backup) /\ DirectoryExact(source, NoDirectory) /\ ~ Whole(NoDirectory)
    BY <1>1 DEF DirectoriesExact, DirectoryExact, Whole
<1>4. prepare.at \in {"restore", "published", "remove backup"} /\ Preparing(source, prepare)
    <2>1. prepare.at \in {"restore", "published", "remove backup"}
        BY DEF Restore, RestoreFails, RemoveBackup, PrepareAt
    <2>2. QED BY <1>1, <2>1, ProcessAt DEF StoryPlaces
<1>5. ASSUME NEW position \in StoryPlaces, PrepareTo(position)
      PROVE  /\ ProcessExact'
             /\ prepare'.at = position /\ prepare'.had = prepare.had /\ prepare'.data = prepare.data
    BY <1>2, <1>4, <1>5, PrepareGoesOn
<1>6. CASE Restore
    <2>1. /\ PrepareTo("remove backup") /\ stranded' = stranded
          /\ \/ /\ backup # NoDirectory /\ output = NoDirectory
                /\ output' = backup /\ backup' = NoDirectory
             \/ /\ backup = NoDirectory \/ output # NoDirectory
                /\ output' = output /\ backup' = backup
        BY <1>6 DEF Restore
    <2>2. ProcessExact' /\ prepare'.at = "remove backup" /\ prepare'.had = prepare.had
        BY <1>5, <2>1 DEF StoryPlaces
    <2>3. DirectoriesExact' /\ StagingReady'
        BY <1>2, <1>3, <2>1, <2>2 DEF DirectoriesExact, StagingReady, PrepareAt
    <2>4. SwapSafe'
        BY <1>1, <1>2, <1>3, <1>4, <2>1, <2>2 DEF SwapSafe, PrepareAt, StoryPlaces
    <2>5. QED BY <1>1, <1>2, <2>2, <2>3, <2>4 DEF StoryInv
<1>7. CASE RestoreFails
    <2>1. stranded' = TRUE /\ PrepareTo("remove backup") /\ output' = output /\ backup' = backup
        BY <1>7 DEF RestoreFails
    <2>2. ProcessExact' /\ prepare'.at = "remove backup"
        BY <1>5, <2>1 DEF StoryPlaces
    <2>3. DirectoriesExact' /\ StagingReady'
        BY <1>2, <1>3, <2>1, <2>2 DEF DirectoriesExact, StagingReady, PrepareAt
    <2>4. SwapSafe'
        BY <2>1 DEF SwapSafe
    <2>5. QED BY <1>1, <1>2, <2>2, <2>3, <2>4 DEF StoryInv
<1>8. CASE RemoveBackup
    <2>1. /\ prepare.at \in {"published", "remove backup"}
          /\ stranded' = stranded /\ output' = output
          /\ \/ backup' = NoDirectory
             \/ backup # NoDirectory /\ backup' = [backup EXCEPT !.whole = FALSE]
        BY <1>8 DEF RemoveBackup
    <2>2. \/ backup' = NoDirectory
          \/ backup # NoDirectory /\ backup' # NoDirectory /\ DirectoryExact(source, backup')
        BY <1>3, <2>1, StillExact
    <2>3. DirectoriesExact'
        BY <1>2, <1>3, <2>1, <2>2 DEF DirectoriesExact
    <2>4. CASE PrepareAt("published")
        <3>1. prepare' = NoProcess
            BY <1>8, <2>4 DEF RemoveBackup
        <3>2. /\ ProcessExact' /\ StagingReady'
              /\ prepare'.at \notin StoryPlaces /\ \A position \in StoryPlaces : ~ PrepareAt(position)'
            BY <3>1, NoProcessAt
        <3>3. SwapSafe'
            BY <1>1, <1>2, <2>1, <2>2, <2>4, <3>2 DEF SwapSafe, PrepareAt, StoryPlaces
        <3>4. QED BY <1>1, <1>2, <2>3, <3>2, <3>3 DEF StoryInv
    <2>5. CASE PrepareAt("remove backup")
        <3>1. PrepareTo("remove staging")
            BY <1>8, <2>5 DEF RemoveBackup, PrepareTo, PrepareAt
        <3>2. ProcessExact' /\ prepare'.at = "remove staging" /\ prepare'.had = prepare.had
            BY <1>5, <3>1 DEF StoryPlaces
        <3>3. StagingReady'
            BY <3>2 DEF StagingReady, PrepareAt
        <3>4. SwapSafe'
            BY <1>1, <1>2, <1>3, <2>1, <2>2, <2>5, <3>2 DEF SwapSafe, PrepareAt, StoryPlaces
        <3>5. QED BY <1>1, <1>2, <2>3, <3>2, <3>3, <3>4 DEF StoryInv
    <2>6. QED BY <2>1, <2>4, <2>5 DEF PrepareAt
<1>9. QED BY <1>6, <1>7, <1>8

\* The process is killed.
LEMMA KillKeepsInv ==
    ASSUME StoryInv, KillPreparation
    PROVE  StoryInv'
<1>1. /\ source \in Sources /\ ProcessExact /\ DirectoriesExact /\ StagingReady /\ SwapSafe
    BY DEF StoryInv
<1>2. /\ source' = source /\ output' = output /\ prepared' = prepared /\ stranded' = stranded
      /\ prepare' = NoProcess /\ staging' = NoDirectory
      /\ \/ backup' = backup
         \/ /\ backup # NoDirectory
            /\ prepare.at \in {"published", "remove backup"} \/ (PrepareAt("publish") /\ output # NoDirectory)
            /\ backup' = [backup EXCEPT !.whole = FALSE]
    BY DEF KillPreparation
<1>3. /\ DirectoryExact(source, output) /\ DirectoryExact(source, backup)
      /\ DirectoryExact(source, NoDirectory) /\ ~ Whole(NoDirectory)
    BY <1>1 DEF DirectoriesExact, DirectoryExact, Whole
<1>4. /\ ProcessExact' /\ StagingReady'
      /\ prepare'.at \notin StoryPlaces /\ \A position \in StoryPlaces : ~ PrepareAt(position)'
    BY <1>2, NoProcessAt
<1>5. \/ backup' = backup
      \/ /\ backup # NoDirectory /\ DirectoryExact(source, backup')
         /\ prepare.at \in {"published", "remove backup"} \/ (PrepareAt("publish") /\ output # NoDirectory)
    BY <1>2, <1>3, StillExact
<1>6. DirectoriesExact'
    BY <1>2, <1>3, <1>5 DEF DirectoriesExact
<1>7. SwapSafe'
    BY <1>1, <1>2, <1>4, <1>5 DEF SwapSafe, PrepareAt, StoryPlaces
<1>8. QED BY <1>1, <1>2, <1>4, <1>6, <1>7 DEF StoryInv

\* Every step keeps the invariant.
LEMMA StoryStep == StoryInv /\ [StoryNext]_storyVars => StoryInv'
<1> SUFFICES ASSUME StoryInv, [StoryNext]_storyVars PROVE StoryInv'
    OBVIOUS
<1>1. CASE StoryNext
    <2>1. \/ FirstPass \/ SelectRow \/ Finalize
          \/ Stage \/ WriteMetadata \/ StagingFails \/ RemoveStaging
          \/ RemoveOldBackup \/ MoveAside \/ MoveIn \/ PublishRaises
          \/ Restore \/ RestoreFails \/ RemoveBackup \/ KillPreparation
        BY <1>1 DEF StoryNext
    <2>2. QED BY <2>1, PassesKeepInv, StagingKeepsInv, MovesKeepInv, RestoresKeepInv, KillKeepsInv
<1>2. CASE UNCHANGED storyVars
    BY <1>2 DEF storyVars, StoryInv, ProcessExact, DirectoriesExact, StagingReady, SwapSafe, PrepareAt
<1>3. QED BY <1>1, <1>2

\* What the invariant says of the output.
LEMMA StoryInvSafe == StoryInv => StoriesSafe
<1> SUFFICES ASSUME StoryInv PROVE StoriesSafe
    OBVIOUS
<1>1. SelectionExact
    <2>1. DirectoryExact(source, output)
        BY DEF StoryInv, DirectoriesExact
    <2>2. QED BY <2>1 DEF DirectoryExact, SelectionExact
<1>2. PriorPreserved
    <2>1. SUFFICES ASSUME ~ stranded
                   PROVE  /\ output # NoDirectory => output.whole
                          /\ PrepareAt("remove staging") /\ prepare.had => output # NoDirectory
                          /\ prepared => \E directory \in {output, backup} \ {NoDirectory} : directory.whole
        BY DEF PriorPreserved
    <2>2. /\ output # NoDirectory => Whole(output)
          /\ prepared => Whole(output) \/ Whole(backup)
          /\ PrepareAt("remove staging") /\ prepare.had => output # NoDirectory
        BY <2>1 DEF StoryInv, SwapSafe, PrepareAt, StoryPlaces
    <2>3. QED BY <2>2 DEF Whole
<1>3. QED BY <1>1, <1>2 DEF StoriesSafe

\* What is published is exact, and what was published is not lost, whatever the
\* order of the rows, the failures and the kills: _publish() and its handler.
THEOREM StoriesAreSafe == StorySpec => []StoriesSafe
<1>1. StorySpec => []StoryInv
    BY StoryStarts, StoryStep, PTL DEF StorySpec
<1>2. QED BY <1>1, StoryInvSafe, PTL

=============================================================================
