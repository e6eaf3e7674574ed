---------------------------- MODULE TrainingRun ----------------------------
(***************************************************************************)
(* Training of miniGPT over processes that may stop anywhere: train.py,    *)
(* trainer.py, training_runtime.py, checkpoint.py and run_provenance.py,   *)
(* and the report that training_report.py publishes from their files.      *)
(*                                                                         *)
(* One process at a time trains one experiment, fresh or from a            *)
(* checkpoint, up to a boundary, with or without a provenance journal.  It *)
(* may be killed between any two steps, and be interrupted or fail, which  *)
(* train.py catches.  The files survive.  The report is made by a process  *)
(* of its own, at any time.                                                *)
(*                                                                         *)
(* Data is abstracted to where it comes from: weights (with the optimizer's *)
(* moments) are the sequence of the draws they were trained with, a random *)
(* generator is the number of draws made from it, and the digest of a      *)
(* checkpoint is the checkpoint.  A file is replaced in one step, a process *)
(* that is killed loses nothing it has written.                            *)
(***************************************************************************)
EXTENDS Integers, Sequences

CONSTANTS
  MaxSteps,            \* training.max_steps
  EvalInterval,        \* training.eval_interval
  EvalBatches,         \* training.eval_batches
  SampleInterval,      \* training.sample_interval
  CheckpointInterval,  \* training.checkpoint_interval
  Boundaries,          \* the values given for --run-until-step
  Losses,              \* the training losses that the steps may turn out to have
  MaxRuns              \* bound: processes that train

\* The loss of a step if it, or that of the validation after it, is no finite
\* number.
NotFinite == -1

ASSUME TrainingAssumption ==
  /\ MaxSteps \in Nat \ {0} /\ MaxRuns \in Nat
  /\ EvalInterval \in Nat \ {0} /\ EvalBatches \in Nat \ {0}
  /\ SampleInterval \in Nat \ {0} /\ CheckpointInterval \in Nat \ {0}
  /\ Boundaries \subseteq 1 .. MaxSteps
  /\ Losses \subseteq [1 .. MaxSteps -> Nat \cup {NotFinite}]

VARIABLES
  process,   \* the process that trains, and where it is
  memory,    \* its model, optimizer and random generators
  metrics,   \* metrics.jsonl: one record per line
  samples,   \* samples.txt: one text per header
  latest,    \* checkpoints/.../latest.pt
  temporary, \* latest.pt.tmp
  kept,      \* a copy of a checkpoint that somebody made
  journal,   \* the run-provenance document's segments
  reporter,  \* the process that makes the report
  published, \* the report's directory
  runs,      \* processes that have trained so far
  disturbed  \* history: a training process did not run to its end under the journal

files == <<metrics, samples, latest, temporary, kept, journal>>
vars == <<process, memory, files, reporter, published, runs, disturbed>>

-----------------------------------------------------------------------------
(* Files and what is in them.                                              *)

None == [kind |-> "none"]
Torn == [kind |-> "torn"]

Fresh == [weights |-> <<>>, train |-> 0, dropout |-> 0, val |-> 0, sample |-> 0]

Checkpoint(m, step) == [kind |-> "checkpoint", step |-> step, state |-> m]

Segment(resume) ==
  [status |-> "running", resume |-> resume, checkpoint |-> None, final |-> -1]

\* _scheduled_event_due()
Due(step, interval) == (step + 1) % interval = 0

-----------------------------------------------------------------------------
(* One optimization step.                                                  *)

\* run_training_step(): one batch, one pass with dropout, one update, and the
\* validation that is due.
Trained(m, step) ==
  [weights |-> Append(m.weights, <<m.train, m.dropout>>),
   train |-> m.train + 1,
   dropout |-> m.dropout + 1,
   val |-> IF Due(step, EvalInterval) THEN m.val + EvalBatches ELSE m.val,
   sample |-> m.sample]

\* The record of the step from m: losses are told apart by what they were
\* computed from.
RecordOf(m, step) ==
  [step |-> step, loss |-> Trained(m, step).weights,
   val |-> IF Due(step, EvalInterval) THEN m.val ELSE -1]

\* A sample from m, drawn from a generator of its own.
SampleOf(m, step) == [step |-> step, text |-> <<m.weights, m.sample>>]

\* Mutant: the sampler of validation batches starts again at its seed.
RestoredButVal(c) == [c.state EXCEPT !.val = 0]

\* load_checkpoint(): everything a step reads or draws from.
Restored(c) == c.state

-----------------------------------------------------------------------------
(* The journal.                                                            *)

LastOf(s) == s[Len(s)]

Completed(j) == \A i \in 1 .. Len(j) : j[i].status = "completed"

\* Mutant: a segment resumes from whatever checkpoint it is given.
JournalAllowsAnyCheckpoint(resume) ==
  \/ journal = <<>> /\ resume = None
  \/ journal # <<>> /\ Completed(journal) /\ resume # None

\* begin_run_segment(): the first segment is fresh, every other one resumes
\* from what the one before it wrote.
JournalAllows(resume) ==
  \/ journal = <<>> /\ resume = None
  \/ journal # <<>> /\ Completed(journal) /\ resume # None
     /\ resume = LastOf(journal).checkpoint

\* complete_run_segment() on the last segment.
WithCompleted(j, c) ==
  [j EXCEPT ![Len(j)] =
     [LastOf(j) EXCEPT !.status = "completed", !.checkpoint = c, !.final = c.step]]

\* fail_run_segment() on the last segment.
WithFailed(j) == [j EXCEPT ![Len(j)] = [LastOf(j) EXCEPT !.status = "failed"]]

-----------------------------------------------------------------------------
Idle == [pc |-> "idle", journaled |-> FALSE, resume |-> None,
         boundary |-> 0, start |-> 0, step |-> 0, saved |-> FALSE]
NoReport == [pc |-> "idle"]

Init ==
  /\ process = Idle
  /\ memory = Fresh
  /\ metrics = <<>> /\ samples = <<>>
  /\ latest = None /\ temporary = None /\ kept = None
  /\ journal = <<>>
  /\ reporter = NoReport /\ published = None
  /\ runs = 0 /\ disturbed = FALSE

At(pc) == process.pc = pc
GoTo(pc) == process' = [process EXCEPT !.pc = pc]

\* train.py starts, and records its segment before anything else.
StartProcess ==
  \E resume \in {None, latest, kept}, boundary \in Boundaries, journaled \in BOOLEAN :
    /\ At("idle") /\ runs < MaxRuns
    /\ journaled => JournalAllows(resume)
    /\ process' = [Idle EXCEPT !.pc = "load", !.journaled = journaled, !.resume = resume,
                               !.boundary = boundary]
    /\ journal' = IF journaled THEN Append(journal, Segment(resume)) ELSE journal
    /\ runs' = runs + 1
    /\ disturbed' = IF journaled THEN disturbed /\ resume # None ELSE TRUE
    /\ UNCHANGED <<memory, metrics, samples, latest, temporary, kept, reporter, published>>

\* What is left to do once the events of a step are recorded: run_training()'s
\* loop, and the checkpoint of a last step that was not scheduled.
AfterEvents(p) ==
  IF p.step + 1 < p.boundary THEN [p EXCEPT !.pc = "step", !.step = @ + 1, !.saved = FALSE]
  ELSE [p EXCEPT !.pc = IF p.saved THEN "complete" ELSE "save"]

AfterSample(p) ==
  IF Due(p.step, CheckpointInterval) THEN [p EXCEPT !.pc = "save"] ELSE AfterEvents(p)

\* Mutant: a process samples before it exits.
AfterMetricsAtExit(p) ==
  IF Due(p.step, SampleInterval) \/ p.step + 1 = p.boundary
  THEN [p EXCEPT !.pc = "sample"] ELSE AfterSample(p)

AfterMetrics(p) ==
  IF Due(p.step, SampleInterval) THEN [p EXCEPT !.pc = "sample"] ELSE AfterSample(p)

\* Resuming restores everything; a boundary that is behind already is refused
\* before anything is written.
LoadCheckpoint ==
  /\ At("load") /\ process.resume # None
  /\ memory' = Restored(process.resume)
  /\ LET start == process.resume.step + 1 IN
     process' = [process EXCEPT !.pc = IF process.boundary <= start THEN "failed" ELSE "step",
                                !.start = start, !.step = start]
  /\ UNCHANGED <<files, reporter, published, runs, disturbed>>

\* A fresh run removes the metrics and the samples of the one before it, one
\* after the other, and leaves its checkpoint.
RemoveMetrics ==
  /\ At("load") /\ process.resume = None
  /\ memory' = Fresh
  /\ metrics' = <<>>
  /\ GoTo("clear")
  /\ UNCHANGED <<samples, latest, temporary, kept, journal, reporter, published, runs, disturbed>>

RemoveSamples ==
  /\ At("clear")
  /\ samples' = <<>>
  /\ GoTo("step")
  /\ UNCHANGED <<memory, metrics, latest, temporary, kept, journal, reporter, published, runs, disturbed>>

\* One optimization step and its line of metrics: a process that is killed
\* between the two leaves what one that is killed before them does.
TrainStep ==
  /\ At("step")
  /\ memory' = Trained(memory, process.step)
  /\ metrics' = Append(metrics, RecordOf(memory, process.step))
  /\ process' = AfterMetrics(process)
  /\ UNCHANGED <<samples, latest, temporary, kept, journal, reporter, published, runs, disturbed>>

AppendSample ==
  /\ At("sample")
  /\ samples' = Append(samples, SampleOf(memory, process.step))
  /\ memory' = [memory EXCEPT !.sample = @ + 1]
  /\ process' = AfterSample(process)
  /\ UNCHANGED <<metrics, latest, temporary, kept, journal, reporter, published, runs, disturbed>>

\* Mutant: the checkpoint is written over the old one.
SavedInPlace(f, c) == [latest |-> c, temporary |-> c]

\* save_checkpoint() writes the temporary file, ...
SavedTo(f, c) == [f EXCEPT !.temporary = c]

WriteCheckpoint ==
  /\ At("save") \/ At("saving")
  /\ LET saved == At("saving")
         f == SavedTo([latest |-> latest, temporary |-> temporary],
                      IF saved THEN Checkpoint(memory, process.step) ELSE Torn)
     IN  /\ latest' = f.latest /\ temporary' = f.temporary
         /\ GoTo(IF saved THEN "saved" ELSE "saving")
  /\ UNCHANGED <<memory, metrics, samples, kept, journal, reporter, published, runs, disturbed>>

\* ... and puts it in the place of the old one.
ReplaceCheckpoint ==
  /\ At("saved")
  /\ latest' = temporary /\ temporary' = None
  /\ process' = AfterEvents([process EXCEPT !.saved = TRUE])
  /\ UNCHANGED <<memory, metrics, samples, kept, journal, reporter, published, runs, disturbed>>

\* complete_run_segment(), or the end of a process without a journal.
Complete ==
  /\ At("complete")
  /\ process.journaled => latest.step = process.step
  /\ journal' = IF process.journaled THEN WithCompleted(journal, latest) ELSE journal
  /\ process' = Idle /\ memory' = Fresh
  /\ UNCHANGED <<metrics, samples, latest, temporary, kept, reporter, published, runs, disturbed>>

\* Ctrl-C, an exception, or a boundary that was refused: train.py records the
\* failure if it can.
Fail ==
  /\ process.pc \notin {"idle", "complete"}
  /\ journal' \in IF process.journaled THEN {journal, WithFailed(journal)} ELSE {journal}
  /\ process' = Idle /\ memory' = Fresh
  /\ disturbed' = TRUE
  /\ UNCHANGED <<metrics, samples, latest, temporary, kept, reporter, published, runs>>

\* The process is killed.
Kill ==
  /\ process.pc # "idle"
  /\ process' = Idle /\ memory' = Fresh
  /\ disturbed' = TRUE
  /\ UNCHANGED <<files, reporter, published, runs>>

\* Whoever trains may keep a copy of the checkpoint, and may remove a journal
\* that allows no further segment to begin a new one.
KeepCheckpoint ==
  /\ At("idle") /\ latest # None /\ kept # latest
  /\ kept' = latest
  /\ UNCHANGED <<process, memory, metrics, samples, latest, temporary, journal,
                 reporter, published, runs, disturbed>>

RemoveJournal ==
  /\ At("idle") /\ journal # <<>> /\ ~Completed(journal)
  /\ journal' = <<>>
  /\ UNCHANGED <<process, memory, metrics, samples, latest, temporary, kept,
                 reporter, published, runs, disturbed>>

-----------------------------------------------------------------------------
(* The report.                                                             *)

\* The steps at which a sample is due.
SampleSteps == [i \in 1 .. MaxSteps \div SampleInterval |-> i * SampleInterval - 1]

\* The loss of a line, by the number of batches it was computed from.
LossOf(line, loss) == loss[Len(line.loss)]

\* Mutant: the lines are read, and their steps not looked at.
MetricsReadUnordered(loss) ==
  metrics # <<>> /\ \A i \in 1 .. Len(metrics) : LossOf(metrics[i], loss) # NotFinite

\* load_metric_records()
MetricsRead(loss) ==
  /\ metrics # <<>>
  /\ \A i \in 1 .. Len(metrics) :
       metrics[i].step = i - 1 /\ LossOf(metrics[i], loss) # NotFinite

\* _validate_metrics(): the last loss is at most 90% of the first.
MetricsValid(loss) ==
  /\ Len(metrics) = MaxSteps
  /\ \A i \in 1 .. MaxSteps : metrics[i].val >= 0 <=> Due(metrics[i].step, EvalInterval)
  /\ 10 * LossOf(metrics[MaxSteps], loss) <= 9 * LossOf(metrics[1], loss)

\* summarize_training() wants a validation loss.
Validated == \E i \in 1 .. Len(metrics) : metrics[i].val >= 0

\* load_generated_samples() and _validate_samples()
SamplesValid ==
  /\ Len(samples) = Len(SampleSteps)
  /\ \A i \in 1 .. Len(samples) : samples[i].step = SampleSteps[i]
  /\ SampleSteps # <<>> /\ LastOf(SampleSteps) = MaxSteps - 1

\* _validate_provenance(): completed segments, a resumed one among them, each
\* from the output of the one before it, the last one up to the checkpoint.
JournalValid ==
  /\ Len(journal) >= 2 /\ Completed(journal)
  /\ journal[1].resume = None
  /\ \A i \in 2 .. Len(journal) : journal[i].resume = journal[i - 1].checkpoint
  /\ LastOf(journal).final = latest.step
  /\ LastOf(journal).checkpoint = latest

\* validate_reference_sources()
Accepted(loss) ==
  /\ latest # None /\ latest.step = MaxSteps - 1
  /\ MetricsRead(loss) /\ MetricsValid(loss) /\ SamplesValid /\ JournalValid
  /\ Validated

\* generate_training_report(): validate everything, whatever the losses are, and
\* keep what was read, ...
BeginReport ==
  /\ reporter.pc = "idle" /\ published = None
  /\ \E loss \in Losses : Accepted(loss)
  /\ reporter' = [pc |-> "copy", metrics |-> metrics, samples |-> samples, checkpoint |-> latest,
                  copy |-> <<>>]
  /\ UNCHANGED <<process, memory, files, published, runs, disturbed>>

\* ... copy the file of samples, which must still be there, ...
CopySamples ==
  /\ reporter.pc = "copy" /\ samples # <<>>
  /\ reporter' = [reporter EXCEPT !.pc = "publish", !.copy = samples]
  /\ UNCHANGED <<process, memory, files, published, runs, disturbed>>

\* ... and rename the temporary directory.
Publish ==
  /\ reporter.pc = "publish"
  /\ published' = [kind |-> "report", metrics |-> reporter.metrics, samples |-> reporter.samples,
                   checkpoint |-> reporter.checkpoint, copy |-> reporter.copy]
  /\ reporter' = NoReport
  /\ UNCHANGED <<process, memory, files, runs, disturbed>>

\* A failure removes the temporary directory, a killed process leaves it.
AbandonReport ==
  /\ reporter.pc # "idle"
  /\ reporter' = NoReport
  /\ UNCHANGED <<process, memory, files, published, runs, disturbed>>

-----------------------------------------------------------------------------
Training ==
  \/ StartProcess \/ LoadCheckpoint \/ RemoveMetrics \/ RemoveSamples
  \/ TrainStep \/ AppendSample \/ WriteCheckpoint \/ ReplaceCheckpoint
  \/ Complete \/ Fail \/ Kill

Reporting == BeginReport \/ CopySamples \/ Publish \/ AbandonReport

Next == Training \/ KeepCheckpoint \/ RemoveJournal \/ Reporting

Spec == Init /\ [][Next]_vars

-----------------------------------------------------------------------------
(* Properties.                                                             *)

\* The state of a run that was never stopped, after a number of steps.
Uninterrupted(steps) ==
  [weights |-> [i \in 1 .. steps |-> <<i - 1, i - 1>>],
   train |-> steps, dropout |-> steps,
   val |-> EvalBatches * (steps \div EvalInterval),
   sample |-> steps \div SampleInterval]

UninterruptedMetrics ==
  [i \in 1 .. MaxSteps |-> RecordOf(Uninterrupted(i - 1), i - 1)]

UninterruptedSamples ==
  [i \in 1 .. Len(SampleSteps) |->
     [step |-> SampleSteps[i],
      text |-> <<Uninterrupted(SampleSteps[i] + 1).weights, i - 1>>]]

\* Exact resume: wherever processes stopped, at a scheduled checkpoint or not,
\* a process that is about to take a step is in the state an uninterrupted run
\* would be in, the next batch, validation and sample included, and so is every
\* checkpoint that can be resumed from.
ExactResume ==
  /\ At("step") => memory = Uninterrupted(process.step)
  /\ \A c \in {latest, kept} \ {None} :
       c.kind = "checkpoint" /\ c.state = Uninterrupted(c.step + 1)

\* The journal tells the truth: every completed segment but the first resumed
\* from what the one before it wrote and ended at a later step, and only the
\* last segment may be unfinished.
JournalTruthful ==
  \A i \in 1 .. Len(journal) :
    /\ i < Len(journal) => journal[i].status = "completed"
    /\ journal[i].status = "completed" =>
         journal[i].checkpoint.kind = "checkpoint" /\ journal[i].final = journal[i].checkpoint.step
    /\ i > 1 =>
         /\ journal[i].resume = journal[i - 1].checkpoint
         /\ journal[i].status = "completed" => journal[i].final > journal[i - 1].final

\* A published report shows the run nobody interrupted, whatever happened to
\* the processes whose files it was made from: repeated and missing
\* records do not get into it.
ReportSound ==
  published # None =>
    /\ published.metrics = UninterruptedMetrics
    /\ published.samples = UninterruptedSamples
    /\ published.checkpoint = Checkpoint(Uninterrupted(MaxSteps), MaxSteps - 1)

\* What the report asks of an experiment itself: a sample of the last model, a
\* validation, finite losses, and a last one that is materially lower than the
\* first.
Reportable(loss) ==
  /\ Due(MaxSteps - 1, SampleInterval) /\ EvalInterval <= MaxSteps
  /\ \A n \in 1 .. MaxSteps : loss[n] # NotFinite
  /\ 10 * loss[MaxSteps] <= 9 * loss[1]

\* Segments that ended as they should are enough, wherever their boundaries
\* are: the report of an experiment that they complete is accepted if and only
\* if the experiment is reportable and was resumed at all.  Stopping and
\* resuming leave nothing in the files that the report refuses.
SegmentsSuffice ==
  At("idle") /\ ~disturbed /\ journal # <<>> /\ LastOf(journal).final = MaxSteps - 1
  => \A loss \in Losses :
       Accepted(loss) <=> Len(journal) >= 2 /\ Reportable(loss)

\* The samples in the report's directory are those that were validated.
SamplesCopiedExactly == published # None => published.copy = published.samples
=============================================================================
