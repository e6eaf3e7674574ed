---------------------------- MODULE BenchmarkRun ----------------------------
(***************************************************************************)
(* One run of Benchmark v2: benchmark_v2.py executes its tasks one after   *)
(* another, each in a process of its own, and appends a line for each to   *)
(* raw_replicates.jsonl; benchmark_v2_report.py then replaces that file    *)
(* from memory, adds the other artifacts and last of all the manifest that *)
(* binds them.                                                             *)
(*                                                                         *)
(* The run may be interrupted by KeyboardInterrupt, any operation on a     *)
(* file may fail, and the process may be killed between any two steps.     *)
(* A reader, load_run_manifest(), may come at any time.                    *)
(*                                                                         *)
(* A task is its place in the execution order, a record is its task, its   *)
(* status and the response, a digest is the content.                       *)
(***************************************************************************)
EXTENDS ReplicateStatistics

CONSTANTS
  Config,       \* the case of each task in the order of execution, and what
                \* the run calls stable
  Measurements, \* what a worker may have measured
  MaxUnmeasured \* bound: of how many tasks there is no measurement

\* expand_benchmark_tasks(): cases times replicates, shuffled.
NTasks == Len(Config.caseOf)

ASSUME BenchmarkAssumption ==
  /\ Config.caseOf \in Seq(Nat) /\ NTasks > 0
  /\ Config.minimum \in Nat \ {0} /\ Config.percent \in Nat \ {0}
  /\ \A measured \in Measurements : measured.time \in Nat \ {0}

VARIABLES
  run,       \* the process: where it is, and its locals
  raw,       \* raw_replicates.jsonl: its whole lines, and what follows them
  state,     \* run_state.json
  documents, \* the other artifacts
  manifest,  \* run_manifest.json
  residue,   \* a temporary file is left
  answers,   \* history: what the worker of each task answered
  durable    \* history: how many records were appended

benchmarkVars == <<run, raw, state, documents, manifest, residue, answers, durable>>

-----------------------------------------------------------------------------
(* What the files hold.                                                    *)

NoFile == [kind |-> "none"]

\* What is behind the last whole line: nothing, a line that only the stream
\* has, a part of a line, or a line that the rollback could not remove.
Tails == {"none", "buffered", "part", "whole"}

Artifacts ==
  {"environment", "config", "raw", "summary.csv", "summary.md", "order"}

\* _write_final_artifacts(): the order of the writes, the manifest at the end.
WriteOrder ==
  <<"environment", "config", "raw", "summary.csv", "summary.md", "order", "manifest">>

TaskIds == 1 .. NTasks

Count(records, status) == Cardinality({i \in DOMAIN records : records[i].status = status})

RunState(status, records) ==
  [kind |-> "state", status |-> status,
   completed |-> Len(records), failed |-> Count(records, "error")]

\* The controls that the workers which measured reported.
Controls(records) ==
  LET ok == Successful(records)
  IN [i \in DOMAIN ok |-> ok[i].response.measured.controls]

\* _execution_order_document(): what has become of each task.
Entries(config, records) ==
  [task \in DOMAIN config.caseOf |->
     IF \E i \in DOMAIN records : records[i].task = task
     THEN (CHOOSE record \in {records[i] : i \in DOMAIN records} : record.task = task).status
     ELSE "pending"]

\* What each artifact says of the run.
Content(config, name, status, records) ==
  CASE name = "environment" ->
         [kind |-> "json", status |-> status, machine |-> "here", workers |-> Controls(records)]
    [] name = "config" -> [kind |-> "yaml", config |-> config]
    [] name = "summary.csv" ->
         [kind |-> "csv", rows |-> Summaries(config, records, config.minimum, config.percent)]
    [] name = "summary.md" -> [kind |-> "md", status |-> status]
    [] name = "order" -> [kind |-> "json", entries |-> Entries(config, records)]

\* The bytes of an artifact, as a reader or a digest finds them.
Bytes(name) == IF name = "raw" THEN raw ELSE documents[name]

\* The manifest of some records, bound to the bytes of the artifacts.
Manifest(config, status, records, preconditioning, bytes) ==
  [kind |-> "manifest", status |-> status, expected |-> Len(config.caseOf),
   completed |-> Len(records), successful |-> Count(records, "ok"),
   failed |-> Count(records, "error"), preconditioning |-> preconditioning,
   bound |-> bytes]

-----------------------------------------------------------------------------
(* Workers.                                                                *)

\* A worker gives a valid response in time or not, which is an error or a
\* measurement, and exits with a code, by a crash at its end for instance.  One
\* measurement is enough where it does not count.
Responses ==
  {[kind |-> "none"]}
    \cup [kind : {"error"}, code : {0, 1}]
    \cup [kind : {"ok"}, code : {0}, measured : Measurements]
    \cup [kind : {"ok"}, code : {1}, measured : {CHOOSE m \in Measurements : TRUE}]

\* In time, with a valid response and an exit without error.
Measured(response) == response.kind = "ok" /\ response.code = 0

\* Mutant: a worker that measured and then failed to exit counts as measured.
RecordIgnoringExit(task, response) ==
  [task |-> task, response |-> response,
   status |-> IF response.kind = "ok" THEN "ok" ELSE "error"]

\* execute_worker(): a record of success takes a valid response and an exit
\* without error; the response is kept in any case.
Record(task, response) ==
  [task |-> task, response |-> response,
   status |-> IF response.kind = "ok" /\ response.code = 0 THEN "ok" ELSE "error"]

\* _final_status()
FinalStatus(config, records) ==
  IF Count(records, "ok") = 0 THEN "failed"
  ELSE IF /\ {records[i].task : i \in DOMAIN records} = DOMAIN config.caseOf
          /\ Len(records) = Len(config.caseOf)
          /\ Count(records, "ok") = Len(records)
       THEN "complete" ELSE "partial"

-----------------------------------------------------------------------------
BenchmarkInit ==
  /\ run = [at |-> "create order", records |-> <<>>, record |-> NoFile,
            status |-> "running", preconditioning |-> "failed"]
  /\ raw = NoFile
  /\ state = NoFile
  /\ documents = [name \in Artifacts \ {"raw"} |-> NoFile]
  /\ manifest = NoFile
  /\ residue = FALSE
  /\ answers = <<>>
  /\ durable = 0

\* Where a file is replaced: by a temporary one, which stays if the process is
\* killed, or if the write and its removal fail.
Writes == {"create order", "create state", "except", "state", "manifest"} \cup Artifacts
Residue == IF run.at \in Writes THEN {residue, TRUE} ELSE {residue}

RunAt(place) == run.at = place
RunTo(place) == run' = [run EXCEPT !.at = place]

(***************************************************************************)
(* The run.                                                                *)
(***************************************************************************)

\* The directory is new, as its name has the time in it.
CreateOrder ==
  /\ RunAt("create order")
  /\ documents' = [documents EXCEPT !["order"] = Content(Config, "order", "running", <<>>)]
  /\ RunTo("create state")
  /\ UNCHANGED <<raw, state, manifest, residue, answers, durable>>

\* The state, and the file that the records will be appended to.
CreateState ==
  /\ RunAt("create state")
  /\ state' = RunState("running", <<>>)
  /\ raw' = [lines |-> <<>>, tail |-> "none"]
  /\ RunTo("precondition")
  /\ UNCHANGED <<documents, manifest, residue, answers, durable>>

\* run_preconditioning(): disabled, done, or without success; then no task runs.
Precondition ==
  /\ RunAt("precondition")
  /\ \E status \in {"skipped", "complete", "failed"} :
       run' = [run EXCEPT !.preconditioning = status,
                          !.at = IF status = "failed" THEN "close" ELSE "execute"]
  /\ UNCHANGED <<raw, state, documents, manifest, residue, answers, durable>>

\* execute_worker()
ExecuteWorker ==
  /\ RunAt("execute") /\ Len(run.records) < NTasks
  /\ \E response \in Responses :
       /\ Measured(response) \/ Count(run.records, "error") < MaxUnmeasured
       /\ answers' = Append(answers, response)
       /\ run' = [run EXCEPT !.record = Record(Len(run.records) + 1, response), !.at = "append"]
  /\ UNCHANGED <<raw, state, documents, manifest, residue, durable>>

AllExecuted ==
  /\ RunAt("execute") /\ Len(run.records) = NTasks
  /\ RunTo("close")
  /\ UNCHANGED <<raw, state, documents, manifest, residue, answers, durable>>

\* _append_durable_raw_record()
AppendDurable ==
  /\ RunAt("append")
  /\ raw' = [raw EXCEPT !.lines = Append(@, run.record)]
  /\ durable' = durable + 1
  /\ RunTo("remember")
  /\ UNCHANGED <<state, documents, manifest, residue, answers>>

\* It fails, or is interrupted, anywhere between the write and the sync.
AppendFails ==
  /\ RunAt("append")
  /\ \E tail \in Tails : raw' = [raw EXCEPT !.tail = tail]
  /\ RunTo("rollback")
  /\ UNCHANGED <<state, documents, manifest, residue, answers, durable>>

\* What a stream that has a line may have written of it when it ends.
AfterFlush(tail) == IF tail = "buffered" THEN Tails ELSE {tail}

\* _rollback_durable_raw_record(): each of its operations may fail.
Rollback ==
  /\ RunAt("rollback")
  /\ \E tail \in {"none"} \cup AfterFlush(raw.tail) : raw' = [raw EXCEPT !.tail = tail]
  /\ RunTo("except")
  /\ UNCHANGED <<state, documents, manifest, residue, answers, durable>>

\* records.append()
Remember ==
  /\ RunAt("remember")
  /\ run' = [run EXCEPT !.records = Append(@, run.record), !.at = "execute"]
  /\ UNCHANGED <<raw, state, documents, manifest, residue, answers, durable>>

\* KeyboardInterrupt, or an exception, inside the try statement.
Interrupt ==
  /\ run.at \in {"precondition", "execute", "append", "remember"}
  /\ RunTo("except")
  /\ UNCHANGED <<raw, state, documents, manifest, residue, answers, durable>>

(***************************************************************************)
(* After an exception: everything is an attempt.                           *)
(***************************************************************************)

\* _best_effort(write the state)
StateAfterException ==
  /\ RunAt("except")
  /\ LET status == FinalStatus(Config, run.records)
     IN /\ run' = [run EXCEPT !.status = status, !.at = "except close"]
        /\ \/ state' = RunState(status, run.records) /\ UNCHANGED residue
           \/ UNCHANGED state /\ residue' \in Residue
  /\ UNCHANGED <<raw, documents, manifest, answers, durable>>

\* _best_effort(raw_stream.close): the stream still writes what it has.
CloseAfterException ==
  /\ RunAt("except close")
  /\ \E tail \in AfterFlush(raw.tail) : raw' = [raw EXCEPT !.tail = tail]
  /\ RunTo("environment")
  /\ UNCHANGED <<state, documents, manifest, residue, answers, durable>>

(***************************************************************************)
(* After the last task.                                                    *)
(***************************************************************************)

Close ==
  /\ RunAt("close")
  /\ RunTo("state")
  /\ UNCHANGED <<raw, state, documents, manifest, residue, answers, durable>>

FinalState ==
  /\ RunAt("state")
  /\ LET status == FinalStatus(Config, run.records)
     IN /\ state' = RunState(status, run.records)
        /\ run' = [run EXCEPT !.status = status, !.at = "environment"]
  /\ UNCHANGED <<raw, documents, manifest, residue, answers, durable>>

(***************************************************************************)
(* write_run_artifacts()                                                   *)
(***************************************************************************)

Following(place) ==
  LET i == CHOOSE i \in 1 .. Len(WriteOrder) : WriteOrder[i] = place
  IN IF i = Len(WriteOrder) THEN "unlink" ELSE WriteOrder[i + 1]

\* _validate_complete_task_identities()
CompleteIsComplete ==
  run.status = "complete" =>
    /\ Len(run.records) = NTasks
    /\ {run.records[i].task : i \in 1 .. NTasks} = TaskIds
    /\ \A i \in 1 .. NTasks : run.records[i].status = "ok"

\* _atomic_write_bytes() of one of the six artifacts.
WriteArtifact ==
  /\ run.at \in Artifacts
  /\ RunAt("environment") => CompleteIsComplete
  /\ IF RunAt("raw")
     THEN raw' = [lines |-> run.records, tail |-> "none"] /\ UNCHANGED documents
     ELSE /\ documents' = [documents EXCEPT ![run.at] = Content(Config, run.at, run.status, run.records)]
          /\ UNCHANGED raw
  /\ RunTo(Following(run.at))
  /\ UNCHANGED <<state, manifest, residue, answers, durable>>

\* The manifest binds what the other files hold by then.
WriteManifest ==
  /\ RunAt("manifest")
  /\ manifest' = Manifest(Config, run.status, run.records, run.preconditioning,
                          [name \in Artifacts |-> Bytes(name)])
  /\ RunTo("unlink")
  /\ UNCHANGED <<raw, state, documents, residue, answers, durable>>

\* run_state_path.unlink() ends the run's life cycle.
UnlinkState ==
  /\ RunAt("unlink")
  /\ state' = NoFile
  /\ RunTo("ended")
  /\ UNCHANGED <<raw, documents, manifest, residue, answers, durable>>

\* What is not an attempt may raise, and nothing follows.
Raise ==
  /\ run.at \in (Writes \ {"except"}) \cup {"close", "unlink"}
  /\ RunTo("ended")
  /\ residue' \in Residue
  /\ UNCHANGED <<raw, state, documents, manifest, answers, durable>>

\* The process is killed, or interrupted a second time.
KillRun ==
  /\ run.at # "ended"
  /\ RunTo("ended")
  /\ IF raw = NoFile
     THEN UNCHANGED raw
     ELSE \E tail \in AfterFlush(raw.tail) : raw' = [raw EXCEPT !.tail = tail]
  /\ residue' \in Residue
  /\ UNCHANGED <<state, documents, manifest, answers, durable>>

BenchmarkNext ==
  \/ CreateOrder \/ CreateState \/ Precondition \/ ExecuteWorker \/ AllExecuted
  \/ AppendDurable \/ AppendFails \/ Rollback \/ Remember \/ Interrupt
  \/ StateAfterException \/ CloseAfterException \/ Close \/ FinalState
  \/ WriteArtifact \/ WriteManifest \/ UnlinkState \/ Raise \/ KillRun

BenchmarkSpec == BenchmarkInit /\ [][BenchmarkNext]_benchmarkVars
-----------------------------------------------------------------------------
(* The reader, and what it may rely on.                                    *)

\* load_run_manifest(): exactly the seven documents, with the bytes that the
\* manifest binds.
Loads ==
  /\ manifest # NoFile /\ state = NoFile /\ ~residue
  /\ \A name \in Artifacts : Bytes(name) # NoFile /\ manifest.bound[name] = Bytes(name)
  /\ documents["environment"].status = manifest.status

\* The line of a task says what its worker did.
TrueLine(line, task) ==
  /\ line.task = task
  /\ line.response = answers[task]
  /\ line.status = "ok" <=> Measured(answers[task])

\* A run that loads is what it says: its records are those of the first tasks
\* in the order of execution, each true, and it is complete only if every task
\* was measured, failed only if none of its records was.
LoadedRunsTrue ==
  Loads =>
    LET lines == raw.lines
        measured == {task \in 1 .. Len(lines) : Measured(answers[task])}
    IN /\ raw.tail = "none"
       /\ \A i \in 1 .. Len(lines) : TrueLine(lines[i], i)
       /\ manifest.completed = Len(lines)
       /\ manifest.successful + manifest.failed = Len(lines)
       /\ manifest.status = "complete" <=> measured = TaskIds
       /\ manifest.status = "failed" <=> measured = {}
       /\ measured # {} => manifest.preconditioning # "failed"

\* "append-and-flush durable after each task so partial evidence survives": at
\* any time the file has every record that was appended, except that the report
\* drops the last one of a run that was interrupted right after appending it.
EvidenceSurvives ==
  durable > 0 =>
    /\ Len(raw.lines) >= durable - 1
    /\ Len(raw.lines) < durable => Len(run.records) < durable
    /\ \A i \in 1 .. Len(raw.lines) : TrueLine(raw.lines[i], i)

\* A run of Benchmark v2 that loads is what it says, and keeps its evidence
\* however it ends.
BenchmarkTruthful == LoadedRunsTrue /\ EvidenceSurvives
=============================================================================
