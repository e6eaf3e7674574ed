------------------------ MODULE BenchmarkComparison ------------------------
(***************************************************************************)
(* benchmark_v2_compare.py: a candidate run against a baseline, under a    *)
(* policy.  The candidate is the run of BenchmarkRun, whenever its files   *)
(* load; baselines are runs that ended without interruption.               *)
(*                                                                         *)
(* _load_input() takes nothing from the manifest on trust: it works out    *)
(* from the raw records again what the other documents say, and refuses a  *)
(* run ("invalid input") where they differ.  compare_runs() then collects  *)
(* every reason not to compare, and gives a verdict if there is none.      *)
(* Both are functions of what is read; write_comparison() is a process     *)
(* with two files.                                                         *)
(***************************************************************************)
EXTENDS BenchmarkRun

CONSTANTS
  Baselines,  \* runs: their configuration, answers and machine
  Policies,   \* comparison policies
  Reporters   \* the processes that write the comparison: numbers, not 0

ASSUME ComparisonAssumption ==
  /\ Reporters \subseteq Nat \ {0}
  /\ \A policy \in Policies :
       {policy.minimum, policy.percent, policy.threshold} \subseteq Nat \ {0}
  /\ \A base \in Baselines :
       /\ base.config.caseOf \in Seq(Nat) /\ base.answers \in Seq(Responses)
       /\ Len(base.answers) = Len(base.config.caseOf)

VARIABLES
  place,          \* where each process of write_comparison() is
  json, markdown, \* the process that wrote the file, or 0
  overlapped      \* history: one began while another was at it

reportVars == <<place, json, markdown, overlapped>>

-----------------------------------------------------------------------------
(* What is read of a run.                                                  *)

Read(bound, lines, docs) ==
  [status |-> bound.status, expected |-> bound.expected, completed |-> bound.completed,
   successful |-> bound.successful, failed |-> bound.failed, lines |-> lines,
   config |-> docs["config"].config, rows |-> docs["summary.csv"].rows,
   entries |-> docs["order"].entries, workers |-> docs["environment"].workers,
   machine |-> docs["environment"].machine]

Candidate == Read(manifest, raw.lines, documents)

\* A run that nothing interrupted, by what its workers answered.
Finished(baseline) ==
  LET records == [task \in DOMAIN baseline.answers |-> Record(task, baseline.answers[task])]
      status == FinalStatus(baseline.config, records)
      docs == [name \in Artifacts \ {"raw"} |->
                 Content(baseline.config, name, status, records)]
      bound == Manifest(baseline.config, status, records, "complete", "bytes")
  IN [Read(bound, records, docs) EXCEPT !.machine = baseline.machine]

-----------------------------------------------------------------------------
(* _load_input()                                                           *)

\* _failed_raw_record(): the response of a worker that failed is none, or an
\* error with an exit code.
FailureAccepted(response) ==
  response.kind = "none" \/ (response.kind = "error" /\ response.code # 0)

\* _successful_raw_record()
SuccessAccepted(response) == response.kind = "ok" /\ response.code = 0

\* _parse_raw_record()
RecordAccepted(line) ==
  IF line.status = "error" THEN FailureAccepted(line.response) ELSE SuccessAccepted(line.response)

TasksOf(lines) == {lines[i].task : i \in DOMAIN lines}

\* _load_raw_records(): the records are of different tasks of the configuration,
\* as many as the manifest says.
RecordsAccepted(p) ==
  /\ \A i \in DOMAIN p.lines : RecordAccepted(p.lines[i])
  /\ Cardinality(TasksOf(p.lines)) = Len(p.lines)
  /\ p.expected = Len(p.config.caseOf)
  /\ TasksOf(p.lines) \subseteq DOMAIN p.config.caseOf
  /\ p.completed = Len(p.lines)
  /\ p.successful = Count(p.lines, "ok")
  /\ p.failed = Count(p.lines, "error")
  /\ p.status = "complete" =>
       /\ p.failed = 0
       /\ TasksOf(p.lines) = DOMAIN p.config.caseOf

Cases(config) == {config.caseOf[task] : task \in DOMAIN config.caseOf}

\* _validate_summaries_from_raw(): a row for each case that has a record, and
\* what the records give.
SummariesAccepted(p) ==
  /\ p.status = "complete" => DOMAIN p.rows = Cases(p.config)
  /\ p.rows = Summaries(p.config, p.lines, p.config.minimum, p.config.percent)

\* _load_execution_order(): a task is pending if it has no record, and has the
\* status of its record otherwise.
OrderAccepted(p) ==
  /\ DOMAIN p.entries = DOMAIN p.config.caseOf
  /\ \A task \in DOMAIN p.entries \ TasksOf(p.lines) : p.entries[task] = "pending"
  /\ \A i \in DOMAIN p.lines : p.entries[p.lines[i].task] = p.lines[i].status

Occurrences(value, values) == Cardinality({i \in DOMAIN values : values[i] = value})

\* The environments that workers reported are those of the successful records,
\* as often.
WorkersAccepted(p) ==
  \A control \in Range(p.workers) \cup Range(Controls(p.lines)) :
    Occurrences(control, p.workers) = Occurrences(control, Controls(p.lines))

InputAccepted(p) ==
  /\ RecordsAccepted(p)
  /\ SummariesAccepted(p)
  /\ OrderAccepted(p)
  /\ WorkersAccepted(p)

-----------------------------------------------------------------------------
(* compare_runs()                                                          *)

\* _case_worker_control_sets(): the controls that were in force for a case.
ControlsOfCase(p, case) ==
  Range(Controls(OfCase(p.config, p.lines, case)))

\* _summaries_under_policy(): what is comparable is up to the policy alone.
UnderPolicy(p, policy) == Summaries(p.config, p.lines, policy.minimum, policy.percent)

Inconsistent(p) == \E case \in DOMAIN p.rows : Cardinality(ControlsOfCase(p, case)) # 1

\* _run_reasons(), with _cpu_compatibility_reasons() and _environment_mismatches()
RunReasons(base, cand) ==
  {"incomplete" : p \in {q \in {base, cand} : q.status # "complete"}}
    \cup (IF DOMAIN base.rows # DOMAIN cand.rows THEN {"cases"} ELSE {})
    \cup (IF base.machine = "unknown" \/ cand.machine = "unknown" THEN {"machine unknown"} ELSE {})
    \cup (IF base.machine # cand.machine THEN {"machine"} ELSE {})
    \cup (IF base.status # "complete" \/ cand.status # "complete" THEN {}
          ELSE IF Inconsistent(base) \/ Inconsistent(cand) THEN {"controls within a case"}
          ELSE IF \E case \in DOMAIN base.rows \cap DOMAIN cand.rows :
                    ControlsOfCase(base, case) # ControlsOfCase(cand, case)
               THEN {"controls"} ELSE {})

\* _case_reasons()
CaseReasons(base, cand, policy) ==
  {reason \in {"insufficient", "unstable"} : reason \in {base.stability, cand.stability}}
    \cup (IF policy.equalCounts /\ base.replicates # cand.replicates THEN {"counts"} ELSE {})
    \cup (IF 0 \in {base.median, cand.median} THEN {"no median"} ELSE {})

\* Mutant: a change of exactly the threshold is a regression.
RegressedAt(base, cand, threshold) == 100 * (cand - base) >= threshold * base

\* compare_step_times(): slower by more than the threshold, in percent.
Regressed(base, cand, threshold) == 100 * (cand - base) > threshold * base

\* _case_comparisons(), _append_case_blockers() and _verdict()
Comparison(base, cand, policy) ==
  LET b == UnderPolicy(base, policy)
      c == UnderPolicy(cand, policy)
      aligned == DOMAIN b \cap DOMAIN c
      reasons == RunReasons(base, cand)
                   \cup UNION {CaseReasons(b[case], c[case], policy) : case \in aligned}
  IN [reasons |-> reasons,
      verdict |->
        IF reasons # {} THEN "not comparable"
        ELSE IF \E case \in aligned : Regressed(b[case].median, c[case].median, policy.threshold)
             THEN "fail" ELSE "pass"]

-----------------------------------------------------------------------------
(* write_comparison(), of the same runs under the same policy: the names of *)
(* the two files depend on nothing else.                                   *)

ReportInit ==
  /\ place = [p \in Reporters |-> "begin"]
  /\ json = 0 /\ markdown = 0
  /\ overlapped = FALSE

Ended == {"written", "refused", "raised", "left"}
Busy == {p \in Reporters : place[p] \notin Ended \cup {"begin"}}

WriterTo(p, next) == place' = [place EXCEPT ![p] = next]

\* A file of an earlier comparison is not replaced.
BeginComparison(p) ==
  /\ place[p] = "begin"
  /\ WriterTo(p, IF json # 0 \/ markdown # 0 THEN "refused" ELSE "json exists")
  /\ overlapped' = (overlapped \/ Busy # {})
  /\ UNCHANGED <<json, markdown>>

\* _atomic_write_new() looks again, and then replaces what is there.
FindJson(p) ==
  /\ place[p] = "json exists"
  /\ WriterTo(p, IF json # 0 THEN "refused" ELSE "json")
  /\ UNCHANGED <<json, markdown, overlapped>>

WriteJson(p) ==
  /\ place[p] = "json"
  /\ json' = p
  /\ WriterTo(p, "markdown exists")
  /\ UNCHANGED <<markdown, overlapped>>

JsonFails(p) ==
  /\ place[p] = "json"
  /\ WriterTo(p, "raised")
  /\ UNCHANGED <<json, markdown, overlapped>>

FindMarkdown(p) ==
  /\ place[p] = "markdown exists"
  /\ WriterTo(p, IF markdown # 0 THEN "remove" ELSE "markdown")
  /\ UNCHANGED <<json, markdown, overlapped>>

WriteMarkdown(p) ==
  /\ place[p] = "markdown"
  /\ markdown' = p
  /\ WriterTo(p, "written")
  /\ UNCHANGED <<json, overlapped>>

MarkdownFails(p) ==
  /\ place[p] = "markdown"
  /\ WriterTo(p, "remove")
  /\ UNCHANGED <<json, markdown, overlapped>>

\* Mutant: the first file stays when the second cannot be written.
RemoveJsonNever(p) ==
  /\ place[p] = "remove"
  /\ WriterTo(p, "raised")
  /\ UNCHANGED <<json, markdown, overlapped>>

\* One file alone is none, whoever wrote it.
RemoveJson(p) ==
  /\ place[p] = "remove"
  /\ json' = 0
  /\ WriterTo(p, "raised")
  /\ UNCHANGED <<markdown, overlapped>>

\* A kill or an interrupt, or a removal that fails, leaves what there is.
LeaveReport(p) ==
  /\ p \in Busy
  /\ WriterTo(p, "left")
  /\ UNCHANGED <<json, markdown, overlapped>>

ReportNext ==
  \E p \in Reporters :
    \/ BeginComparison(p) \/ FindJson(p) \/ WriteJson(p) \/ JsonFails(p) \/ FindMarkdown(p)
    \/ WriteMarkdown(p) \/ MarkdownFails(p) \/ RemoveJson(p) \/ LeaveReport(p)

ReportSpec == ReportInit /\ [][ReportNext]_reportVars

-----------------------------------------------------------------------------
(* Properties                                                              *)

\* What a run measured of a case: the times of the workers that gave a
\* measurement in time and without error, whatever the files say.
MeasuredOf(caseOf, given, case) ==
  LET tasks == {task \in DOMAIN given : /\ caseOf[task] = case
                                        /\ Measured(given[task])}
  IN [task \in tasks |-> given[task].measured]

TimesOf(caseOf, given, case) ==
  [task \in DOMAIN MeasuredOf(caseOf, given, case) |-> MeasuredOf(caseOf, given, case)[task].time]

\* The squares of what each two of some times are apart.  Half of their sum is the
\* variance times the square of the number of times.
Apart(times) ==
  SumFunction([i \in DOMAIN times |->
    SumFunction([j \in DOMAIN times |-> (times[i] - times[j]) * (times[i] - times[j])])])

\* The standard deviation is at most so many percent of the mean.
CloseTogether(times, percent) ==
  5000 * Apart(times) <= percent * percent * SumFunction(times) * SumFunction(times)

\* Two runs are comparable under a policy by the design: both measured every
\* task, of the same cases, on the same known machine, under the same controls,
\* and their measurements of each case are as many and as close as required.
Fair(base, given, policy) ==
  LET controls(caseOf, answered, case) ==
        {MeasuredOf(caseOf, answered, case)[task].controls :
           task \in DOMAIN MeasuredOf(caseOf, answered, case)}
  IN /\ base.machine = "here"
     /\ Cases(base.config) = Cases(Config)
     /\ \A task \in DOMAIN base.config.caseOf : Measured(base.answers[task])
     /\ DOMAIN given = TaskIds
     /\ \A task \in TaskIds : Measured(given[task])
     /\ \A case \in Cases(Config) :
          LET b == TimesOf(base.config.caseOf, base.answers, case)
              c == TimesOf(Config.caseOf, given, case)
          IN /\ Cardinality(DOMAIN b) >= policy.minimum
             /\ Cardinality(DOMAIN c) >= policy.minimum
             /\ policy.equalCounts => Cardinality(DOMAIN b) = Cardinality(DOMAIN c)
             /\ CloseTogether(b, policy.percent) /\ CloseTogether(c, policy.percent)
             /\ controls(base.config.caseOf, base.answers, case)
                  = controls(Config.caseOf, given, case)
             /\ Cardinality(controls(Config.caseOf, given, case)) = 1

\* The times in the middle: at least half of the times are not above them, and at
\* least half are not below.  The median is between the least and the greatest.
Middle(times) ==
  {x \in Range(times) :
     /\ 2 * Cardinality({i \in DOMAIN times : times[i] <= x}) >= Cardinality(DOMAIN times)
     /\ 2 * Cardinality({i \in DOMAIN times : times[i] >= x}) >= Cardinality(DOMAIN times)}

TwiceMiddle(times) ==
  LET low == CHOOSE x \in Middle(times) : \A y \in Middle(times) : x <= y
      high == CHOOSE x \in Middle(times) : \A y \in Middle(times) : y <= x
  IN low + high

\* The median of a case is more than so many percent above that of the baseline.
Slower(base, given, case, threshold) ==
  LET b == TimesOf(base.config.caseOf, base.answers, case)
      c == TimesOf(Config.caseOf, given, case)
  IN 100 * (TwiceMiddle(c) - TwiceMiddle(b)) > threshold * TwiceMiddle(b)

\* A worker whose exit code contradicts its valid response.
Contradicts(answer) ==
  (answer.kind = "ok" /\ answer.code # 0) \/ (answer.kind = "error" /\ answer.code = 0)

\* Whatever happened to the candidate's process, a run that loads is refused
\* only for a worker whose exit contradicts its response.  Otherwise it is
\* compared: with no verdict unless both runs measured all there was to measure
\* in the same way, and then "fail" if and only if a case is slower by more
\* than the threshold (benchmark_v2_compare.py, compare_runs()).
VerdictJustified ==
  Loads =>
    LET given == [task \in DOMAIN raw.lines |-> answers[task]]
    IN /\ InputAccepted(Candidate) <=> \A task \in DOMAIN given : ~Contradicts(given[task])
       /\ InputAccepted(Candidate) =>
            \A base \in Baselines, policy \in Policies :
              Comparison(Finished(base), Candidate, policy).verdict =
                IF ~Fair(base, given, policy) THEN "not comparable"
                ELSE IF \E case \in Cases(Config) : Slower(base, given, case, policy.threshold)
                THEN "fail" ELSE "pass"

\* "It refuses a pass/fail regression verdict when either run is not complete":
\* every run that loads is input to a comparison.
LoadedRunsAccepted == Loads => InputAccepted(Candidate)

\* Processes that write the comparison one after another leave both files of one
\* of them or none, unless one was killed or could not remove its first file;
\* what a process said that it wrote stays as it is.
ReportsPaired ==
  ~overlapped =>
    /\ \A p \in Reporters : place[p] = "written" => json = p /\ markdown = p
    /\ markdown # 0 => json = markdown
    /\ json # 0 /\ markdown = 0 => json \in Busy \/ place[json] = "left"

\* "reject collisions rather than overwriting an earlier comparison artifact":
\* and if they run at the same time?
WrittenStays == \A p \in Reporters : place[p] = "written" => json = p /\ markdown = p
=============================================================================
