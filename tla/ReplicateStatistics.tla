------------------------ MODULE ReplicateStatistics ------------------------
(***************************************************************************)
(* How Benchmark v2 summarises the replicates of a case                    *)
(* (benchmark_v2_statistics.py).  A record is a line of the raw file: its  *)
(* task, its status and the response of its worker.  No summary depends on *)
(* the order of the records, so those of a case, or those that succeeded,  *)
(* keep the places that they have among all.  Times are whole              *)
(* milliseconds; what is not whole is compared after multiplying out.      *)
(***************************************************************************)
EXTENDS Integers, Sequences, FiniteSets, Functions

Succeeded(record) == record.status = "ok"
Successful(records) == RestrictValues(records, Succeeded)

Times(records) ==
  LET ok == Successful(records)
  IN [i \in DOMAIN ok |-> ok[i].response.measured.time]

\* The k-th smallest of some numbers.
Smallest(k, numbers) ==
  CHOOSE x \in Range(numbers) :
    /\ Cardinality({i \in DOMAIN numbers : numbers[i] < x}) < k
    /\ k <= Cardinality({i \in DOMAIN numbers : numbers[i] <= x})

\* Twice the median: of an even number of times it is the middle of two.
TwiceMedian(times) ==
  LET n == Cardinality(DOMAIN times)
  IN Smallest((n + 1) \div 2, times) + Smallest((n \div 2) + 1, times)

\* The coefficient of variation: 100 * deviation / mean > percent, squared.
Unstable(times, percent) ==
  LET n == Cardinality(DOMAIN times)
      squares == SumFunction([i \in DOMAIN times |-> times[i] * times[i]])
      sum == SumFunction(times)
  IN 10000 * (n * squares - sum * sum) > percent * percent * sum * sum

\* Too few measurements, or too far apart.
Stability(records, minimum, percent) ==
  IF Cardinality(DOMAIN Times(records)) < minimum THEN "insufficient"
  ELSE IF Unstable(Times(records), percent) THEN "unstable" ELSE "stable"

\* summarize_replicates(): failures are counted, and have no time.
Summary(records, minimum, percent) ==
  LET times == Times(records)
  IN [replicates |-> Cardinality(DOMAIN records), successes |-> Cardinality(DOMAIN times),
      median |-> IF DOMAIN times = {} THEN 0 ELSE TwiceMedian(times),
      stability |-> Stability(records, minimum, percent)]

\* The cases of some records, by the configuration of the run.
CasesOf(config, records) == {config.caseOf[records[i].task] : i \in DOMAIN records}

OfCase(config, records, case) ==
  LET IsOf(record) == config.caseOf[record.task] = case
  IN RestrictValues(records, IsOf)

\* A row for each case that has a record.
Summaries(config, records, minimum, percent) ==
  [case \in CasesOf(config, records) |->
     Summary(OfCase(config, records, case), minimum, percent)]
=============================================================================
