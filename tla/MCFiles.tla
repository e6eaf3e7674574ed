------------------------------ MODULE MCFiles ------------------------------
(***************************************************************************)
(* An instance of TrainingRun, one of BenchmarkRun with the comparison and *)
(* the processes that write it, and one of StoryData for TLC: the programs *)
(* that leave files behind.  They share nothing, so that it is enough to   *)
(* let one move while the others are as they were in the beginning.        *)
(***************************************************************************)
EXTENDS TrainingRun, BenchmarkComparison, StoryData

-----------------------------------------------------------------------------
(* Training: the last loss is far below the first, 90% of it or more, or   *)
(* far below it after one that is not finite.                              *)

Curves ==
  {[n \in 1 .. MaxSteps |-> IF n = 1 THEN 20 ELSE IF n = MaxSteps THEN last ELSE 22] :
     last \in {11, 18, 19}}
    \cup {[n \in 1 .. MaxSteps |-> IF n = 2 THEN NotFinite ELSE 21 - n]}

-----------------------------------------------------------------------------
(* Two cases of two replicates, in the order of execution.                 *)

TwoCases == [caseOf |-> <<1, 2, 2, 1>>, minimum |-> 2, percent |-> 5]

\* A median of 11 is exactly 10 percent more than one of 10, and 10 and 12 are
\* more than 5 and less than 10 percent apart.
MeasuredTimes ==
  {[time |-> 10, controls |-> 1], [time |-> 12, controls |-> 1], [time |-> 10, controls |-> 2]}

Ok(t) == [kind |-> "ok", code |-> 0, measured |-> [time |-> t, controls |-> 1]]
Bad == [kind |-> "error", code |-> 1]

RunOf(config, machine, given) == [config |-> config, machine |-> machine, answers |-> given]

Runs ==
  {RunOf(TwoCases, "here", <<Ok(10), Ok(10), Ok(10), Ok(10)>>),
   RunOf(TwoCases, "here", <<Ok(10), Ok(10), Ok(12), Ok(10)>>),
   RunOf(TwoCases, "here", <<Ok(10), Bad, Ok(12), Ok(10)>>),
   RunOf(TwoCases, "unknown", <<Ok(10), Ok(10), Ok(10), Ok(10)>>),
   RunOf([TwoCases EXCEPT !.caseOf = <<1, 2, 2>>], "here", <<Ok(10), Ok(10), Ok(10)>>)}

TwoPolicies ==
  {[minimum |-> 2, percent |-> 10, threshold |-> 10, equalCounts |-> TRUE],
   [minimum |-> 1, percent |-> 5, threshold |-> 10, equalCounts |-> FALSE]}

-----------------------------------------------------------------------------
(* Stories of two worlds and two tones.                                    *)

Row(id, copy, part, cell) ==
  [id |-> id, copy |-> copy, partition |-> part, cell |-> cell, rank |-> (id * 7) % 11]

\* Two stories for each cell to train with, and two for validation.
Rows ==
  {Row(id, 1, "train", <<1 + (id \div 4), 1 + (id % 4) \div 2>>) : id \in 0 .. 7}
    \cup {Row(8, 1, "val", <<1, 2>>), Row(9, 1, "val", <<2, 1>>)}

\* A second text of an id in its cell and in another, and a row without a cell.
Odd == {Row(0, 2, "train", <<1, 1>>), Row(3, 2, "train", <<2, 1>>), Row(10, 1, "train", <<0, 0>>)}

\* A story is missing, or both of a cell, or none, or a row is odd.
Parquets ==
  UNION {{Rows \ {a, b} : b \in {row \in Rows : row.cell = a.cell}} : a \in Rows}
    \cup {Rows} \cup {Rows \cup {odd} : odd \in Odd}

\* Six are more than the cells of a world share equally.
Amounts == {[train |-> 6, val |-> 1], [train |-> 3, val |-> 2]}

-----------------------------------------------------------------------------
FilesInit == Init /\ BenchmarkInit /\ ReportInit /\ StoryInit

TrainingStep ==
  /\ BenchmarkInit /\ ReportInit /\ StoryInit /\ source = Rows
  /\ Next
  /\ UNCHANGED <<benchmarkVars, reportVars, storyVars>>

BenchmarkStep ==
  /\ Init /\ ReportInit /\ StoryInit /\ source = Rows
  /\ BenchmarkNext
  /\ UNCHANGED <<vars, reportVars, storyVars>>

WriterStep ==
  /\ Init /\ BenchmarkInit /\ StoryInit /\ source = Rows
  /\ ReportNext
  /\ UNCHANGED <<vars, benchmarkVars, storyVars>>

StoryStep ==
  /\ Init /\ BenchmarkInit /\ ReportInit
  /\ StoryNext
  /\ UNCHANGED <<vars, benchmarkVars, reportVars>>

FilesSpec ==
  /\ FilesInit
  /\ [][TrainingStep \/ BenchmarkStep \/ WriterStep \/ StoryStep]_
       <<vars, benchmarkVars, reportVars, storyVars>>
=============================================================================
