----------------------------- MODULE StoryData -----------------------------
(***************************************************************************)
(* Preparation of the Story Forge dataset, story_data.py: two passes over  *)
(* the source, the first to count what each cell (a world and a tone) has  *)
(* and to share the wanted stories among the cells, the second to keep the *)
(* smallest ranks of each; then the files, written beside the output       *)
(* directory and swapped into its place.                                   *)
(*                                                                         *)
(* A row is the record of its id, its copy (rows may share an id), its     *)
(* partition, its cell and its rank, the hash of its id; NoCell marks one  *)
(* that no world, tone or theme fits.  A pass reads the rows in any order. *)
(* Processes follow one another; each may fail, be interrupted or be       *)
(* killed between any two steps.                                           *)
(***************************************************************************)
EXTENDS Integers, Sequences, FiniteSets, Functions

CONSTANTS
  NWorlds, NTones,  \* WORLDS and TONES, by their places
  Sources,          \* sets of rows: the parquet files
  Wanted,           \* pairs of --train-stories and --val-stories
  MaxPreparations   \* bound: processes

VARIABLES
  source,       \* the rows of the source
  prepare,      \* the process: where it is, and its locals
  staging,      \* its directory beside the output
  output,       \* the output directory
  backup,       \* the directory that the output is moved to
  preparations, \* processes so far
  prepared,     \* history: a dataset has been in the output directory
  stranded      \* history: a swap back failed

storyVars == <<source, prepare, staging, output, backup, preparations, prepared, stranded>>

Worlds == 1 .. NWorlds
Tones == 1 .. NTones
Cells == Worlds \X Tones
NoCell == <<0, 0>>
Partitions == {"train", "val"}

\* Both amounts are positive; a source is finite, rows of one id differ in their
\* copies, and no two ids have the same SHA-256.
ASSUME StoryAssumption ==
  /\ NWorlds \in Nat \ {0} /\ NTones \in Nat \ {0}
  /\ \A wanted \in Wanted : \A part \in Partitions : wanted[part] \in Nat \ {0}
  /\ \A rows \in Sources :
       /\ IsFiniteSet(rows)
       /\ \A row \in rows :
            /\ row.partition \in Partitions /\ row.cell \in Cells \cup {NoCell}
            /\ row.rank \in Nat /\ row.copy \in Nat
       /\ \A a, b \in rows :
            /\ a.id = b.id <=> a.rank = b.rank
            /\ a.id = b.id /\ a.copy = b.copy => a = b

-----------------------------------------------------------------------------
(* Quotas.                                                                 *)

Least(a, b) == IF a < b THEN a ELSE b
Clamp(n, high) == IF n < 0 THEN 0 ELSE Least(n, high)

\* divmod() shares n among parts, one more for the first of them.
Share(n, parts, place) == n \div parts + (IF place <= n % parts THEN 1 ELSE 0)

\* The place of a cell in the order of the worlds and their tones.
Place(cell) == (cell[1] - 1) * NTones + cell[2]

TotalOf(q, S) == SumFunction(Restrict(q, S))

OfWorld(w) == {w} \X Tones

\* Equal quotas, as far as each cell has stories.
Equal(desired, avail) ==
  [cell \in Cells |-> Least(Share(desired, NWorlds * NTones, Place(cell)), avail[cell])]

\* Mutant: a world that has more than its share keeps it.
UpToMarginals(desired, avail, q) ==
  [cell \in Cells |->
     LET missing == Share(desired, NWorlds, cell[1]) - TotalOf(q, OfWorld(cell[1]))
         before == {c \in OfWorld(cell[1]) : c[2] < cell[2]}
         spare == TotalOf(avail, before) - TotalOf(q, before)
     IN q[cell] + Clamp(missing - spare, avail[cell] - q[cell])]

\* Each world to its share: from the first of its cells that have more, or at
\* the cost of the last of them.
ToMarginals(desired, avail, q) ==
  [cell \in Cells |->
     LET missing == Share(desired, NWorlds, cell[1]) - TotalOf(q, OfWorld(cell[1]))
         before == {c \in OfWorld(cell[1]) : c[2] < cell[2]}
         after == {c \in OfWorld(cell[1]) : c[2] > cell[2]}
         spare == TotalOf(avail, before) - TotalOf(q, before)
     IN IF missing >= 0
        THEN q[cell] + Clamp(missing - spare, avail[cell] - q[cell])
        ELSE q[cell] - Clamp(-missing - TotalOf(q, after), q[cell])]

\* What is still missing, one story for each cell that has more in each round.
Filled(desired, avail, q) ==
  LET deficit == Clamp(desired - TotalOf(q, Cells), desired)
      Given(r) == [cell \in Cells |-> q[cell] + Least(r, avail[cell] - q[cell])]
      Used(r) == TotalOf(Given(r), Cells) - TotalOf(q, Cells)
      rounds == CHOOSE r \in 0 .. deficit :
                  Used(r) <= deficit /\ (r = deficit \/ Used(r + 1) > deficit)
      more == {cell \in Cells : avail[cell] - q[cell] > rounds}
      Turn(cell) == Cardinality({c \in more : Place(c) <= Place(cell)})
  IN [cell \in Cells |->
        Given(rounds)[cell]
          + (IF cell \in more /\ Turn(cell) <= deficit - Used(rounds) THEN 1 ELSE 0)]

Enough(desired, avail) == TotalOf(avail, Cells) >= desired

\* compute_quotas()
Quotas(desired, avail) ==
  Filled(desired, avail, ToMarginals(desired, avail, Equal(desired, avail)))

-----------------------------------------------------------------------------
(* Rows.                                                                   *)

\* _classify_row()
Eligible(row) == row.cell # NoCell

\* _scan_counts(): bucket_counts of a partition.
Counts(rows, part) ==
  [cell \in Cells |-> Cardinality({row \in rows : row.partition = part /\ row.cell = cell})]

\* The row that a full heap gives up: the largest rank, and of rows that share
\* an id the one whose text comes first.
Largest(heap) ==
  CHOOSE row \in heap : \A other \in heap \ {row} :
    other.rank < row.rank \/ (other.rank = row.rank /\ row.copy < other.copy)

\* heappush(), and heappop() when the heap has more than its quota.
Pushed(heap, row, quota) ==
  LET pushed == heap \cup {row}
  IN IF Cardinality(pushed) > quota THEN pushed \ {Largest(pushed)} ELSE pushed

\* _finalize_records(): in the order of their ranks, which are different.
ByRank(rows) ==
  [i \in 1 .. Cardinality(rows) |->
     CHOOSE row \in rows : Cardinality({other \in rows : other.rank <= row.rank}) = i]

Ids(rows) == {row.id : row \in rows}
HasDuplicates(rows) == Cardinality(Ids(rows)) < Cardinality(rows)

-----------------------------------------------------------------------------
(* Directories.                                                            *)

NoDirectory == [kind |-> "none"]

\* A directory is whole or has only some of its files, all of one dataset.
Directory(data, whole) == [kind |-> "directory", data |-> data, whole |-> whole]

NoProcess == [at |-> "idle"]

StoryInit ==
  /\ prepare = NoProcess
  /\ staging = NoDirectory /\ output = NoDirectory /\ backup = NoDirectory
  /\ preparations = 0
  /\ prepared = FALSE /\ stranded = FALSE
  /\ source \in Sources

PrepareAt(place) == prepare.at = place
PrepareTo(place) == prepare' = [prepare EXCEPT !.at = place]

(***************************************************************************)
(* The passes.                                                             *)
(***************************************************************************)

\* _scan_counts() and compute_quotas()
FirstPass ==
  /\ PrepareAt("idle") /\ preparations < MaxPreparations
  /\ preparations' = preparations + 1
  /\ \E wanted \in Wanted :
       LET avail == [part \in Partitions |-> Counts(source, part)]
       IN IF \A part \in Partitions : Enough(wanted[part], avail[part])
          THEN prepare' =
                 [at |-> "select", wanted |-> wanted, unread |-> source, kept |-> {},
                  quota |-> [part \in Partitions |-> Quotas(wanted[part], avail[part])]]
          ELSE prepare' = NoProcess
  /\ UNCHANGED <<source, staging, output, backup, prepared, stranded>>

\* _select_records(): one row.
SelectRow ==
  /\ PrepareAt("select")
  /\ \E row \in prepare.unread :
       LET heap == {other \in prepare.kept :
                      other.partition = row.partition /\ other.cell = row.cell}
           quota == prepare.quota[row.partition][row.cell]
           kept == IF Eligible(row) /\ quota > 0
                   THEN (prepare.kept \ heap) \cup Pushed(heap, row, quota)
                   ELSE prepare.kept
       IN prepare' = [prepare EXCEPT !.unread = @ \ {row}, !.kept = kept]
  /\ UNCHANGED <<source, staging, output, backup, preparations, prepared, stranded>>

\* _finalize_records() and the test for an overlap; the tokenizer is trained on
\* the training stories in order, and the arrays are encoded with it.
Finalize ==
  /\ PrepareAt("select") /\ prepare.unread = {}
  /\ LET Of(part) == {row \in prepare.kept : row.partition = part}
     IN IF \/ \E part \in Partitions : HasDuplicates(Of(part))
           \/ Ids(Of("train")) \cap Ids(Of("val")) # {}
        THEN prepare' = NoProcess
        ELSE prepare' = [at |-> "stage", had |-> output # NoDirectory,
                         data |-> [wanted |-> prepare.wanted,
                                   train |-> ByRank(Of("train")), val |-> ByRank(Of("val"))]]
  /\ UNCHANGED <<source, staging, output, backup, preparations, prepared, stranded>>

(***************************************************************************)
(* The staging directory.                                                  *)
(***************************************************************************)

\* mkdtemp(), the arrays, the tokenizer; a failure is RemoveStaging.
Stage ==
  /\ PrepareAt("stage")
  /\ staging' = Directory(prepare.data, FALSE)
  /\ PrepareTo("metadata")
  /\ UNCHANGED <<source, output, backup, preparations, prepared, stranded>>

\* metadata.json is the last file; _validate_staging() reads them again.
WriteMetadata ==
  /\ PrepareAt("metadata")
  /\ staging' = [staging EXCEPT !.whole = TRUE]
  /\ PrepareTo("publish")
  /\ UNCHANGED <<source, output, backup, preparations, prepared, stranded>>

\* An exception before _publish() returns: finally removes the directory.  If
\* that fails too, it stays, under a name that nothing reads.
StagingFails ==
  /\ prepare.at \in {"stage", "metadata"}
  /\ PrepareTo("remove staging")
  /\ UNCHANGED <<source, staging, output, backup, preparations, prepared, stranded>>

RemoveStaging ==
  /\ PrepareAt("remove staging")
  /\ staging' = NoDirectory
  /\ prepare' = NoProcess
  /\ UNCHANGED <<source, output, backup, preparations, prepared, stranded>>

(***************************************************************************)
(* _publish()                                                              *)
(***************************************************************************)

\* A backup that an earlier process has left.
RemoveOldBackup ==
  /\ PrepareAt("publish") /\ output # NoDirectory /\ backup # NoDirectory
  /\ backup' = NoDirectory
  /\ UNCHANGED <<source, prepare, staging, output, preparations, prepared, stranded>>

MoveAside ==
  /\ PrepareAt("publish") /\ output # NoDirectory /\ backup = NoDirectory
  /\ backup' = output
  /\ output' = NoDirectory
  /\ UNCHANGED <<source, prepare, staging, preparations, prepared, stranded>>

MoveIn ==
  /\ PrepareAt("publish") /\ output = NoDirectory
  /\ output' = staging
  /\ staging' = NoDirectory
  /\ prepared' = TRUE
  /\ PrepareTo("published")
  /\ UNCHANGED <<source, backup, preparations, stranded>>

\* A call fails, the removal of the old backup half way, or an interrupt comes.
PublishRaises ==
  /\ prepare.at \in {"publish", "published"}
  /\ PrepareTo("restore")
  /\ backup' \in IF output # NoDirectory /\ backup # NoDirectory /\ PrepareAt("publish")
                 THEN {backup, [backup EXCEPT !.whole = FALSE]} ELSE {backup}
  /\ UNCHANGED <<source, staging, output, preparations, prepared, stranded>>

\* The exception handler swaps back.
Restore ==
  /\ PrepareAt("restore")
  /\ IF backup # NoDirectory /\ output = NoDirectory
     THEN output' = backup /\ backup' = NoDirectory
     ELSE UNCHANGED <<output, backup>>
  /\ PrepareTo("remove backup")
  /\ UNCHANGED <<source, staging, preparations, prepared, stranded>>

\* So may the swap back fail, or be interrupted.
RestoreFails ==
  /\ PrepareAt("restore") /\ backup # NoDirectory /\ output = NoDirectory
  /\ stranded' = TRUE
  /\ PrepareTo("remove backup")
  /\ UNCHANGED <<source, staging, output, backup, preparations, prepared>>

\* finally: as much of the backup as can be removed.
RemoveBackup ==
  /\ prepare.at \in {"published", "remove backup"}
  /\ backup' \in IF backup = NoDirectory THEN {NoDirectory} ELSE {NoDirectory, [backup EXCEPT !.whole = FALSE]}
  /\ prepare' = IF PrepareAt("published") THEN NoProcess ELSE [prepare EXCEPT !.at = "remove staging"]
  /\ UNCHANGED <<source, staging, output, preparations, prepared, stranded>>

\* The process is killed, in the middle of what it removes perhaps.
KillPreparation ==
  /\ ~PrepareAt("idle")
  /\ prepare' = NoProcess
  /\ staging' = NoDirectory
  /\ \/ UNCHANGED backup
     \/ /\ backup # NoDirectory
        /\ prepare.at \in {"published", "remove backup"} \/ (PrepareAt("publish") /\ output # NoDirectory)
        /\ backup' = [backup EXCEPT !.whole = FALSE]
  /\ UNCHANGED <<source, output, preparations, prepared, stranded>>

StoryNext ==
  \/ FirstPass \/ SelectRow \/ Finalize
  \/ Stage \/ WriteMetadata \/ StagingFails \/ RemoveStaging
  \/ RemoveOldBackup \/ MoveAside \/ MoveIn \/ PublishRaises
  \/ Restore \/ RestoreFails \/ RemoveBackup \/ KillPreparation

StorySpec == StoryInit /\ [][StoryNext]_storyVars

-----------------------------------------------------------------------------
(* Properties.                                                             *)

Of(rows, part, w) == {row \in rows : row.partition = part /\ row.cell \in OfWorld(w)}

\* The selection of a partition, whatever the order of the rows: as many stories
\* as wanted, no world below its share while it has more, the smallest ranks of
\* each cell, in order, each id once.
Selected(rows, part, list, wanted) ==
  LET chosen == Range(list)
  IN /\ Len(list) = wanted
     /\ chosen \subseteq {row \in rows : Eligible(row) /\ row.partition = part}
     /\ \A i, j \in 1 .. Len(list) : i < j => list[i].rank < list[j].rank
     /\ \A w \in Worlds :
          Cardinality(chosen \cap Of(rows, part, w))
            >= Least(Share(wanted, NWorlds, w), Cardinality(Of(rows, part, w)))
     /\ \A row \in chosen, other \in rows \ chosen :
          row.partition = other.partition /\ row.cell = other.cell => row.rank <= other.rank

\* The stories of both partitions, and none in both.
DataExact(rows, data) ==
  /\ \A part \in Partitions : Selected(rows, part, data[part], data.wanted[part])
  /\ Ids(Range(data["train"])) \cap Ids(Range(data["val"])) = {}

SelectionExact == output # NoDirectory => DataExact(source, output.data)

\* "Any failure preserves the prior output": the output is a whole dataset, a
\* process that fails leaves one if there was one, and after a kill the output
\* or the backup is whole; all this as long as no swap back fails.
PriorPreserved ==
  ~stranded =>
    /\ output # NoDirectory => output.whole
    /\ PrepareAt("remove staging") /\ prepare.had => output # NoDirectory
    /\ prepared => \E directory \in {output, backup} \ {NoDirectory} : directory.whole

\* What is published is exact, and is not lost.
StoriesSafe == SelectionExact /\ PriorPreserved

\* "Any failure preserves the prior output", the failure of the swap back
\* included.
PriorAlwaysSurvives ==
  prepared => \E directory \in {output, backup} \ {NoDirectory} : directory.whole
=============================================================================
