---------------------- MODULE PagedKVCachePool_proofs ----------------------
(***************************************************************************)
(* Proofs about PagedKVCachePool for every value of its constants.  First, *)
(* its types.  Then, that the free heap, the metadata, the tables and the  *)
(* prefix index stay four views of the same blocks, and that shared blocks *)
(* keep the data that their hash names.  Then, that a table stays within its *)
(* reservation, that the pool implements RequestCacheStore (to every request *)
(* its cache looks like its own), and that what was promised at admission can *)
(* be had.                                                                 *)
(***************************************************************************)
EXTENDS PagedKVCachePool, FiniteSetTheorems, TLAPS

-----------------------------------------------------------------------------
(* Operators.                                                              *)

\* A ceiling is a natural number, and is at least the floor.
LEMMA RequiredBlocksBounds ==
    ASSUME NEW n \in Nat
    PROVE  /\ RequiredBlocks(n) \in Nat
           /\ n \div BlockTokens <= RequiredBlocks(n)
<1>1. BlockTokens \in Nat \ {0}
  BY PoolAssumption
<1> QED
  BY <1>1, SMTT(30) DEF RequiredBlocks

\* Position finds an element that is there.
LEMMA PositionFound ==
    ASSUME NEW s, NEW e, \E i \in 1 .. Len(s) : s[i] = e
    PROVE  Position(s, e) \in 1 .. Len(s) /\ s[Position(s, e)] = e
BY DEF Position

\* A function from 1 .. n into the blocks is a sequence of blocks.
LEMMA SequenceOfBlocks ==
    ASSUME NEW S, NEW n \in Nat, NEW f \in [1 .. n -> S]
    PROVE  f \in Seq(S) /\ Len(f) = n /\ DOMAIN f = 1 .. n
OBVIOUS

\* Each hash of a chain is one of Hashes.
LEMMA ChainType ==
    ASSUME NEW r \in Requests
    PROVE  /\ Chain[r] \in Seq(Hashes)
           /\ Len(Chain[r]) \in Nat
           /\ \A i \in 1 .. Len(Chain[r]) : Chain[r][i] \in Hashes
<1>1. Chain[r] \in Seq(Hashes)
  BY PoolAssumption
<1> QED
  BY <1>1

\* A pool has finitely many blocks.
LEMMA BlocksFinite == IsFiniteSet(Blocks) 
BY FS_Interval, PoolAssumption DEF Blocks

\* The absent block is not a block.
LEMMA NoBlockIsNone == NoBlock \notin Blocks /\ NoBlock \in Int
BY DEF Blocks, NoBlock

-----------------------------------------------------------------------------
(* Type correctness.  Two facts make it inductive: a shared block has a     *)
(* hash, so an eviction notice is one, and a request about to be promoted   *)
(* has a block for each hash of its chain.                                  *)

SharedHaveHash == \A b \in Blocks : blocks[b].state = "shared" => blocks[b].hash \in Hashes

PromotableInTable ==
    \A r \in Requests : engine = MustPromote(r) => Len(Chain[r]) <= Len(tables[r].ids)

TypeInv == TypeOK /\ SharedHaveHash /\ PromotableInTable

\* A new pool is well typed.
LEMMA TypeInvInit == Init => TypeInv
<1> SUFFICES ASSUME Init PROVE TypeInv
  OBVIOUS
<1>1. TypeOK
  BY PoolAssumption
  DEF Init, TypeOK, BlockType, TableType, EngineType, FreeBlock, NoTable, Tags
<1>2. SharedHaveHash
  BY DEF Init, SharedHaveHash, FreeBlock
<1>3. PromotableInTable
  BY DEF Init, PromotableInTable, Idle, MustPromote
<1> QED
  BY <1>1, <1>2, <1>3 DEF TypeInv

\* The records a block or a table is reset to.
LEMMA ResetValues ==
    /\ FreeBlock \in BlockType
    /\ \A r \in Requests : PrivateBlock(r) \in BlockType
    /\ NoTable \in TableType
<1>1. FreeBlock \in BlockType
  BY DEF FreeBlock, BlockType
<1>2. ASSUME NEW r \in Requests PROVE PrivateBlock(r) \in BlockType
  BY <1>1 DEF PrivateBlock, BlockType
<1>3. NoTable \in TableType
  BY DEF NoTable, TableType
<1> QED
  BY <1>1, <1>2, <1>3

\* What a request may ask the pool to protect.
LEMMA DemandType ==
    ASSUME NEW r \in Requests, NEW tokens \in Nat
    PROVE  /\ PromptLen[r] \in Nat /\ Lifetime[r] \in Nat
           /\ AdmissionBlocks(r, tokens) \in Nat /\ LifetimeBlocks(r) \in Nat
<1>1. PromptLen[r] \in Nat /\ Lifetime[r] \in Nat
  BY PoolAssumption
<1> QED
  BY <1>1, RequiredBlocksBounds DEF AdmissionBlocks, LifetimeBlocks

\* The set of blocks freed, promoted or counted is always finite.
LEMMA BlockSetCardinality ==
    ASSUME NEW S \in SUBSET Blocks
    PROVE  IsFiniteSet(S) /\ Cardinality(S) \in Nat
BY BlocksFinite, FS_Subset, FS_CardinalityType

\* The three calls the engine may owe a pool are told apart.
LEMMA EngineDistinct ==
    ASSUME NEW r \in Requests, NEW s \in Requests
    PROVE  /\ Idle # MustPromote(s) /\ Idle # MustRelease(s)
           /\ MustRelease(r) # MustPromote(s)
           /\ MustPromote(r) = MustPromote(s) => r = s
           /\ MustRelease(r) = MustRelease(s) => r = s
BY DEF Idle, MustPromote, MustRelease

\* Reserving blocks privately keeps the pool well typed.
LEMMA ReserveType ==
    ASSUME TypeInv, NEW r \in Requests, NEW tokens \in 1 .. Window, Reserve(r, tokens)
    PROVE  TypeInv'
<1> USE DEF TypeInv
<1>1. AdmissionBlocks(r, tokens) \in Nat /\ LifetimeBlocks(r) \in Nat
  BY DemandType, PoolAssumption
<1>2. tables' \in [Requests -> TableType]
  <2>1. NoTable \in TableType
    BY ResetValues
  <2>2. [NoTable EXCEPT !.reserved = AdmissionBlocks(r, tokens), !.max = LifetimeBlocks(r)]
          \in TableType
    <3>1. AdmissionBlocks(r, tokens) \in Int /\ LifetimeBlocks(r) \in Nat
      BY <1>1
    <3> QED
      BY <2>1, <3>1 DEF TableType
  <2> QED
    BY <2>2 DEF Reserve, TypeOK
<1>3. phase' \in [Requests -> {"absent", "prefill", "resume", "decode", "preempted"}]
  BY DEF Reserve, TypeOK
<1>4. TypeOK'
  BY <1>2, <1>3 DEF Reserve, TypeOK
<1>5. SharedHaveHash'
  BY DEF Reserve, SharedHaveHash
<1>6. PromotableInTable'
  BY EngineDistinct DEF Reserve, PromotableInTable
<1> QED
  BY <1>4, <1>5, <1>6

\* Attaching a resident prefix to a new table keeps the pool well typed.
LEMMA ReserveWithPrefixType ==
    ASSUME TypeInv, NEW r \in Requests, ReserveWithPrefix(r)
    PROVE  TypeInv'
<1> USE DEF TypeInv
<1>1. PICK k \in 0 .. Len(Chain[r]) :
         LET hit == [i \in 1 .. k |-> prefixIndex[Chain[r][i]]]
             private == AdmissionBlocks(r, PromptLen[r]) - k
         IN  /\ LongestPrefix(r, k)
             /\ private >= 0
             /\ blocks' = [b \in Blocks |->
                   IF \E i \in 1 .. k : hit[i] = b
                   THEN [blocks[b] EXCEPT !.refs = @ + 1,
                                          !.lastUsed = clock + Position(hit, b)]
                   ELSE blocks[b]]
             /\ clock' = clock + k
             /\ tables' = [tables EXCEPT ![r] =
                   [ids |-> hit, length |-> k * BlockTokens,
                    reserved |-> private, max |-> LifetimeBlocks(r)]]
             /\ prefixHit' = [prefixHit EXCEPT ![r] = k]
  BY DEF ReserveWithPrefix
<1> DEFINE hit == [i \in 1 .. k |-> prefixIndex[Chain[r][i]]]
<1>2. k \in Nat /\ \A i \in 1 .. k : Chain[r][i] \in Hashes
  BY ChainType
<1>3. hit \in Seq(Blocks) /\ Len(hit) = k
  <2>1. LongestPrefix(r, k)
    BY <1>1
  <2>2. hit \in [1 .. k -> Blocks]
    BY <2>1, <1>2 DEF LongestPrefix, TypeOK
  <2> QED
    BY <2>2, <1>2, SequenceOfBlocks
<1>4. AdmissionBlocks(r, PromptLen[r]) \in Nat /\ LifetimeBlocks(r) \in Nat
  BY DemandType
<1>5. k * BlockTokens \in Nat
  BY <1>2, PoolAssumption
<1>6. tables' \in [Requests -> TableType]
  <2> DEFINE t == [ids |-> hit, length |-> k * BlockTokens,
                   reserved |-> AdmissionBlocks(r, PromptLen[r]) - k, max |-> LifetimeBlocks(r)]
  <2>1. AdmissionBlocks(r, PromptLen[r]) - k \in Int
    BY <1>2, <1>4
  <2>2. t \in TableType
    BY <2>1, <1>3, <1>4, <1>5 DEF TableType
  <2>3. tables' = [tables EXCEPT ![r] = t]
    BY <1>1
  <2> QED
    BY <2>2, <2>3 DEF TypeOK
<1>7. \A b \in Blocks : (\E i \in 1 .. k : hit[i] = b) => Position(hit, b) \in Nat
  BY <1>2, <1>3, PositionFound
<1>8. blocks' \in [Blocks -> BlockType]
  <2>1. ASSUME NEW b \in Blocks PROVE blocks'[b] \in BlockType
    <3>1. blocks[b] \in BlockType /\ blocks[b].refs + 1 \in Int
      BY DEF TypeOK, BlockType
    <3>2. CASE \E i \in 1 .. k : hit[i] = b
      <4>1. clock \in Nat /\ Position(hit, b) \in Nat
        BY <1>7, <3>2 DEF TypeOK
      <4>2. clock + Position(hit, b) \in Nat
        BY <4>1
      <4>3. [blocks[b] EXCEPT !.refs = blocks[b].refs + 1,
                              !.lastUsed = clock + Position(hit, b)] \in BlockType
        BY <3>1, <4>2 DEF BlockType
      <4> QED
        BY <1>1, <3>1, <3>2, <4>3
    <3>3. CASE ~ \E i \in 1 .. k : hit[i] = b
      BY <1>1, <3>1, <3>3
    <3> QED
      BY <3>2, <3>3
  <2> QED
    BY <1>1, <2>1
<1>9. TypeOK'
  <2>1. clock \in Nat /\ prefixHit \in [Requests -> Nat]
    BY DEF TypeOK
  <2>3. prefixHit' \in [Requests -> Nat] /\ clock' \in Nat
    <3>1. clock' = clock + k /\ prefixHit' = [prefixHit EXCEPT ![r] = k]
      BY <1>1
    <3> QED
      BY <1>2, <2>1, <3>1
  <2>2. /\ UNCHANGED <<free, prefixIndex, evictionCount, content, engine>>
        /\ recentEvictions' = {}
        /\ phase' = [phase EXCEPT ![r] = "prefill"]
    BY DEF ReserveWithPrefix
  <2> QED
    BY <1>6, <1>8, <2>2, <2>3 DEF TypeOK
<1>10. SharedHaveHash'
  <2>1. ASSUME NEW b \in Blocks
        PROVE  blocks'[b].state = blocks[b].state /\ blocks'[b].hash = blocks[b].hash
    BY <1>1, <1>7 DEF TypeOK, BlockType
  <2> QED
    BY <2>1 DEF SharedHaveHash
<1>11. PromotableInTable'
  <2>1. engine = Idle /\ engine' = engine
    BY DEF ReserveWithPrefix
  <2> QED
    BY <2>1, EngineDistinct DEF PromotableInTable
<1> QED
  BY <1>9, <1>10, <1>11

\* Growing a reservation keeps the pool well typed.
LEMMA GrowReservationType ==
    ASSUME TypeInv, NEW r \in Requests, NEW target \in 1 .. NumBlocks, GrowReservation(r, target)
    PROVE  TypeInv'
<1> USE DEF TypeInv
<1>1. CurrentTotal(r) \in Int
  <2>1. SharedOf(r) \in SUBSET Blocks
    BY DEF SharedOf, BlocksOf, TypeOK, TableType
  <2> QED
    BY <2>1, BlockSetCardinality DEF CurrentTotal, TypeOK, TableType
<1>2. tables' \in [Requests -> TableType]
  <2>1. tables[r] \in TableType /\ tables[r].reserved + target - CurrentTotal(r) \in Int
    BY <1>1, PoolAssumption DEF TypeOK, TableType
  <2>2. tables' = [tables EXCEPT ![r] =
                     [@ EXCEPT !.reserved = tables[r].reserved + target - CurrentTotal(r)]]
    BY DEF GrowReservation
  <2>3. [tables[r] EXCEPT !.reserved = tables[r].reserved + target - CurrentTotal(r)]
          \in TableType
    BY <2>1 DEF TableType
  <2> QED
    BY <2>2, <2>3 DEF TypeOK
<1>3. TypeOK'
  BY <1>2 DEF GrowReservation, TypeOK
<1>4. SharedHaveHash'
  BY DEF GrowReservation, SharedHaveHash
<1>5. PromotableInTable'
  BY EngineDistinct DEF GrowReservation, PromotableInTable
<1> QED
  BY <1>3, <1>4, <1>5

\* Every write that allocates: the data are tags, and the call to come is one
\* the engine makes for r.
LEMMA WriteNewBlocksType ==
    ASSUME TypeInv, NEW r \in Requests, NEW count \in Int, NEW length \in Nat,
           NEW data \in [1 .. count -> Tags],
           NEW next \in {Idle, MustPromote(r), MustRelease(r)},
           WriteNewBlocks(r, count, data, length, next)
    PROVE  /\ blocks' \in [Blocks -> BlockType]
           /\ free' \in SUBSET Blocks
           /\ tables' \in [Requests -> TableType]
           /\ prefixIndex' \in [Hashes -> Blocks \cup {NoBlock}]
           /\ recentEvictions' \in SUBSET Hashes
           /\ evictionCount' \in Nat
           /\ content' \in [Blocks -> Tags]
           /\ engine' = next
           /\ SharedHaveHash'
           /\ next # MustRelease(r) =>
                Len(tables'[r].ids) = Len(tables[r].ids) + (IF count > 0 THEN count ELSE 0)
<1> USE DEF TypeInv
<1>1. PICK evicted \in SUBSET EvictableIn(blocks), new \in [1 .. count -> Blocks] :
        LET got == {new[i] : i \in 1 .. count}
            ok == next # MustRelease(r)
        IN
        /\ Allocates(blocks, free, count, evicted, new)
        /\ blocks' = Allocated(blocks, r, evicted, IF ok THEN got ELSE {})
        /\ free' = HeapAfter(free, evicted, IF ok THEN got ELSE {})
        /\ prefixIndex' = Unindexed(evicted)
        /\ recentEvictions' = IF next = Idle THEN {} ELSE Notices(evicted)
        /\ evictionCount' = evictionCount + Cardinality(evicted)
        /\ content' = [b \in Blocks |->
              IF b \in got THEN data[Position(new, b)] ELSE content[b]]
        /\ tables' = IF ok THEN [tables EXCEPT ![r].ids = @ \o new, ![r].length = length]
                           ELSE tables
        /\ engine' = next
  BY DEF WriteNewBlocks
<1> DEFINE got == {new[i] : i \in 1 .. count}
           n == IF count > 0 THEN count ELSE 0
<1>2. evicted \in SUBSET Blocks /\ \A b \in evicted : blocks[b].hash \in Hashes
  BY DEF EvictableIn, SharedHaveHash
<1>3. new \in Seq(Blocks) /\ Len(new) = n
  <2>1. n \in Nat /\ 1 .. count = 1 .. n
    OBVIOUS
  <2> QED
    BY <2>1
<1>4. Cardinality(evicted) \in Nat
  BY <1>2, BlockSetCardinality
<1>5. blocks' \in [Blocks -> BlockType]
  BY <1>1, ResetValues DEF Allocated, TypeOK
<1>6. free' \in SUBSET Blocks
  BY <1>1, <1>2 DEF HeapAfter, TypeOK
<1>7. tables' \in [Requests -> TableType]
  <2>1. tables[r] \in TableType /\ tables[r].ids \o new \in Seq(Blocks)
    BY <1>3 DEF TypeOK, TableType
  <2>2. [tables[r] EXCEPT !.ids = tables[r].ids \o new, !.length = length] \in TableType
    BY <2>1 DEF TableType
  <2>3. CASE next = MustRelease(r)
    BY <1>1, <2>3 DEF TypeOK
  <2>4. CASE next # MustRelease(r)
    <3>1. tables' = [tables EXCEPT ![r].ids = @ \o new, ![r].length = length]
      BY <1>1, <2>4
    <3> QED
      BY <2>2, <3>1 DEF TypeOK
  <2> QED
    BY <2>3, <2>4
<1>8. prefixIndex' \in [Hashes -> Blocks \cup {NoBlock}]
  BY <1>1 DEF Unindexed, TypeOK
<1>9. recentEvictions' \in SUBSET Hashes
  BY <1>1, <1>2 DEF Notices, TypeOK
<1>10. \A b \in got : Position(new, b) \in 1 .. count
  BY <1>3, PositionFound
<1>11. content' \in [Blocks -> Tags]
  BY <1>1, <1>10 DEF TypeOK
<1>12. SharedHaveHash'
  BY <1>1 DEF Allocated, PrivateBlock, FreeBlock, SharedHaveHash
<1>13. next # MustRelease(r) => Len(tables'[r].ids) = Len(tables[r].ids) + n
  BY <1>1, <1>3 DEF TypeOK, TableType
<1>14. evictionCount' \in Nat
  <2>1. evictionCount' = evictionCount + Cardinality(evicted) /\ evictionCount \in Nat
    BY <1>1 DEF TypeOK
  <2> QED
    BY <1>4, <2>1
<1>15. engine' = next
  BY <1>1
<1> QED
  BY <1>5, <1>6, <1>7, <1>8, <1>9, <1>11, <1>12, <1>13, <1>14, <1>15

\* The data a prompt block is written with.
LEMMA PromptDataType ==
    ASSUME NEW r \in Requests, NEW i \in Nat \ {0}
    PROVE  PromptData(r, i) \in Tags
BY ChainType DEF PromptData, Tags

\* Writing a whole prompt keeps the pool well typed.
LEMMA WritePrefillType ==
    ASSUME TypeInv, NEW r \in Requests, NEW n \in 1 .. Window, WritePrefill(r, n)
    PROVE  TypeInv'
<1> USE DEF TypeInv
<1> DEFINE count == RequiredBlocks(n)
           data == [i \in 1 .. count |-> IF phase[r] = "resume" THEN r ELSE PromptData(r, i)]
<1>1. PICK next \in {Idle, MustRelease(r)} :
          /\ WriteNewBlocks(r, count, data, n, next)
          /\ phase' = IF next = Idle THEN [phase EXCEPT ![r] = "decode"] ELSE phase
  BY DEF WritePrefill, Outcomes
<1>2. count \in Nat /\ n \in Nat
  BY RequiredBlocksBounds, PoolAssumption
<1>3. data \in [1 .. count -> Tags]
  <2>1. \A i \in 1 .. count : PromptData(r, i) \in Tags
    BY <1>2, PromptDataType
  <2> QED
    BY <2>1 DEF Tags
<1> HIDE DEF data, count
<1>4. /\ blocks' \in [Blocks -> BlockType]
      /\ free' \in SUBSET Blocks
      /\ tables' \in [Requests -> TableType]
      /\ prefixIndex' \in [Hashes -> Blocks \cup {NoBlock}]
      /\ recentEvictions' \in SUBSET Hashes
      /\ evictionCount' \in Nat
      /\ content' \in [Blocks -> Tags]
      /\ engine' = next
      /\ SharedHaveHash'
  <2>1. next \in {Idle, MustPromote(r), MustRelease(r)} /\ count \in Int
    BY <1>2
  <2> QED
    BY <1>1, <1>2, <1>3, <2>1, WriteNewBlocksType, ZenonT(60)
<1>5. clock' = clock /\ prefixHit' = prefixHit
  BY DEF WritePrefill
<1>6. phase' \in [Requests -> {"absent", "prefill", "resume", "decode", "preempted"}]
  BY <1>1 DEF TypeOK
<1>7. engine' \in EngineType
  BY <1>4 DEF EngineType
<1>8. TypeOK'
  BY <1>4, <1>5, <1>6, <1>7 DEF TypeOK
<1>9. PromotableInTable'
  BY <1>4, EngineDistinct DEF PromotableInTable
<1> QED
  BY <1>4, <1>8, <1>9

\* Writing what follows the resident prefix keeps the pool well typed.
LEMMA WritePrefillSuffixType ==
    ASSUME TypeInv, NEW r \in Requests, NEW n \in 0 .. Window, WritePrefillSuffix(r, n)
    PROVE  TypeInv'
<1> USE DEF TypeInv
<1> DEFINE length == tables[r].length + n
           count == RequiredBlocks(length) - Len(tables[r].ids)
           data == [i \in 1 .. count |-> PromptData(r, Len(tables[r].ids) + i)]
           last == length = PromptLen[r]
<1>1. PICK next \in {IF last /\ PrefixEnabled THEN MustPromote(r) ELSE Idle, MustRelease(r)} :
          /\ WriteNewBlocks(r, count, data, length, next)
          /\ phase' = IF last /\ next = Idle THEN [phase EXCEPT ![r] = "decode"] ELSE phase
  BY DEF WritePrefillSuffix, Outcomes
<1>2. tables[r].length \in Nat /\ tables[r].ids \in Seq(Blocks) /\ Len(tables[r].ids) \in Nat
  BY DEF TypeOK, TableType
<1>3. length \in Nat
  BY <1>2
<1>4. RequiredBlocks(length) \in Nat /\ length \div BlockTokens <= RequiredBlocks(length)
  BY <1>3, RequiredBlocksBounds
<1>5. count \in Int
  BY <1>2, <1>4
<1>6. data \in [1 .. count -> Tags]
  <2>1. ASSUME NEW i \in 1 .. count PROVE PromptData(r, Len(tables[r].ids) + i) \in Tags
    <3>1. Len(tables[r].ids) + i \in Nat \ {0}
      BY <1>2, <1>5, SMTT(30)
    <3> QED
      BY <3>1, PromptDataType
  <2> QED
    BY <2>1
<1>7. next \in {Idle, MustPromote(r), MustRelease(r)} /\ (next = MustPromote(r) => last)
  BY <1>1, EngineDistinct
<1>8. last => Len(Chain[r]) <= RequiredBlocks(length)
  <2>1. Len(Chain[r]) = PromptLen[r] \div BlockTokens
    BY PoolAssumption
  <2> QED
    BY <1>4, <2>1
<1>9. clock' = clock /\ prefixHit' = prefixHit
  BY DEF WritePrefillSuffix
<1> HIDE DEF data, count, length, last
<1>10. /\ blocks' \in [Blocks -> BlockType]
       /\ free' \in SUBSET Blocks
       /\ tables' \in [Requests -> TableType]
       /\ prefixIndex' \in [Hashes -> Blocks \cup {NoBlock}]
       /\ recentEvictions' \in SUBSET Hashes
       /\ evictionCount' \in Nat
       /\ content' \in [Blocks -> Tags]
       /\ engine' = next
       /\ SharedHaveHash'
       /\ next # MustRelease(r) =>
            Len(tables'[r].ids) = Len(tables[r].ids) + (IF count > 0 THEN count ELSE 0)
  BY <1>1, <1>3, <1>5, <1>6, <1>7, WriteNewBlocksType
<1>11. phase' \in [Requests -> {"absent", "prefill", "resume", "decode", "preempted"}]
  BY <1>1 DEF TypeOK
<1>12. engine' \in EngineType
  BY <1>7, <1>10 DEF EngineType
<1>13. TypeOK'
  BY <1>9, <1>10, <1>11, <1>12 DEF TypeOK
<1>14. PromotableInTable'
  <2>1. ASSUME NEW s \in Requests, engine' = MustPromote(s)
        PROVE  Len(Chain[s]) <= Len(tables'[s].ids)
    <3>1. s = r /\ next = MustPromote(r) /\ next # MustRelease(r)
      BY <1>7, <1>10, <2>1, EngineDistinct
    <3>2. Len(tables'[r].ids) >= RequiredBlocks(length)
      BY <1>2, <1>4, <1>5, <1>10, <3>1 DEF count
    <3>3. Len(Chain[r]) <= RequiredBlocks(length)
      BY <1>7, <1>8, <3>1
    <3>4. Len(Chain[r]) \in Int /\ Len(tables'[r].ids) \in Int
      BY <1>10, ChainType DEF TableType
    <3> QED
      BY <1>4, <3>1, <3>2, <3>3, <3>4
  <2> QED
    BY <2>1 DEF PromotableInTable
<1> QED
  BY <1>10, <1>13, <1>14

\* A token that opens a block keeps the pool well typed.
LEMMA AppendNewBlockType ==
    ASSUME TypeInv, NEW r \in Requests, AppendNewBlock(r)
    PROVE  TypeInv'
<1> USE DEF TypeInv
<1> DEFINE length == tables[r].length + 1
           data == <<r>>
<1>1. PICK next \in {Idle, MustRelease(r)} : WriteNewBlocks(r, 1, data, length, next)
  BY DEF AppendNewBlock, Outcomes
<1>2. length \in Nat
  BY DEF TypeOK, TableType
<1>3. data \in [1 .. 1 -> Tags]
  BY DEF Tags
<1>4. next \in {Idle, MustPromote(r), MustRelease(r)} /\ 1 \in Int
  OBVIOUS
<1> HIDE DEF data, length
<1>5. /\ blocks' \in [Blocks -> BlockType]
      /\ free' \in SUBSET Blocks
      /\ tables' \in [Requests -> TableType]
      /\ prefixIndex' \in [Hashes -> Blocks \cup {NoBlock}]
      /\ recentEvictions' \in SUBSET Hashes
      /\ evictionCount' \in Nat
      /\ content' \in [Blocks -> Tags]
      /\ engine' = next
      /\ SharedHaveHash'
  BY <1>1, <1>2, <1>3, <1>4, WriteNewBlocksType
<1>6. clock' = clock /\ prefixHit' = prefixHit /\ phase' = phase
  BY DEF AppendNewBlock
<1>7. engine' \in EngineType
  BY <1>5 DEF EngineType
<1>8. TypeOK'
  BY <1>5, <1>6, <1>7 DEF TypeOK
<1>9. PromotableInTable'
  BY <1>5, EngineDistinct DEF PromotableInTable
<1> QED
  BY <1>5, <1>8, <1>9

\* A token that goes into the tail block keeps the pool well typed.
LEMMA AppendTailType ==
    ASSUME TypeInv, NEW r \in Requests, AppendTail(r)
    PROVE  TypeInv'
<1> USE DEF TypeInv
<1>1. content' \in [Blocks -> Tags]
  <2>1. r \in Tags
    BY DEF Tags
  <2> QED
    BY <2>1 DEF AppendTail, TypeOK
<1>2. tables' \in [Requests -> TableType]
  <2>1. tables[r] \in TableType /\ tables[r].length + 1 \in Nat
    BY DEF TypeOK, TableType
  <2>2. [tables[r] EXCEPT !.length = tables[r].length + 1] \in TableType
    BY <2>1 DEF TableType
  <2> QED
    BY <2>2 DEF AppendTail, TypeOK
<1>3. engine' \in {Idle, MustRelease(r)}
  BY DEF AppendTail
<1>4. engine' \in EngineType
  BY <1>3 DEF EngineType
<1>5. recentEvictions' \in SUBSET Hashes
  BY DEF AppendTail, TypeOK
<1>6. TypeOK'
  BY <1>1, <1>2, <1>4, <1>5 DEF AppendTail, TypeOK
<1>7. SharedHaveHash'
  BY DEF AppendTail, SharedHaveHash
<1>8. PromotableInTable'
  BY <1>3, EngineDistinct DEF PromotableInTable
<1> QED
  BY <1>6, <1>7, <1>8

\* Reading the logits of a resident prompt keeps the pool well typed.
LEMMA ReadBoundaryLogitsType ==
    ASSUME TypeInv, NEW r \in Requests, ReadBoundaryLogits(r)
    PROVE  TypeInv'
<1> USE DEF TypeInv
<1> DEFINE b == tables[r].ids[Len(tables[r].ids)]
<1>1. /\ blocks' = [blocks EXCEPT ![b].lastUsed = clock + 1]
      /\ clock' = clock + 1
      /\ engine' = engine /\ engine = Idle
      /\ UNCHANGED <<free, tables, prefixIndex, recentEvictions, evictionCount, content,
                     phase, prefixHit>>
  BY DEF ReadBoundaryLogits
<1> HIDE DEF b
<1>2. clock' \in Nat
  BY <1>1 DEF TypeOK
<1>3. ASSUME NEW c \in Blocks
      PROVE  /\ blocks'[c] \in BlockType
             /\ blocks'[c].state = blocks[c].state /\ blocks'[c].hash = blocks[c].hash
  <2>1. blocks[c] \in BlockType /\ blocks \in [Blocks -> BlockType]
    BY DEF TypeOK
  <2>2. blocks'[c] = IF c = b THEN [blocks[c] EXCEPT !.lastUsed = clock'] ELSE blocks[c]
    BY <1>1, <2>1
  <2> QED
    BY <1>2, <2>1, <2>2 DEF BlockType
<1>4. blocks' \in [Blocks -> BlockType]
  BY <1>1, <1>3 DEF TypeOK
<1>5. TypeOK'
  BY <1>1, <1>2, <1>4 DEF TypeOK
<1>6. SharedHaveHash'
  BY <1>3 DEF SharedHaveHash
<1>7. PromotableInTable'
  BY <1>1, EngineDistinct DEF PromotableInTable
<1> QED
  BY <1>5, <1>6, <1>7

\* A promotion that raises keeps the pool well typed.
LEMMA PromoteRaisesType ==
    ASSUME TypeInv, NEW r \in Requests, PromoteRaises(r)
    PROVE  TypeInv'
<1> USE DEF TypeInv
<1>1. TypeOK'
  <2>1. engine' \in EngineType
    BY DEF PromoteRaises, EngineType
  <2> QED
    BY <2>1 DEF PromoteRaises, TypeOK
<1>2. SharedHaveHash'
  BY DEF PromoteRaises, SharedHaveHash
<1>3. PromotableInTable'
  BY EngineDistinct DEF PromoteRaises, PromotableInTable
<1> QED
  BY <1>1, <1>2, <1>3

\* Dropping a table keeps the metadata well typed, and every block that is
\* still shared was shared under the same hash before.
LEMMA DetachedType ==
    ASSUME TypeInv, NEW r \in Requests
    PROVE  /\ Detached(r) \in [Blocks -> BlockType]
           /\ \A b \in Blocks : Detached(r)[b].state = "shared" =>
                 /\ blocks[b].state = "shared"
                 /\ Detached(r)[b].hash = blocks[b].hash
<1> USE DEF TypeInv
<1>1. tables[r].ids \in Seq(Blocks) /\ clock \in Nat
  BY DEF TypeOK, TableType
<1>2. FreeBlock \in BlockType /\ FreeBlock.state = "free"
  BY ResetValues DEF FreeBlock
<1>3. ASSUME NEW b \in Blocks
      PROVE  /\ Detached(r)[b] \in BlockType
             /\ Detached(r)[b].state = "shared" =>
                  /\ blocks[b].state = "shared"
                  /\ Detached(r)[b].hash = blocks[b].hash
  <2>1. blocks[b] \in BlockType /\ blocks[b].refs - 1 \in Int
    BY DEF TypeOK, BlockType
  <2>2. CASE b \in PrivateOf(r)
    BY <1>2, <2>2 DEF Detached
  <2>3. CASE b \notin PrivateOf(r) /\ b \in SharedOf(r)
    <3>1. Position(tables[r].ids, b) \in 1 .. Len(tables[r].ids)
      BY <1>1, <2>3, PositionFound DEF SharedOf, BlocksOf
    <3>2. clock + Position(tables[r].ids, b) \in Nat
      BY <1>1, <3>1
    <3>3. Detached(r)[b] = [blocks[b] EXCEPT !.refs = blocks[b].refs - 1,
                              !.lastUsed = clock + Position(tables[r].ids, b)]
      BY <2>3 DEF Detached
    <3> QED
      BY <2>1, <2>3, <3>2, <3>3 DEF BlockType, SharedOf
  <2>4. CASE b \notin PrivateOf(r) /\ b \notin SharedOf(r)
    BY <2>1, <2>4 DEF Detached
  <2> QED
    BY <2>2, <2>3, <2>4
<1>4. Detached(r) = [b \in Blocks |-> Detached(r)[b]]
  BY DEF Detached
<1> QED
  BY <1>3, <1>4

\* The request's blocks are blocks, and how many there are is a number.
LEMMA HoldingsType ==
    ASSUME TypeInv, NEW r \in Requests
    PROVE  /\ PrivateOf(r) \in SUBSET Blocks /\ SharedOf(r) \in SUBSET Blocks
           /\ CurrentTotal(r) \in Int
           /\ Len(tables[r].ids) \in Nat
<1> USE DEF TypeInv
<1>1. tables[r].ids \in Seq(Blocks) /\ tables[r].reserved \in Int
  BY DEF TypeOK, TableType
<1>2. PrivateOf(r) \in SUBSET Blocks /\ SharedOf(r) \in SUBSET Blocks
  BY <1>1 DEF PrivateOf, SharedOf, BlocksOf
<1>3. Cardinality(SharedOf(r)) \in Nat
  BY <1>2, BlockSetCardinality
<1> QED
  BY <1>1, <1>2, <1>3 DEF CurrentTotal

\* release() keeps the types.
LEMMA ReleaseType ==
    ASSUME TypeInv, NEW r \in Requests, Release(r)
    PROVE  TypeInv'
<1> USE DEF TypeInv
<1>1. blocks' = Detached(r) /\ free' = free \cup PrivateOf(r) /\ engine' = Idle
      /\ tables' = [tables EXCEPT ![r] = NoTable] /\ clock' = clock + Len(tables[r].ids)
      /\ UNCHANGED <<prefixIndex, recentEvictions, evictionCount, content, prefixHit>>
  BY DEF Release
<1>2. phase' \in [Requests -> {"absent", "prefill", "resume", "decode", "preempted"}]
  BY DEF Release, TypeOK
<1>3. clock' \in Nat
  <2>1. clock \in Nat /\ Len(tables[r].ids) \in Nat
    BY HoldingsType DEF TypeOK
  <2> QED
    BY <1>1, <2>1
<1>4. blocks' \in [Blocks -> BlockType]
  BY <1>1, DetachedType
<1>5. free' \in SUBSET Blocks
  BY <1>1, HoldingsType DEF TypeOK
<1>6. tables' \in [Requests -> TableType]
  BY <1>1, ResetValues DEF TypeOK
<1>7. engine' \in EngineType
  BY <1>1 DEF EngineType
<1>8. TypeOK'
  BY <1>1, <1>2, <1>3, <1>4, <1>5, <1>6, <1>7 DEF TypeOK
<1>9. SharedHaveHash'
  BY <1>1, DetachedType DEF SharedHaveHash
<1>10. PromotableInTable'
  BY <1>1, EngineDistinct DEF PromotableInTable
<1> QED
  BY <1>8, <1>9, <1>10

\* release_all() keeps the types.
LEMMA ReleaseAllType ==
    ASSUME TypeInv, ReleaseAll
    PROVE  TypeInv'
<1> USE DEF TypeInv
<1> DEFINE freed == UNION {PrivateOf(r) : r \in Requests}
           refsLeft(b) == blocks[b].refs - Cardinality(References(b))
           evicted == {b \in Blocks : blocks[b].state = "shared" /\ refsLeft(b) = 0}
<1>1. /\ blocks' = [b \in Blocks |->
            IF b \in freed \cup evicted THEN FreeBlock
            ELSE IF blocks[b].state = "shared" THEN [blocks[b] EXCEPT !.refs = refsLeft(b)]
            ELSE blocks[b]]
      /\ free' = free \cup freed \cup evicted
      /\ prefixIndex' = Unindexed(evicted)
      /\ recentEvictions' = Notices(evicted)
      /\ evictionCount' = evictionCount + Cardinality(evicted)
      /\ tables' = [r \in Requests |-> NoTable]
      /\ phase' = [r \in Requests |-> "absent"]
      /\ engine' = Idle
      /\ UNCHANGED <<clock, content, prefixHit>>
  BY DEF ReleaseAll
<1>2. freed \in SUBSET Blocks
  BY HoldingsType
<1>3. evicted \in SUBSET Blocks /\ \A b \in evicted : blocks[b].hash \in Hashes
  BY DEF SharedHaveHash
<1>4. ASSUME NEW b \in Blocks PROVE refsLeft(b) \in Int
  <2>1. References(b) \in SUBSET Requests
    BY DEF References
  <2>2. Cardinality(References(b)) \in Nat
    BY <2>1, PoolAssumption, FS_Subset, FS_CardinalityType
  <2>3. blocks[b].refs \in Int
    BY DEF TypeOK, BlockType
  <2> QED
    BY <2>2, <2>3
<1> HIDE DEF freed, evicted, refsLeft
<1>5. ASSUME NEW b \in Blocks
      PROVE  /\ blocks'[b] \in BlockType
             /\ blocks'[b].state = "shared" => blocks'[b].hash \in Hashes
  <2>1. blocks[b] \in BlockType /\ refsLeft(b) \in Int
    BY <1>4 DEF TypeOK
  <2>2. CASE b \in freed \cup evicted
    BY <1>1, <2>2, ResetValues DEF FreeBlock
  <2>3. CASE b \notin freed \cup evicted /\ blocks[b].state = "shared"
    <3>1. blocks'[b] = [blocks[b] EXCEPT !.refs = refsLeft(b)]
      BY <1>1, <2>3
    <3> QED
      BY <2>1, <2>3, <3>1 DEF BlockType, SharedHaveHash
  <2>4. CASE b \notin freed \cup evicted /\ blocks[b].state # "shared"
    BY <1>1, <2>1, <2>4
  <2> QED
    BY <2>2, <2>3, <2>4
<1>6. evictionCount' \in Nat
  <2>1. evictionCount \in Nat /\ Cardinality(evicted) \in Nat
    BY <1>3, BlockSetCardinality DEF TypeOK
  <2> QED
    BY <1>1, <2>1
<1>7. prefixIndex' \in [Hashes -> Blocks \cup {NoBlock}]
  BY <1>1 DEF Unindexed, TypeOK
<1>8. recentEvictions' \in SUBSET Hashes
  BY <1>1, <1>3 DEF Notices, TypeOK
<1>9. tables' \in [Requests -> TableType]
  BY <1>1, ResetValues
<1>10. blocks' \in [Blocks -> BlockType]
  <2>1. blocks' = [b \in Blocks |-> blocks'[b]]
    BY <1>1
  <2> QED
    BY <1>5, <2>1
<1>11. free' \in SUBSET Blocks
  BY <1>1, <1>2, <1>3 DEF TypeOK
<1>12. engine' \in EngineType
  BY <1>1 DEF EngineType
<1>13. phase' \in [Requests -> {"absent", "prefill", "resume", "decode", "preempted"}]
  BY <1>1
<1>14. TypeOK'
  BY <1>1, <1>6, <1>7, <1>8, <1>9, <1>10, <1>11, <1>12, <1>13 DEF TypeOK
<1>15. SharedHaveHash'
  BY <1>5 DEF SharedHaveHash
<1>16. PromotableInTable'
  BY <1>1, EngineDistinct DEF PromotableInTable
<1> QED
  BY <1>14, <1>15, <1>16

\* The rebuild of a window in place keeps the types.
LEMMA RebuildInPlaceType ==
    ASSUME TypeInv, NEW r \in Requests, NEW n \in RebuildLengths, RebuildInPlace(r, n)
    PROVE  TypeInv'
<1> USE DEF TypeInv
<1> DEFINE ids == tables[r].ids
           count == RequiredBlocks(n)
           extra == IF count > Len(ids) THEN count - Len(ids) ELSE 0
<1>1. n \in Nat /\ count \in Nat /\ ids \in Seq(Blocks) /\ Len(ids) \in Nat
      /\ tables[r] \in TableType
  <2>1. n \in Nat
    BY PoolAssumption
  <2> QED
    BY <2>1, RequiredBlocksBounds DEF TypeOK, TableType
<1>2. extra \in Nat /\ count <= Len(ids) + extra
  BY <1>1
<1>3. PICK new \in [1 .. extra -> Blocks] :
         LET candidate == SubSeq(ids \o new, 1, count)
             kept == {candidate[i] : i \in 1 .. count}
             dropped == BlocksOf(r) \ kept
         IN
         \/ /\ blocks' = [b \in Blocks |-> IF b \in kept THEN PrivateBlock(r)
                             ELSE IF b \in dropped THEN FreeBlock ELSE blocks[b]]
            /\ free' = (free \ kept) \cup dropped
            /\ content' = [b \in Blocks |-> IF b \in kept THEN r ELSE content[b]]
            /\ tables' = [tables EXCEPT ![r].ids = candidate, ![r].length = n]
            /\ engine' = Idle
         \/ /\ content' = [b \in Blocks |->
                     IF b \in kept \ BlocksOf(r) THEN r ELSE content[b]]
            /\ engine' = MustRelease(r)
            /\ UNCHANGED <<blocks, free, tables>>
  BY DEF RebuildInPlace
<1> DEFINE candidate == SubSeq(ids \o new, 1, count)
           kept == {candidate[i] : i \in 1 .. count}
           dropped == BlocksOf(r) \ kept
<1>4. candidate \in Seq(Blocks)
  <2>1. new \in Seq(Blocks) /\ Len(new) = extra
    BY <1>2, SequenceOfBlocks
  <2>2. ids \o new \in Seq(Blocks) /\ Len(ids \o new) = Len(ids) + extra
    <3> HIDE DEF ids, extra, count
    <3> QED
      BY <1>1, <2>1
  <2>3. \A i \in 1 .. count : (ids \o new)[i] \in Blocks
    BY <1>1, <1>2, <2>2
  <2> QED
    BY <1>1, <1>2, <2>2, <2>3
<1>5. dropped \in SUBSET Blocks
  BY <1>1 DEF BlocksOf
<1>6. UNCHANGED <<prefixIndex, clock, recentEvictions, evictionCount, phase, prefixHit>>
  BY DEF RebuildInPlace
<1>7. r \in Tags
  BY DEF Tags
<1> HIDE DEF candidate, kept, dropped, ids, count, extra
<1>8. \/ /\ blocks' = [b \in Blocks |-> IF b \in kept THEN PrivateBlock(r)
                             ELSE IF b \in dropped THEN FreeBlock ELSE blocks[b]]
         /\ free' = (free \ kept) \cup dropped
         /\ content' = [b \in Blocks |-> IF b \in kept THEN r ELSE content[b]]
         /\ tables' = [tables EXCEPT ![r].ids = candidate, ![r].length = n]
         /\ engine' = Idle
      \/ /\ content' = [b \in Blocks |-> IF b \in kept \ BlocksOf(r) THEN r ELSE content[b]]
         /\ engine' = MustRelease(r)
         /\ UNCHANGED <<blocks, free, tables>>
  BY <1>3 DEF candidate, kept, dropped, ids, count, extra
<1>9. blocks' \in [Blocks -> BlockType] /\ free' \in SUBSET Blocks /\ content' \in [Blocks -> Tags]
  <2>1. PrivateBlock(r) \in BlockType /\ FreeBlock \in BlockType
    BY ResetValues
  <2> QED
    BY <1>5, <1>7, <1>8, <2>1 DEF TypeOK
<1>10. tables' \in [Requests -> TableType]
  <2>1. [tables[r] EXCEPT !.ids = candidate, !.length = n] \in TableType
    BY <1>1, <1>4 DEF TableType
  <2> QED
    BY <1>8, <2>1 DEF TypeOK
<1>11. engine' \in EngineType
  BY <1>8 DEF EngineType
<1>12. TypeOK'
  BY <1>6, <1>9, <1>10, <1>11 DEF TypeOK
<1>13. SharedHaveHash'
  <2>1. ASSUME NEW b \in Blocks, blocks'[b].state = "shared"
        PROVE  blocks'[b] = blocks[b]
    <3>1. PrivateBlock(r).state = "private" /\ FreeBlock.state = "free"
      BY DEF PrivateBlock, FreeBlock
    <3> QED
      BY <1>8, <2>1, <3>1
  <2> QED
    BY <2>1 DEF SharedHaveHash
<1>14. PromotableInTable'
  BY <1>8, EngineDistinct DEF PromotableInTable
<1> QED
  BY <1>12, <1>13, <1>14

\* The transactional rebuild keeps the types, on every one of its outcomes.
LEMMA RebuildDetachedType ==
    ASSUME TypeInv, NEW r \in Requests, NEW n \in RebuildLengths, RebuildDetached(r, n)
    PROVE  TypeInv'
<1> USE DEF TypeInv
<1> DEFINE count == RequiredBlocks(n)
           total == CurrentTotal(r)
           detached == Detached(r)
           heap == free \cup PrivateOf(r)
<1>1. n \in Nat /\ count \in Nat /\ total \in Int /\ tables[r] \in TableType
      /\ Len(tables[r].ids) \in Nat /\ heap \in SUBSET Blocks
  <2>1. n \in Nat
    BY PoolAssumption
  <2>2. total \in Int /\ Len(tables[r].ids) \in Nat /\ heap \in SUBSET Blocks
    BY HoldingsType DEF TypeOK
  <2> QED
    BY <2>1, <2>2, RequiredBlocksBounds DEF TypeOK
<1>2. EvictableIn(detached) \in SUBSET Blocks
      /\ \A b \in EvictableIn(detached) : blocks[b].hash \in Hashes
  BY DetachedType DEF EvictableIn, SharedHaveHash
<1>3. clock' = clock + Len(tables[r].ids) /\ UNCHANGED <<phase, prefixHit>>
  BY DEF RebuildDetached
<1>4. clock' \in Nat
  <2>1. clock \in Nat
    BY DEF TypeOK
  <2> QED
    BY <1>1, <1>3, <2>1
<1>5. \/ \E evicted \in SUBSET EvictableIn(detached) :
            /\ recentEvictions' = Notices(evicted)
            /\ evictionCount' = evictionCount + Cardinality(evicted)
            /\ engine' = MustRelease(r)
            /\ UNCHANGED <<blocks, free, tables, prefixIndex, content>>
      \/ \E evicted \in SUBSET EvictableIn(detached), new \in [1 .. count -> Blocks] :
            LET got == {new[i] : i \in 1 .. count} IN
            /\ blocks' = Allocated(detached, r, evicted, got)
            /\ free' = HeapAfter(heap, evicted, got)
            /\ prefixIndex' = Unindexed(evicted)
            /\ evictionCount' = evictionCount + Cardinality(evicted)
            /\ content' = [b \in Blocks |-> IF b \in got THEN r ELSE content[b]]
            /\ tables' = [tables EXCEPT
                  ![r].ids = new, ![r].length = n, ![r].reserved = total]
            /\ recentEvictions' \in {{}, Notices(evicted)}
            /\ engine' \in {Idle, MustRelease(r)}
  BY DEF RebuildDetached
<1> HIDE DEF count, total, detached, heap
<1>6. ASSUME NEW evicted \in SUBSET EvictableIn(detached)
      PROVE  /\ Notices(evicted) \in SUBSET Hashes
             /\ evictionCount + Cardinality(evicted) \in Nat
  <2>1. Notices(evicted) \in SUBSET Hashes
    BY <1>2 DEF Notices, TypeOK
  <2>2. evictionCount \in Nat /\ Cardinality(evicted) \in Nat
    BY <1>2, BlockSetCardinality DEF TypeOK
  <2> QED
    BY <2>1, <2>2
<1>7. CASE \E evicted \in SUBSET EvictableIn(detached) :
            /\ recentEvictions' = Notices(evicted)
            /\ evictionCount' = evictionCount + Cardinality(evicted)
            /\ engine' = MustRelease(r)
            /\ UNCHANGED <<blocks, free, tables, prefixIndex, content>>
  <2>1. recentEvictions' \in SUBSET Hashes /\ evictionCount' \in Nat
    BY <1>6, <1>7
  <2>2. engine' \in EngineType
    BY <1>7 DEF EngineType
  <2>3. TypeOK'
    BY <1>3, <1>4, <1>7, <2>1, <2>2 DEF TypeOK
  <2>4. SharedHaveHash'
    BY <1>7 DEF SharedHaveHash
  <2>5. PromotableInTable'
    BY <1>7, EngineDistinct DEF PromotableInTable
  <2> QED
    BY <2>3, <2>4, <2>5
<1>8. CASE \E evicted \in SUBSET EvictableIn(detached), new \in [1 .. count -> Blocks] :
            LET got == {new[i] : i \in 1 .. count} IN
            /\ blocks' = Allocated(detached, r, evicted, got)
            /\ free' = HeapAfter(heap, evicted, got)
            /\ prefixIndex' = Unindexed(evicted)
            /\ evictionCount' = evictionCount + Cardinality(evicted)
            /\ content' = [b \in Blocks |-> IF b \in got THEN r ELSE content[b]]
            /\ tables' = [tables EXCEPT
                  ![r].ids = new, ![r].length = n, ![r].reserved = total]
            /\ recentEvictions' \in {{}, Notices(evicted)}
            /\ engine' \in {Idle, MustRelease(r)}
  <2>1. PICK evicted \in SUBSET EvictableIn(detached), new \in [1 .. count -> Blocks] :
            LET got == {new[i] : i \in 1 .. count} IN
            /\ blocks' = Allocated(detached, r, evicted, got)
            /\ free' = HeapAfter(heap, evicted, got)
            /\ prefixIndex' = Unindexed(evicted)
            /\ evictionCount' = evictionCount + Cardinality(evicted)
            /\ content' = [b \in Blocks |-> IF b \in got THEN r ELSE content[b]]
            /\ tables' = [tables EXCEPT
                  ![r].ids = new, ![r].length = n, ![r].reserved = total]
            /\ recentEvictions' \in {{}, Notices(evicted)}
            /\ engine' \in {Idle, MustRelease(r)}
    BY <1>8
  <2> DEFINE got == {new[i] : i \in 1 .. count}
  <2>2. detached \in [Blocks -> BlockType]
    BY DetachedType DEF detached
  <2>3. blocks' \in [Blocks -> BlockType]
    <3>1. PrivateBlock(r) \in BlockType /\ FreeBlock \in BlockType
      BY ResetValues
    <3> QED
      BY <2>1, <2>2, <3>1 DEF Allocated
  <2>4. free' \in SUBSET Blocks
    BY <1>1, <1>2, <2>1 DEF HeapAfter
  <2>5. prefixIndex' \in [Hashes -> Blocks \cup {NoBlock}]
    BY <2>1 DEF Unindexed, TypeOK
  <2>6. content' \in [Blocks -> Tags]
    <3>1. r \in Tags
      BY DEF Tags
    <3> QED
      BY <2>1, <3>1 DEF TypeOK
  <2>7. tables' \in [Requests -> TableType]
    <3>1. new \in Seq(Blocks)
      BY <1>1
    <3>2. [tables[r] EXCEPT !.ids = new, !.length = n, !.reserved = total] \in TableType
      BY <1>1, <3>1 DEF TableType
    <3>3. tables' = [tables EXCEPT ![r].ids = new, ![r].length = n, ![r].reserved = total]
      BY <2>1
    <3> QED
      BY <3>2, <3>3 DEF TypeOK
  <2>8. recentEvictions' \in SUBSET Hashes /\ evictionCount' \in Nat
    BY <1>6, <2>1
  <2>9. engine' \in EngineType
    BY <2>1 DEF EngineType
  <2>10. TypeOK'
    BY <1>3, <1>4, <2>3, <2>4, <2>5, <2>6, <2>7, <2>8, <2>9 DEF TypeOK
  <2>11. SharedHaveHash'
    <3>1. ASSUME NEW b \in Blocks, blocks'[b].state = "shared"
          PROVE  blocks'[b] = detached[b]
      BY <2>1, <3>1 DEF Allocated, PrivateBlock, FreeBlock
    <3>2. \A b \in Blocks : detached[b].state = "shared" => detached[b].hash \in Hashes
      BY DetachedType DEF SharedHaveHash, detached
    <3> QED
      BY <3>1, <3>2 DEF SharedHaveHash
  <2>12. PromotableInTable'
    BY <2>1, EngineDistinct DEF PromotableInTable
  <2> QED
    BY <2>10, <2>11, <2>12
<1> QED
  BY <1>5, <1>7, <1>8 DEF count, total, detached, heap

\* A promotion keeps the types: each computed block has a hash, and each
\* duplicate a canonical block.
LEMMA PromoteType ==
    ASSUME TypeInv, NEW r \in Requests, Promote(r)
    PROVE  TypeInv'
<1> USE DEF TypeInv
<1> DEFINE chain == Chain[r]
           ids == tables[r].ids
           computed == prefixHit[r] + 1 .. Len(chain)
           fresh == {i \in computed : prefixIndex[chain[i]] = NoBlock}
           dup == computed \ fresh
           canonical == {prefixIndex[chain[i]] : i \in dup}
           promoted == {ids[i] : i \in fresh}
           dropped == {ids[i] : i \in dup}
           slot(b) == CHOOSE i \in fresh : ids[i] = b
           reader(b) == CHOOSE i \in dup : prefixIndex[chain[i]] = b
           newIds == [i \in 1 .. Len(ids) |-> IF i \in dup THEN prefixIndex[chain[i]] ELSE ids[i]]
<1>1. engine = MustPromote(r)
  BY DEF Promote
<1>2. /\ blocks' = [b \in Blocks |->
            IF b \in promoted
            THEN [state |-> "shared", owner |-> NoRequest, hash |-> chain[slot(b)],
                  refs |-> 1, lastUsed |-> clock + slot(b)]
            ELSE IF b \in canonical
            THEN [blocks[b] EXCEPT !.refs = @ + 1, !.lastUsed = clock + reader(b)]
            ELSE IF b \in dropped THEN FreeBlock ELSE blocks[b]]
      /\ clock' = clock + Len(chain)
      /\ free' = free \cup dropped
      /\ prefixIndex' = [h \in Hashes |->
            IF \E i \in fresh : chain[i] = h THEN ids[Position(chain, h)] ELSE prefixIndex[h]]
      /\ tables' = [tables EXCEPT ![r].ids = newIds, ![r].reserved = @ - Cardinality(computed)]
      /\ recentEvictions' = {}
      /\ phase' = [phase EXCEPT ![r] = "decode"]
      /\ engine' = Idle
      /\ UNCHANGED <<evictionCount, content, prefixHit>>
  BY DEF Promote
<1>3. /\ chain \in Seq(Hashes) /\ Len(chain) \in Nat
      /\ \A i \in 1 .. Len(chain) : chain[i] \in Hashes
  BY ChainType
<1>4. /\ tables[r] \in TableType /\ ids \in Seq(Blocks) /\ Len(ids) \in Nat
      /\ tables[r].reserved \in Int
  BY DEF TypeOK, TableType
<1>5. Len(chain) <= Len(ids)
  BY <1>1 DEF PromotableInTable
<1>6. prefixHit[r] \in Nat /\ clock \in Nat
  BY DEF TypeOK
<1>7. computed \subseteq 1 .. Len(chain) /\ computed \subseteq 1 .. Len(ids)
      /\ Cardinality(computed) \in Nat
  <2>1. computed \subseteq 1 .. Len(chain) /\ computed \subseteq 1 .. Len(ids)
    BY <1>3, <1>4, <1>5, <1>6
  <2>2. Cardinality(computed) \in Nat
    <3>1. IsFiniteSet(1 .. Len(chain))
      BY <1>3, FS_Interval
    <3>2. IsFiniteSet(computed)
      BY <2>1, <3>1, FS_Subset
    <3> QED
      BY <3>2, FS_CardinalityType
  <2> QED
    BY <2>1, <2>2
<1>8. \A i \in dup : prefixIndex[chain[i]] \in Blocks
  BY <1>3, <1>7 DEF TypeOK
<1>9. \A i \in 1 .. Len(ids) : ids[i] \in Blocks
  BY <1>4
<1>10. fresh \subseteq computed /\ dup \subseteq computed
  OBVIOUS
<1>11. \A b \in promoted : slot(b) \in fresh
  OBVIOUS
<1>12. \A b \in canonical : reader(b) \in dup
  OBVIOUS
<1>13. \A h \in Hashes : (\E i \in fresh : chain[i] = h) => Position(chain, h) \in 1 .. Len(chain)
  <2>1. \A h \in Hashes : (\E i \in fresh : chain[i] = h) => \E i \in 1 .. Len(chain) : chain[i] = h
    BY <1>7, <1>10
  <2> QED
    BY <2>1, PositionFound
<1> HIDE DEF chain, ids, computed, fresh, dup, canonical, promoted, dropped, slot, reader, newIds
<1>14. ASSUME NEW b \in Blocks
       PROVE  /\ blocks'[b] \in BlockType
              /\ blocks'[b].state = "shared" => blocks'[b].hash \in Hashes
  <2>1. blocks[b] \in BlockType /\ blocks[b].refs + 1 \in Int
    BY DEF TypeOK, BlockType
  <2>2. CASE b \in promoted
    <3>1. slot(b) \in 1 .. Len(chain)
      BY <1>7, <1>10, <1>11, <2>2
    <3>2. chain[slot(b)] \in Hashes /\ clock + slot(b) \in Nat
      BY <1>3, <1>6, <3>1
    <3>3. blocks'[b] = [state |-> "shared", owner |-> NoRequest, hash |-> chain[slot(b)],
                        refs |-> 1, lastUsed |-> clock + slot(b)]
      BY <1>2, <2>2
    <3> QED
      BY <3>2, <3>3 DEF BlockType
  <2>3. CASE b \notin promoted /\ b \in canonical
    <3>1. reader(b) \in 1 .. Len(chain)
      BY <1>7, <1>10, <1>12, <2>3
    <3>2. clock + reader(b) \in Nat
      BY <1>3, <1>6, <3>1
    <3>3. blocks'[b] = [blocks[b] EXCEPT !.refs = blocks[b].refs + 1,
                                         !.lastUsed = clock + reader(b)]
      BY <1>2, <2>3
    <3> QED
      BY <2>1, <3>2, <3>3 DEF BlockType, SharedHaveHash
  <2>4. CASE b \notin promoted /\ b \notin canonical
    <3>1. FreeBlock \in BlockType /\ FreeBlock.state = "free"
      BY ResetValues DEF FreeBlock
    <3> QED
      BY <1>2, <2>1, <2>4, <3>1 DEF SharedHaveHash
  <2> QED
    BY <2>2, <2>3, <2>4
<1>15. blocks' \in [Blocks -> BlockType]
  <2>1. blocks' = [b \in Blocks |-> blocks'[b]]
    BY <1>2
  <2> QED
    BY <1>14, <2>1
<1>16. clock' \in Nat
  <2>1. clock' = clock + Len(chain)
    BY <1>2
  <2> QED
    BY <1>3, <1>6, <2>1
<1>17. free' \in SUBSET Blocks
  <2>1. dropped \in SUBSET Blocks
    BY <1>7, <1>9, <1>10 DEF dropped
  <2> QED
    BY <1>2, <2>1 DEF TypeOK
<1>18. prefixIndex' \in [Hashes -> Blocks \cup {NoBlock}]
  <2>1. ASSUME NEW h \in Hashes, \E i \in fresh : chain[i] = h
        PROVE  ids[Position(chain, h)] \in Blocks
    <3>1. Position(chain, h) \in 1 .. Len(ids)
      BY <1>3, <1>4, <1>5, <1>13, <2>1
    <3> QED
      BY <1>9, <3>1
  <2> QED
    BY <1>2, <2>1 DEF TypeOK
<1>19. tables' \in [Requests -> TableType]
  <2>1. newIds \in [1 .. Len(ids) -> Blocks]
    BY <1>8, <1>9 DEF newIds
  <2>2. newIds \in Seq(Blocks)
    BY <1>4, <2>1, SequenceOfBlocks
  <2>3. tables[r].reserved - Cardinality(computed) \in Int
    BY <1>4, <1>7
  <2>4. [tables[r] EXCEPT !.ids = newIds, !.reserved = tables[r].reserved - Cardinality(computed)]
          \in TableType
    BY <1>4, <2>2, <2>3 DEF TableType
  <2>5. tables' = [tables EXCEPT ![r].ids = newIds, ![r].reserved = @ - Cardinality(computed)]
    BY <1>2
  <2> QED
    BY <2>4, <2>5 DEF TypeOK
<1>20. phase' \in [Requests -> {"absent", "prefill", "resume", "decode", "preempted"}]
  BY <1>2 DEF TypeOK
<1>21. engine' \in EngineType
  BY <1>2 DEF EngineType
<1>22. TypeOK'
  BY <1>2, <1>15, <1>16, <1>17, <1>18, <1>19, <1>20, <1>21 DEF TypeOK
<1>23. SharedHaveHash'
  BY <1>14 DEF SharedHaveHash
<1>24. PromotableInTable'
  BY <1>2, EngineDistinct DEF PromotableInTable
<1> QED
  BY <1>22, <1>23, <1>24

\* Every step keeps the types.
LEMMA TypeInvNext == TypeInv /\ [Next]_vars => TypeInv'
<1> SUFFICES ASSUME TypeInv, [Next]_vars PROVE TypeInv'
  OBVIOUS
<1>1. ASSUME NEW r \in Requests, NEW tokens \in 1 .. Window, Reserve(r, tokens) PROVE TypeInv'
  BY <1>1, ReserveType
<1>2. ASSUME NEW r \in Requests, ReserveWithPrefix(r) PROVE TypeInv'
  BY <1>2, ReserveWithPrefixType
<1>3. ASSUME NEW r \in Requests, NEW target \in 1 .. NumBlocks, GrowReservation(r, target)
      PROVE  TypeInv'
  BY <1>3, GrowReservationType
<1>4. ASSUME NEW r \in Requests, NEW n \in 1 .. Window, WritePrefill(r, n) PROVE TypeInv'
  BY <1>4, WritePrefillType
<1>5. ASSUME NEW r \in Requests, NEW n \in 0 .. Window, WritePrefillSuffix(r, n) PROVE TypeInv'
  BY <1>5, WritePrefillSuffixType
<1>6. ASSUME NEW r \in Requests, AppendNewBlock(r) PROVE TypeInv'
  BY <1>6, AppendNewBlockType
<1>7. ASSUME NEW r \in Requests, AppendTail(r) PROVE TypeInv'
  BY <1>7, AppendTailType
<1>8. ASSUME NEW r \in Requests, ReadBoundaryLogits(r) PROVE TypeInv'
  BY <1>8, ReadBoundaryLogitsType
<1>9. ASSUME NEW r \in Requests, Promote(r) PROVE TypeInv'
  BY <1>9, PromoteType
<1>10. ASSUME NEW r \in Requests, PromoteRaises(r) PROVE TypeInv'
  BY <1>10, PromoteRaisesType
<1>11. ASSUME NEW r \in Requests, NEW n \in RebuildLengths, RebuildInPlace(r, n) PROVE TypeInv'
  BY <1>11, RebuildInPlaceType
<1>12. ASSUME NEW r \in Requests, NEW n \in RebuildLengths, RebuildDetached(r, n) PROVE TypeInv'
  BY <1>12, RebuildDetachedType
<1>13. ASSUME NEW r \in Requests, Release(r) PROVE TypeInv'
  BY <1>13, ReleaseType
<1>14. ASSUME ReleaseAll PROVE TypeInv'
  BY <1>14, ReleaseAllType
<1>15. CASE UNCHANGED vars
  BY <1>15 DEF vars, TypeInv, TypeOK, SharedHaveHash, PromotableInTable
<1> QED
  BY <1>1, <1>2, <1>3, <1>4, <1>5, <1>6, <1>7, <1>8, <1>9, <1>10, <1>11, <1>12, <1>13,
     <1>14, <1>15 DEF Next

\* In every reachable state the pool's variables have their types: no block
\* id, hash or reservation ever leaves its range, whatever raises.
THEOREM TypeCorrect == Spec => []TypeOK
<1>1. Init => TypeInv
  BY TypeInvInit
<1>2. TypeInv /\ [Next]_vars => TypeInv'
  BY TypeInvNext
<1>3. TypeInv => TypeOK
  BY DEF TypeInv
<1> QED
  BY <1>1, <1>2, <1>3, PTL DEF Spec

-----------------------------------------------------------------------------
(***************************************************************************)
(* The four views.  Every operation is a composition of five changes: to   *)
(* evict, to take from the heap, to attach, to detach and to promote.  The *)
(* first part proves each of them of any metadata, heap, index and holdings. *)
(***************************************************************************)

-----------------------------------------------------------------------------
(* How many blocks a length needs.                                          *)

\* The blocks of n tokens, and of one more.
LEMMA RequiredBlocksNext ==
    ASSUME NEW n \in Nat
    PROVE  /\ RequiredBlocks(n) \in Nat /\ RequiredBlocks(n) <= n
           /\ n > 0 => RequiredBlocks(n) > 0
           /\ RequiredBlocks(n) =
                 IF n % BlockTokens = 0 THEN n \div BlockTokens ELSE (n \div BlockTokens) + 1
           /\ RequiredBlocks(n + 1) =
                 IF n % BlockTokens = 0 THEN RequiredBlocks(n) + 1 ELSE RequiredBlocks(n)
<1>1. BlockTokens \in Nat \ {0}
  BY PoolAssumption
<1> QED
  BY <1>1, SMTT(30) DEF RequiredBlocks

\* Whole blocks.
LEMMA RequiredBlocksWhole ==
    ASSUME NEW k \in Nat
    PROVE  /\ k * BlockTokens \in Nat
           /\ RequiredBlocks(k * BlockTokens) = k /\ (k * BlockTokens) % BlockTokens = 0
<1>1. BlockTokens \in Nat \ {0}
  BY PoolAssumption
<1> QED
  BY <1>1, SMTT(30) DEF RequiredBlocks

\* More tokens need no fewer blocks.
LEMMA RequiredBlocksMonotone ==
    ASSUME NEW m \in Nat, NEW n \in Nat, m <= n
    PROVE  RequiredBlocks(m) <= RequiredBlocks(n)
<1>1. BlockTokens \in Nat \ {0}
  BY PoolAssumption
<1> QED
  BY <1>1, SMTT(30) DEF RequiredBlocks

\* Nor do they fill fewer.
LEMMA DivMonotone ==
    ASSUME NEW m \in Nat, NEW n \in Nat, m <= n
    PROVE  m \div BlockTokens <= n \div BlockTokens
<1>1. BlockTokens \in Nat \ {0}
  BY PoolAssumption
<1> QED
  BY <1>1, SMTT(30)

\* An empty table needs no block.
LEMMA NoTableLength ==
    NoTable.ids = << >> /\ NoTable.length = 0 /\ RequiredBlocks(0) = 0 /\ 0 % BlockTokens = 0
<1>1. BlockTokens \in Nat \ {0}
  BY PoolAssumption
<1> QED
  BY <1>1 DEF RequiredBlocks, NoTable

-----------------------------------------------------------------------------
(* Coherence of metadata bl, heap fr, index pi, and held[r], the set of the *)
(* blocks in r's table.                                                     *)

Readers(held, b) == {r \in Requests : b \in held[r]}

Heap(bl, fr) == fr = {b \in Blocks : bl[b].state = "free"} /\ \A b \in fr : bl[b] = FreeBlock

Owners(bl, held) ==
    \A b \in Blocks : bl[b].state = "private" =>
        \E r \in Requests : bl[b] = PrivateBlock(r) /\ Readers(held, b) = {r}

InUse(bl, held) == \A r \in Requests : \A b \in held[r] : bl[b].state # "free"

Counts(bl, held) ==
    \A b \in Blocks : bl[b].state = "shared" => bl[b].refs = Cardinality(Readers(held, b))

Index(bl, pi) ==
    /\ \A h \in Hashes : pi[h] # NoBlock => bl[pi[h]].state = "shared" /\ bl[pi[h]].hash = h
    /\ \A b \in Blocks : bl[b].state = "shared" => bl[b].hash \in Hashes /\ pi[bl[b].hash] = b

Coherent(bl, fr, pi, held) ==
    Heap(bl, fr) /\ Owners(bl, held) /\ InUse(bl, held) /\ Counts(bl, held) /\ Index(bl, pi)

MetaType == [Blocks -> BlockType]
IndexType == [Hashes -> Blocks \cup {NoBlock}]
HoldingType == [Requests -> SUBSET Blocks]

\* The states and fields of the records blocks are reset to.
LEMMA ResetFields ==
    /\ FreeBlock.state = "free"
    /\ \A r \in Requests : PrivateBlock(r).state = "private" /\ PrivateBlock(r).owner = r
    /\ \A r, s \in Requests : PrivateBlock(r) = PrivateBlock(s) => r = s
<1>1. FreeBlock.state = "free"
  BY DEF FreeBlock
<1>2. \A r \in Requests : PrivateBlock(r).state = "private" /\ PrivateBlock(r).owner = r
  BY DEF PrivateBlock, FreeBlock
<1> QED
  BY <1>1, <1>2

\* How many requests read a block, and when nobody does.
LEMMA ReadersFinite ==
    ASSUME NEW held, NEW b
    PROVE  /\ IsFiniteSet(Readers(held, b))
           /\ Cardinality(Readers(held, b)) \in Nat
           /\ Cardinality(Readers(held, b)) = 0 <=> Readers(held, b) = {}
<1>1. Readers(held, b) \in SUBSET Requests
  BY DEF Readers
<1>2. IsFiniteSet(Readers(held, b))
  BY <1>1, PoolAssumption, FS_Subset
<1> QED
  BY <1>2, FS_CardinalityType, FS_EmptySet

\* Unreferenced prefix blocks return to the heap and leave the index.
LEMMA EvictCoherent ==
    ASSUME NEW bl \in MetaType, NEW fr \in SUBSET Blocks, NEW pi \in IndexType,
           NEW held \in HoldingType, Coherent(bl, fr, pi, held),
           NEW evicted \in SUBSET {b \in Blocks : bl[b].state = "shared" /\ bl[b].refs = 0},
           NEW bl2 \in MetaType,
           \A b \in Blocks : bl2[b] = IF b \in evicted THEN FreeBlock ELSE bl[b],
           NEW pi2 \in IndexType,
           \A h \in Hashes : pi2[h] = IF pi[h] \in evicted THEN NoBlock ELSE pi[h]
    PROVE  Coherent(bl2, fr \cup evicted, pi2, held)
<1> USE DEF MetaType, IndexType, HoldingType
<1>1. FreeBlock.state = "free" /\ FreeBlock \in BlockType
  BY ResetFields, ResetValues
<1>2. \A b \in evicted : Readers(held, b) = {}
  BY ReadersFinite DEF Coherent, Counts
<1>3. \A b \in Blocks : bl2[b] = IF b \in evicted THEN FreeBlock ELSE bl[b]
  OBVIOUS
<1>4. \A h \in Hashes : pi2[h] = IF pi[h] \in evicted THEN NoBlock ELSE pi[h]
  OBVIOUS
<1>6. Heap(bl2, fr \cup evicted)
  BY <1>1, <1>3 DEF Coherent, Heap
<1>7. Owners(bl2, held)
  BY <1>1, <1>3 DEF Coherent, Owners
<1>8. InUse(bl2, held)
  BY <1>1, <1>2, <1>3 DEF Coherent, InUse, Readers
<1>9. Counts(bl2, held)
  BY <1>1, <1>3 DEF Coherent, Counts
<1>10. Index(bl2, pi2)
  <2>1. ASSUME NEW h \in Hashes, pi2[h] # NoBlock
        PROVE  bl2[pi2[h]].state = "shared" /\ bl2[pi2[h]].hash = h
    <3>1. pi2[h] = pi[h] /\ pi[h] \notin evicted /\ pi[h] \in Blocks
      BY <1>4, <2>1
    <3> QED
      BY <1>3, <2>1, <3>1 DEF Coherent, Index
  <2>2. ASSUME NEW b \in Blocks, bl2[b].state = "shared"
        PROVE  bl2[b].hash \in Hashes /\ pi2[bl2[b].hash] = b
    <3>1. b \notin evicted /\ bl2[b] = bl[b]
      BY <1>1, <1>3, <2>2
    <3> QED
      BY <1>4, <2>2, <3>1 DEF Coherent, Index
  <2> QED
    BY <2>1, <2>2 DEF Index
<1> QED
  BY <1>6, <1>7, <1>8, <1>9, <1>10 DEF Coherent

\* A request takes blocks of the heap for itself.
LEMMA TakeCoherent ==
    ASSUME NEW bl \in MetaType, NEW fr \in SUBSET Blocks, NEW pi \in IndexType,
           NEW held \in HoldingType, Coherent(bl, fr, pi, held),
           NEW r \in Requests, NEW got \in SUBSET fr
    PROVE  LET bl2 == [b \in Blocks |-> IF b \in got THEN PrivateBlock(r) ELSE bl[b]]
               held2 == [held EXCEPT ![r] = held[r] \cup got]
           IN  /\ Coherent(bl2, fr \ got, pi, held2)
               /\ bl2 \in MetaType /\ held2 \in HoldingType
<1> DEFINE bl2 == [b \in Blocks |-> IF b \in got THEN PrivateBlock(r) ELSE bl[b]]
           held2 == [held EXCEPT ![r] = held[r] \cup got]
<1> USE DEF MetaType, IndexType, HoldingType
<1>1. PrivateBlock(r).state = "private" /\ PrivateBlock(r) \in BlockType
  BY ResetFields, ResetValues
<1>2. bl2 \in MetaType /\ held2 \in HoldingType
  BY <1>1
<1>3. \A b \in Blocks : bl2[b] = IF b \in got THEN PrivateBlock(r) ELSE bl[b]
  OBVIOUS
<1>4. \A s \in Requests : held2[s] = IF s = r THEN held[s] \cup got ELSE held[s]
  OBVIOUS
<1> HIDE DEF bl2, held2
<1>5. \A b \in got : bl[b].state = "free" /\ Readers(held, b) = {}
  BY DEF Coherent, Heap, InUse, Readers
<1>6. ASSUME NEW b \in Blocks
      PROVE  Readers(held2, b) = IF b \in got THEN {r} ELSE Readers(held, b)
  BY <1>4, <1>5 DEF Readers
<1>7. Heap(bl2, fr \ got)
  BY <1>1, <1>3 DEF Coherent, Heap
<1>8. Owners(bl2, held2)
  BY <1>3, <1>6 DEF Coherent, Owners
<1>9. InUse(bl2, held2)
  BY <1>1, <1>3, <1>4 DEF Coherent, InUse
<1>10. Counts(bl2, held2)
  BY <1>1, <1>3, <1>6 DEF Coherent, Counts
<1>11. Index(bl2, pi)
  BY <1>1, <1>3, <1>5 DEF Coherent, Index
<1> QED
  BY <1>2, <1>7, <1>8, <1>9, <1>10, <1>11 DEF Coherent, bl2, held2

\* A request gives up its blocks: its own return to the heap, the shared ones
\* lose a reference, and may be touched.
LEMMA DetachCoherent ==
    ASSUME NEW bl \in MetaType, NEW fr \in SUBSET Blocks, NEW pi \in IndexType,
           NEW held \in HoldingType, Coherent(bl, fr, pi, held),
           NEW r \in Requests, NEW bl2 \in MetaType,
           \A b \in Blocks :
              /\ b \in held[r] /\ bl[b].state = "private" => bl2[b] = FreeBlock
              /\ b \in held[r] /\ bl[b].state = "shared" =>
                    /\ bl2[b].state = "shared" /\ bl2[b].hash = bl[b].hash
                    /\ bl2[b].refs = bl[b].refs - 1
              /\ b \notin held[r] => bl2[b] = bl[b]
    PROVE  LET own == {b \in held[r] : bl[b].state = "private"}
               held2 == [held EXCEPT ![r] = {}]
           IN  Coherent(bl2, fr \cup own, pi, held2) /\ held2 \in HoldingType
<1> DEFINE own == {b \in held[r] : bl[b].state = "private"}
           held2 == [held EXCEPT ![r] = {}]
<1> USE DEF MetaType, IndexType, HoldingType
<1>1. FreeBlock.state = "free"
  BY ResetFields
<1>2. held2 \in HoldingType /\ \A s \in Requests : held2[s] = IF s = r THEN {} ELSE held[s]
  OBVIOUS
<1> HIDE DEF held2
<1>3. \A b \in Blocks : Readers(held2, b) = Readers(held, b) \ {r}
  BY <1>2 DEF Readers
<1>4. \A b \in Blocks : bl[b].state \in {"free", "private", "shared"}
  BY DEF BlockType
<1>5. \A b \in held[r] : b \in Blocks /\ bl[b].state # "free"
  BY DEF Coherent, InUse
<1>6. \A b \in own : Readers(held, b) = {r}
  BY <1>5 DEF Coherent, Owners, Readers
<1>7. Heap(bl2, fr \cup own)
  BY <1>1, <1>4, <1>5 DEF Coherent, Heap
<1>8. Owners(bl2, held2)
  <2>1. ASSUME NEW b \in Blocks, bl2[b].state = "private"
        PROVE  b \notin held[r] /\ bl2[b] = bl[b] /\ Readers(held2, b) = Readers(held, b)
    <3>1. b \notin held[r]
      BY <1>1, <1>4, <1>5, <2>1
    <3>2. Readers(held2, b) = Readers(held, b)
      BY <1>3, <3>1 DEF Readers
    <3> QED
      BY <3>1, <3>2
  <2> QED
    BY <2>1 DEF Coherent, Owners
<1>9. InUse(bl2, held2)
  <2> SUFFICES ASSUME NEW s \in Requests, NEW b \in held2[s] PROVE bl2[b].state # "free"
    BY DEF InUse
  <2>1. s # r /\ b \in held[s] /\ b \in Blocks /\ bl[b].state # "free"
    BY <1>2 DEF Coherent, InUse
  <2>2. CASE b \in held[r]
    <3>1. b \notin own
      BY <1>6, <2>1 DEF Readers
    <3> QED
      BY <1>4, <2>1, <2>2, <3>1
  <2>3. CASE b \notin held[r]
    BY <2>1, <2>3
  <2> QED
    BY <2>2, <2>3
<1>10. Counts(bl2, held2)
  <2> SUFFICES ASSUME NEW b \in Blocks, bl2[b].state = "shared"
               PROVE  bl2[b].refs = Cardinality(Readers(held2, b))
    BY DEF Counts
  <2>1. bl[b].state = "shared" /\ bl2[b].refs = IF b \in held[r] THEN bl[b].refs - 1 ELSE bl[b].refs
    BY <1>1, <1>4, <1>5
  <2>2. bl[b].refs = Cardinality(Readers(held, b))
    BY <2>1 DEF Coherent, Counts
  <2>3. Cardinality(Readers(held, b) \ {r}) =
          IF r \in Readers(held, b) THEN Cardinality(Readers(held, b)) - 1
                                    ELSE Cardinality(Readers(held, b))
    BY ReadersFinite, FS_RemoveElement
  <2> QED
    BY <1>3, <2>1, <2>2, <2>3 DEF Readers
<1>11. Index(bl2, pi)
  <2>1. \A b \in Blocks : bl[b].state = "shared" <=> bl2[b].state = "shared"
    BY <1>1, <1>4, <1>5
  <2>2. \A b \in Blocks : bl[b].state = "shared" => bl2[b].hash = bl[b].hash
    BY <1>4
  <2> QED
    BY <2>1, <2>2 DEF Coherent, Index
<1> QED
  BY <1>2, <1>7, <1>8, <1>9, <1>10, <1>11 DEF Coherent, held2

\* Blocks may be touched at any time.
LEMMA TouchCoherent ==
    ASSUME NEW bl \in MetaType, NEW fr \in SUBSET Blocks, NEW pi \in IndexType,
           NEW held \in HoldingType, Coherent(bl, fr, pi, held), NEW bl2 \in MetaType,
           \A b \in Blocks :
              \/ bl2[b] = bl[b]
              \/ /\ bl[b].state = "shared" /\ bl2[b].state = "shared"
                 /\ bl2[b].hash = bl[b].hash /\ bl2[b].refs = bl[b].refs
    PROVE  Coherent(bl2, fr, pi, held)
<1> USE DEF MetaType, IndexType, HoldingType
<1>1. \A b \in Blocks : bl2[b].state = bl[b].state
  OBVIOUS
<1>2. \A b \in Blocks : bl[b].state # "shared" => bl2[b] = bl[b]
  OBVIOUS
<1>3. Heap(bl2, fr) /\ Owners(bl2, held) /\ InUse(bl2, held)
  BY <1>1, <1>2 DEF Coherent, Heap, Owners, InUse
<1>4. Counts(bl2, held)
  BY <1>1 DEF Coherent, Counts
<1>5. Index(bl2, pi)
  BY <1>1 DEF Coherent, Index
<1> QED
  BY <1>3, <1>4, <1>5 DEF Coherent

\* A request without blocks attaches resident prefix blocks.
LEMMA AttachCoherent ==
    ASSUME NEW bl \in MetaType, NEW fr \in SUBSET Blocks, NEW pi \in IndexType,
           NEW held \in HoldingType, Coherent(bl, fr, pi, held),
           NEW r \in Requests, held[r] = {},
           NEW hits \in SUBSET {b \in Blocks : bl[b].state = "shared"},
           NEW bl2 \in MetaType,
           \A b \in Blocks :
              /\ b \in hits => /\ bl2[b].state = "shared" /\ bl2[b].hash = bl[b].hash
                               /\ bl2[b].refs = bl[b].refs + 1
              /\ b \notin hits => bl2[b] = bl[b]
    PROVE  LET held2 == [held EXCEPT ![r] = hits]
           IN  Coherent(bl2, fr, pi, held2) /\ held2 \in HoldingType
<1> DEFINE held2 == [held EXCEPT ![r] = hits]
<1> USE DEF MetaType, IndexType, HoldingType
<1>1. held2 \in HoldingType /\ \A s \in Requests : held2[s] = IF s = r THEN hits ELSE held[s]
  OBVIOUS
<1> HIDE DEF held2
<1>2. ASSUME NEW b \in Blocks
      PROVE  /\ b \in hits => Readers(held2, b) = Readers(held, b) \cup {r}
             /\ b \notin hits => Readers(held2, b) = Readers(held, b)
             /\ r \notin Readers(held, b)
  BY <1>1 DEF Readers
<1>3. \A b \in Blocks : bl2[b].state = bl[b].state
  OBVIOUS
<1>4. Heap(bl2, fr)
  BY <1>3 DEF Coherent, Heap
<1>5. Owners(bl2, held2)
  BY <1>2, <1>3 DEF Coherent, Owners
<1>6. InUse(bl2, held2)
  BY <1>1, <1>3 DEF Coherent, InUse
<1>7. Counts(bl2, held2)
  <2> SUFFICES ASSUME NEW b \in Blocks, bl2[b].state = "shared"
               PROVE  bl2[b].refs = Cardinality(Readers(held2, b))
    BY DEF Counts
  <2>1. bl[b].refs = Cardinality(Readers(held, b))
    BY <1>3 DEF Coherent, Counts
  <2>2. Cardinality(Readers(held, b) \cup {r}) = Cardinality(Readers(held, b)) + 1
    BY <1>2, ReadersFinite, FS_AddElement
  <2> QED
    BY <1>2, <2>1, <2>2
<1>8. Index(bl2, pi)
  BY <1>3 DEF Coherent, Index
<1> QED
  BY <1>1, <1>4, <1>5, <1>6, <1>7, <1>8 DEF Coherent, held2

\* Of a request's own blocks, the fresh ones become canonical, and the
\* duplicates are exchanged for blocks which are canonical already.
Promotion(bl, fr, pi, held, r, fresh, dropped, canon, bl2, pi2) ==
    /\ bl \in MetaType /\ fr \in SUBSET Blocks /\ pi \in IndexType /\ held \in HoldingType
    /\ r \in Requests /\ Coherent(bl, fr, pi, held)
    /\ \A b \in fresh \cup dropped : b \in held[r] /\ bl[b].state = "private"
    /\ \A b \in fresh : b \notin dropped
    /\ \A b \in canon : b \in Blocks /\ bl[b].state = "shared" /\ b \notin held[r]
    /\ bl2 \in MetaType /\ pi2 \in IndexType
    /\ \A b \in fresh : /\ bl2[b].state = "shared" /\ bl2[b].refs = 1
                         /\ bl2[b].hash \in Hashes /\ pi[bl2[b].hash] = NoBlock
                         /\ pi2[bl2[b].hash] = b
    /\ \A b \in canon : /\ bl2[b].state = "shared" /\ bl2[b].hash = bl[b].hash
                         /\ bl2[b].refs = bl[b].refs + 1
    /\ \A b \in dropped : bl2[b] = FreeBlock
    /\ \A b \in Blocks : b \notin fresh \cup canon \cup dropped => bl2[b] = bl[b]
    /\ \A h \in Hashes : (\A b \in fresh : bl2[b].hash # h) => pi2[h] = pi[h]

\* Such a promotion keeps the four views coherent.
LEMMA PromoteCoherent ==
    ASSUME NEW bl, NEW fr, NEW pi, NEW held, NEW r, NEW fresh, NEW dropped, NEW canon,
           NEW bl2, NEW pi2,
           Promotion(bl, fr, pi, held, r, fresh, dropped, canon, bl2, pi2)
    PROVE  Coherent(bl2, fr \cup dropped, pi2,
                    [held EXCEPT ![r] = (held[r] \ dropped) \cup canon])
<1> DEFINE held2 == [held EXCEPT ![r] = (held[r] \ dropped) \cup canon]
<1> USE DEF MetaType, IndexType, HoldingType, Promotion
<1>1. /\ held2 \in HoldingType
      /\ \A s \in Requests : held2[s] = IF s = r THEN (held[r] \ dropped) \cup canon ELSE held[s]
  OBVIOUS
<1> HIDE DEF held2
<1>2. FreeBlock.state = "free"
  BY ResetFields
<1>3. \A b \in fresh \cup dropped : b \in Blocks /\ bl[b].state = "private" /\ b \in held[r]
  OBVIOUS
<1>4. \A b \in fresh \cup dropped : Readers(held, b) = {r}
  BY <1>3 DEF Coherent, Owners, Readers
<1>5. ASSUME NEW b \in Blocks
      PROVE  /\ b \in canon => Readers(held2, b) = Readers(held, b) \cup {r} /\ r \notin Readers(held, b)
             /\ b \notin canon \cup dropped => Readers(held2, b) = Readers(held, b)
  BY <1>1 DEF Readers
<1>6. Heap(bl2, fr \cup dropped)
  <2>1. \A b \in Blocks : bl2[b].state = "free" <=> bl[b].state = "free" \/ b \in dropped
    BY <1>2, <1>3
  <2>2. \A b \in fr \cup dropped : bl2[b] = FreeBlock
    BY <1>3 DEF Coherent, Heap
  <2> QED
    BY <2>1, <2>2 DEF Coherent, Heap
<1>7. Owners(bl2, held2)
  <2> SUFFICES ASSUME NEW b \in Blocks, bl2[b].state = "private"
               PROVE  \E s \in Requests : bl2[b] = PrivateBlock(s) /\ Readers(held2, b) = {s}
    BY DEF Owners
  <2>1. b \notin fresh \cup canon \cup dropped
    BY <1>2
  <2>2. bl2[b] = bl[b] /\ Readers(held2, b) = Readers(held, b)
    BY <1>5, <2>1
  <2> QED
    BY <2>2 DEF Coherent, Owners
<1>8. InUse(bl2, held2)
  <2> SUFFICES ASSUME NEW s \in Requests, NEW b \in held2[s] PROVE bl2[b].state # "free"
    BY DEF InUse
  <2>1. b \in Blocks
    BY <1>1
  <2>2. CASE b \in canon \cup fresh
    BY <2>1, <2>2
  <2>3. CASE b \in dropped
    <3>1. s = r
      BY <1>1, <1>4, <2>3 DEF Readers
    <3> QED
      BY <1>1, <1>3, <2>3, <3>1
  <2>4. CASE b \notin canon \cup fresh \cup dropped
    <3>1. b \in held[s] /\ bl2[b] = bl[b]
      BY <1>1, <2>1, <2>4
    <3> QED
      BY <3>1 DEF Coherent, InUse
  <2> QED
    BY <2>2, <2>3, <2>4
<1>9. Counts(bl2, held2)
  <2> SUFFICES ASSUME NEW b \in Blocks, bl2[b].state = "shared"
               PROVE  bl2[b].refs = Cardinality(Readers(held2, b))
    BY DEF Counts
  <2>1. b \notin dropped
    BY <1>2
  <2>2. CASE b \in fresh
    <3>1. Readers(held2, b) = {r}
      BY <1>3, <1>4, <1>5, <2>1, <2>2
    <3>2. Cardinality({r}) = 1
      BY FS_Singleton
    <3>3. bl2[b].refs = 1
      BY <2>2
    <3> QED
      BY <3>1, <3>2, <3>3
  <2>3. CASE b \in canon
    <3>1. Cardinality(Readers(held, b) \cup {r}) = Cardinality(Readers(held, b)) + 1
      BY <1>5, <2>3, ReadersFinite, FS_AddElement
    <3>2. bl[b].refs = Cardinality(Readers(held, b))
      BY <2>3 DEF Coherent, Counts
    <3>3. Readers(held2, b) = Readers(held, b) \cup {r}
      BY <1>5, <2>3
    <3>4. bl2[b].refs = bl[b].refs + 1
      BY <2>3
    <3> QED
      BY <3>1, <3>2, <3>3, <3>4
  <2>4. CASE b \notin fresh \cup canon
    <3>1. bl2[b] = bl[b] /\ Readers(held2, b) = Readers(held, b)
      BY <1>5, <2>1, <2>4
    <3> QED
      BY <3>1 DEF Coherent, Counts
  <2> QED
    BY <2>2, <2>3, <2>4
<1>10. Index(bl2, pi2)
  <2>1. ASSUME NEW h \in Hashes, pi2[h] # NoBlock
        PROVE  bl2[pi2[h]].state = "shared" /\ bl2[pi2[h]].hash = h
    <3>1. CASE \E b \in fresh : bl2[b].hash = h
      BY <1>3, <3>1
    <3>2. CASE \A b \in fresh : bl2[b].hash # h
      <4>1. pi2[h] = pi[h] /\ pi[h] \in Blocks
        BY <2>1, <3>2
      <4>2. bl[pi[h]].state = "shared" /\ bl[pi[h]].hash = h
        BY <2>1, <4>1 DEF Coherent, Index
      <4>3. pi[h] \notin fresh \cup dropped
        BY <1>3, <4>2
      <4> QED
        BY <4>1, <4>2, <4>3
    <3> QED
      BY <3>1, <3>2
  <2>2. ASSUME NEW b \in Blocks, bl2[b].state = "shared"
        PROVE  bl2[b].hash \in Hashes /\ pi2[bl2[b].hash] = b
    <3>1. CASE b \in fresh
      BY <3>1
    <3>2. CASE b \notin fresh
      <4>1. bl[b].state = "shared" /\ bl2[b].hash = bl[b].hash
        BY <1>2, <2>2, <3>2
      <4>2. bl[b].hash \in Hashes /\ pi[bl[b].hash] = b
        BY <4>1 DEF Coherent, Index
      <4>3. \A c \in fresh : bl2[c].hash # bl[b].hash
        BY <1>3, <4>2, NoBlockIsNone
      <4> QED
        BY <4>1, <4>2, <4>3
    <3> QED
      BY <3>1, <3>2
  <2> QED
    BY <2>1, <2>2 DEF Index
<1> QED
  BY <1>6, <1>7, <1>8, <1>9, <1>10 DEF Coherent, held2

-----------------------------------------------------------------------------
(* The invariant of a sharing pool: the views cohere, and each table is in  *)
(* the order in which its request reads it.                                 *)

Holdings == [r \in Requests |-> BlocksOf(r)]

ViewsCohere == Coherent(blocks, free, prefixIndex, Holdings)

IdsDistinct(r) ==
    \A i, j \in 1 .. Len(tables[r].ids) : tables[r].ids[i] = tables[r].ids[j] => i = j

\* The table of a prompt: the prefix hit is shared, what follows it private,
\* and each block has the data of its position.
PromptInOrder(r) ==
    phase[r] = "prefill" =>
        LET ids == tables[r].ids IN
        /\ prefixHit[r] <= Len(Chain[r]) /\ prefixHit[r] <= Len(ids)
        /\ \A i \in 1 .. Len(ids) :
              /\ i <= prefixHit[r] =>
                    blocks[ids[i]].state = "shared" /\ blocks[ids[i]].hash = Chain[r][i]
              /\ i > prefixHit[r] =>
                    blocks[ids[i]].state = "private" /\ content[ids[i]] = PromptData(r, i)

\* A table has the blocks its length needs, and a partly filled one is r's own.
LengthInOrder(r) ==
    LET t == tables[r] IN
    /\ Len(t.ids) = RequiredBlocks(t.length)
    /\ t.length % BlockTokens # 0 =>
          blocks[t.ids[Len(t.ids)]].state = "private" /\ content[t.ids[Len(t.ids)]] = r

TableInOrder(r) ==
    /\ IdsDistinct(r)
    /\ LengthInOrder(r)
    /\ r \notin Held => tables[r] = NoTable
    /\ PromptInOrder(r)
    /\ engine = MustPromote(r) => PrefixEnabled /\ phase[r] = "prefill"

\* Without a prefix cache nothing is shared.
NothingShared ==
    /\ \A b \in Blocks : blocks[b].state # "shared"
    /\ \A r \in Requests : prefixHit[r] = 0

SharingInv ==
    /\ TypeInv
    /\ ViewsCohere
    /\ \A r \in Requests : TableInOrder(r)
    /\ ~PrefixEnabled => NothingShared
    /\ SharedContentCanonical

\* The variables have the types the lemmas about coherence ask for.
LEMMA SharingTypes ==
    ASSUME TypeInv
    PROVE  /\ blocks \in MetaType /\ prefixIndex \in IndexType /\ Holdings \in HoldingType
           /\ \A r \in Requests :
                 /\ tables[r].ids \in Seq(Blocks) /\ Len(tables[r].ids) \in Nat
                 /\ Holdings[r] = BlocksOf(r) /\ BlocksOf(r) \in SUBSET Blocks
                 /\ \A i \in 1 .. Len(tables[r].ids) :
                       tables[r].ids[i] \in Blocks /\ tables[r].ids[i] \in BlocksOf(r)
<1>1. \A r \in Requests : tables[r].ids \in Seq(Blocks)
  BY DEF TypeInv, TypeOK, TableType
<1>2. \A r \in Requests : BlocksOf(r) \in SUBSET Blocks
  BY <1>1 DEF BlocksOf
<1> QED
  BY <1>1, <1>2 DEF TypeInv, TypeOK, MetaType, IndexType, HoldingType, Holdings, BlocksOf

\* A new pool shares nothing.
LEMMA SharingInvInit == Init => SharingInv
<1> SUFFICES ASSUME Init PROVE SharingInv
  OBVIOUS
<1>1. TypeInv
  BY TypeInvInit
<1>2. FreeBlock.state = "free" /\ \A b \in Blocks : blocks[b] = FreeBlock
  BY ResetFields DEF Init
<1>3. \A r \in Requests : tables[r].ids = << >> /\ tables[r] = NoTable /\ BlocksOf(r) = {}
  BY DEF Init, NoTable, BlocksOf
<1>4. ViewsCohere
  <2>1. Heap(blocks, free)
    BY <1>2 DEF Init, Heap
  <2>2. InUse(blocks, Holdings)
    BY <1>3 DEF InUse, Holdings
  <2>3. Owners(blocks, Holdings) /\ Counts(blocks, Holdings)
    BY <1>2 DEF Owners, Counts
  <2>4. Index(blocks, prefixIndex)
    BY <1>2 DEF Init, Index
  <2> QED
    BY <2>1, <2>2, <2>3, <2>4 DEF ViewsCohere, Coherent
<1>5. ASSUME NEW r \in Requests PROVE TableInOrder(r)
  <2>1. phase[r] = "absent" /\ engine = Idle
    BY DEF Init
  <2> QED
    BY <1>3, <2>1, EngineDistinct, NoTableLength
    DEF TableInOrder, IdsDistinct, LengthInOrder, PromptInOrder
<1>6. NothingShared
  BY <1>2 DEF Init, NothingShared
<1>7. SharedContentCanonical
  BY <1>2 DEF SharedContentCanonical
<1> QED
  BY <1>1, <1>4, <1>5, <1>6, <1>7 DEF SharingInv

\* A step leaves what r reads as it is, and what every request but r reads.
Untouched(r) ==
    /\ tables'[r] = tables[r] /\ phase'[r] = phase[r]
    /\ \A b \in BlocksOf(r) : blocks'[b].state = blocks[b].state /\ content'[b] = content[b]
OthersUntouched(r) == \A s \in Requests : s # r => Untouched(s)

\* A step that leaves r and the blocks it reads alone leaves its table in order.
LEMMA UntouchedInOrder ==
    ASSUME SharingInv, NEW r \in Requests,
           tables'[r] = tables[r], phase'[r] = phase[r], prefixHit'[r] = prefixHit[r],
           engine' = MustPromote(r) => engine = MustPromote(r),
           \A b \in BlocksOf(r) :
              /\ blocks'[b].state = blocks[b].state /\ blocks'[b].hash = blocks[b].hash
              /\ content'[b] = content[b]
    PROVE  TableInOrder(r)' /\ Untouched(r)
<1>1. TableInOrder(r)
  BY DEF SharingInv
<1>2. \A i \in 1 .. Len(tables[r].ids) : tables[r].ids[i] \in BlocksOf(r)
  BY DEF BlocksOf
<1>3. IdsDistinct(r)'
  BY <1>1 DEF TableInOrder, IdsDistinct
<1>7. LengthInOrder(r)'
  <2>1. tables[r].length \in Nat
    BY DEF SharingInv, TypeInv, TypeOK, TableType
  <2>2. tables[r].length % BlockTokens # 0 => Len(tables[r].ids) \in 1 .. Len(tables[r].ids)
    <3>1. tables[r].length % BlockTokens # 0 => tables[r].length > 0
      BY <2>1, NoTableLength
    <3>2. tables[r].length > 0 => RequiredBlocks(tables[r].length) \in Nat \ {0}
      BY <2>1, RequiredBlocksNext
    <3>3. Len(tables[r].ids) = RequiredBlocks(tables[r].length)
      BY <1>1 DEF TableInOrder, LengthInOrder
    <3> QED
      BY <3>1, <3>2, <3>3
  <2> QED
    BY <1>1, <1>2, <2>2 DEF TableInOrder, LengthInOrder
<1>4. (r \notin Held)' => tables'[r] = NoTable
  BY <1>1 DEF TableInOrder, Held
<1>5. PromptInOrder(r)'
  BY <1>1, <1>2 DEF TableInOrder, PromptInOrder
<1>6. engine' = MustPromote(r) => PrefixEnabled /\ phase'[r] = "prefill"
  BY <1>1 DEF TableInOrder
<1> QED
  BY <1>3, <1>4, <1>5, <1>6, <1>7 DEF TableInOrder, Untouched

\* Steps that change neither blocks nor the ids in a table.
LEMMA SameBlocks ==
    ASSUME SharingInv, TypeInv', UNCHANGED <<blocks, free, prefixIndex, content, prefixHit>>,
           \A r \in Requests : tables'[r].ids = tables[r].ids,
           \A r \in Requests : TableInOrder(r)'
    PROVE  SharingInv'
<1>1. \A r \in Requests : BlocksOf(r)' = BlocksOf(r)
  BY DEF BlocksOf
<1>2. Holdings' = Holdings
  BY <1>1 DEF Holdings
<1>3. ViewsCohere'
  BY <1>2 DEF SharingInv, ViewsCohere
<1>4. NothingShared' = NothingShared /\ SharedContentCanonical' = SharedContentCanonical
  BY DEF NothingShared, SharedContentCanonical
<1> QED
  BY <1>3, <1>4 DEF SharingInv

\* Reserving privately shares nothing.
LEMMA ReserveSharing ==
    ASSUME SharingInv, NEW r \in Requests, NEW tokens \in 1 .. Window, Reserve(r, tokens)
    PROVE  SharingInv' /\ OthersUntouched(r)
<1>1. TypeInv'
  BY ReserveType DEF SharingInv
<1>2. /\ engine = Idle /\ engine' = engine
      /\ UNCHANGED <<blocks, free, prefixIndex, content, prefixHit>>
      /\ r \notin Held
      /\ phase'[r] \in {"prefill", "resume"}
      /\ phase'[r] = "prefill" => ~PrefixEnabled
      /\ tables'[r].ids = << >> /\ tables'[r].length = 0
      /\ \A s \in Requests : s # r => tables'[s] = tables[s] /\ phase'[s] = phase[s]
  BY DEF Reserve, SharingInv, TypeInv, TypeOK, TableType, Held, NoTable
<1>3. tables[r].ids = << >>
  BY <1>2 DEF SharingInv, TableInOrder, NoTable
<1>4. TableInOrder(r)'
  <2>1. phase'[r] = "prefill" => prefixHit'[r] = 0
    BY <1>2 DEF SharingInv, NothingShared
  <2>2. PromptInOrder(r)'
    BY <1>2, <2>1, ChainType DEF PromptInOrder
  <2>3. (r \in Held)'
    BY <1>2 DEF Held
  <2> QED
    BY <1>2, <2>2, <2>3, EngineDistinct, NoTableLength
    DEF TableInOrder, IdsDistinct, LengthInOrder
<1>5. \A s \in Requests : s # r => TableInOrder(s)' /\ Untouched(s)
  BY <1>2, UntouchedInOrder
<1> QED
  BY <1>1, <1>2, <1>3, <1>4, <1>5, SameBlocks DEF OthersUntouched

\* Growing a reservation shares nothing.
LEMMA GrowReservationSharing ==
    ASSUME SharingInv, NEW r \in Requests, NEW target \in 1 .. NumBlocks, GrowReservation(r, target)
    PROVE  SharingInv' /\ OthersUntouched(r)
<1>1. TypeInv'
  BY GrowReservationType DEF SharingInv
<1>2. /\ UNCHANGED <<blocks, free, prefixIndex, content, prefixHit, phase, engine>>
      /\ r \in Held
      /\ \A s \in Requests : tables'[s].ids = tables[s].ids
                              /\ tables'[s].length = tables[s].length
      /\ \A s \in Requests : s # r => tables'[s] = tables[s]
  BY DEF GrowReservation, SharingInv, TypeInv, TypeOK, TableType, Held
<1>3. TableInOrder(r)'
  BY <1>2 DEF SharingInv, TableInOrder, IdsDistinct, LengthInOrder, PromptInOrder, Held
<1>4. \A s \in Requests : s # r => TableInOrder(s)' /\ Untouched(s)
  BY <1>2, UntouchedInOrder
<1> QED
  BY <1>1, <1>2, <1>3, <1>4, SameBlocks DEF OthersUntouched

\* A promotion that raises has changed nothing.
LEMMA PromoteRaisesSharing ==
    ASSUME SharingInv, NEW r \in Requests, PromoteRaises(r)
    PROVE  SharingInv' /\ OthersUntouched(r) /\ Untouched(r)
<1>1. TypeInv'
  BY PromoteRaisesType DEF SharingInv
<1>2. /\ UNCHANGED <<blocks, free, prefixIndex, content, prefixHit, phase, tables>>
      /\ engine' = MustRelease(r)
  BY DEF PromoteRaises
<1>3. \A s \in Requests : TableInOrder(s)' /\ Untouched(s)
  BY <1>2, UntouchedInOrder, EngineDistinct
<1> QED
  BY <1>1, <1>2, <1>3, SameBlocks DEF OthersUntouched

\* What coherence says of a block in a table.
LEMMA BlockInTable ==
    ASSUME SharingInv, NEW r \in Requests, NEW b \in BlocksOf(r)
    PROVE  /\ b \in Blocks /\ b \notin free
           /\ blocks[b].state \in {"private", "shared"}
           /\ blocks[b].state = "private" =>
                 /\ blocks[b] = PrivateBlock(r)
                 /\ \A s \in Requests : b \in BlocksOf(s) => s = r
           /\ blocks[b].state = "shared" => blocks[b].refs # 0
<1>1. b \in Blocks /\ Holdings \in HoldingType /\ r \in Readers(Holdings, b)
  BY SharingTypes DEF SharingInv, Readers, HoldingType, Holdings
<1>2. blocks[b].state # "free" /\ b \notin free
  BY <1>1 DEF SharingInv, ViewsCohere, Coherent, InUse, Heap, Holdings
<1>3. blocks[b].state \in {"free", "private", "shared"}
  BY <1>1 DEF SharingInv, TypeInv, TypeOK, BlockType
<1>4. blocks[b].state = "private" =>
         \E s \in Requests : blocks[b] = PrivateBlock(s) /\ Readers(Holdings, b) = {s}
  BY <1>1 DEF SharingInv, ViewsCohere, Coherent, Owners
<1>5. \A s \in Requests : b \in BlocksOf(s) => s \in Readers(Holdings, b)
  BY DEF Readers, Holdings
<1>6. blocks[b].state = "shared" => blocks[b].refs # 0
  <2>1. blocks[b].state = "shared" => blocks[b].refs = Cardinality(Readers(Holdings, b))
    BY <1>1 DEF SharingInv, ViewsCohere, Coherent, Counts
  <2> QED
    BY <1>1, <2>1, ReadersFinite
<1> QED
  BY <1>1, <1>2, <1>3, <1>4, <1>5, <1>6

\* A chain has no hash twice.
LEMMA ChainDistinct ==
    ASSUME NEW r \in Requests, NEW i \in 1 .. Len(Chain[r]), NEW j \in 1 .. Len(Chain[r]),
           Chain[r][i] = Chain[r][j]
    PROVE  i = j
BY PoolAssumption DEF PrefixTree

\* Attaching a resident prefix takes a reference to each of its blocks.
LEMMA ReserveWithPrefixSharing ==
    ASSUME SharingInv, NEW r \in Requests, ReserveWithPrefix(r)
    PROVE  SharingInv' /\ OthersUntouched(r)
<1>1. PICK k \in 0 .. Len(Chain[r]) :
         LET hit == [i \in 1 .. k |-> prefixIndex[Chain[r][i]]]
             private == AdmissionBlocks(r, PromptLen[r]) - k
         IN  /\ LongestPrefix(r, k)
             /\ blocks' = [b \in Blocks |->
                   IF \E i \in 1 .. k : hit[i] = b
                   THEN [blocks[b] EXCEPT !.refs = @ + 1,
                                          !.lastUsed = clock + Position(hit, b)]
                   ELSE blocks[b]]
             /\ tables' = [tables EXCEPT ![r] =
                   [ids |-> hit, length |-> k * BlockTokens,
                    reserved |-> private, max |-> LifetimeBlocks(r)]]
             /\ prefixHit' = [prefixHit EXCEPT ![r] = k]
  BY DEF ReserveWithPrefix
<1> DEFINE hit == [i \in 1 .. k |-> prefixIndex[Chain[r][i]]]
           hits == {hit[i] : i \in 1 .. k}
<1>2. TypeInv /\ TypeInv'
  BY ReserveWithPrefixType DEF SharingInv
<1>3. /\ UNCHANGED <<free, prefixIndex, content, engine>>
      /\ engine = Idle /\ PrefixEnabled /\ phase[r] = "absent"
      /\ phase' = [phase EXCEPT ![r] = "prefill"]
  BY DEF ReserveWithPrefix
<1>4. k \in Nat /\ \A i \in 1 .. k : i \in 1 .. Len(Chain[r]) /\ Chain[r][i] \in Hashes
  BY ChainType
<1>5. ASSUME NEW i \in 1 .. k
      PROVE  hit[i] \in Blocks /\ blocks[hit[i]].state = "shared" /\ blocks[hit[i]].hash = Chain[r][i]
  <2>1. prefixIndex[Chain[r][i]] # NoBlock /\ hit[i] = prefixIndex[Chain[r][i]]
    BY <1>1 DEF LongestPrefix
  <2>2. hit[i] \in Blocks
    BY <1>2, <1>4, <2>1 DEF TypeInv, TypeOK
  <2>3. blocks[hit[i]].state = "shared" /\ blocks[hit[i]].hash = Chain[r][i]
    BY <1>4, <2>1 DEF SharingInv, ViewsCohere, Coherent, Index
  <2> QED
    BY <2>2, <2>3
<1>6. /\ tables'[r].ids = hit /\ Len(tables'[r].ids) = k /\ tables'[r].length = k * BlockTokens
      /\ \A s \in Requests : s # r => tables'[s] = tables[s] /\ phase'[s] = phase[s]
                                      /\ prefixHit'[s] = prefixHit[s]
      /\ phase'[r] = "prefill" /\ prefixHit'[r] = k
  <2>1. tables \in [Requests -> TableType] /\ phase \in [Requests -> {"absent", "prefill", "resume", "decode", "preempted"}]
        /\ prefixHit \in [Requests -> Nat]
    BY <1>2 DEF TypeInv, TypeOK
  <2>2. hit \in [1 .. k -> Blocks]
    BY <1>5
  <2>3. Len(hit) = k
    BY <1>4, <2>2, SequenceOfBlocks
  <2> QED
    BY <1>1, <1>3, <2>1, <2>3
<1>7. \A b \in Blocks : (\E i \in 1 .. k : hit[i] = b) <=> b \in hits
  OBVIOUS
<1>8. ASSUME NEW b \in Blocks
      PROVE  /\ b \in hits => /\ blocks[b].state = "shared" /\ blocks'[b].state = "shared"
                              /\ blocks'[b].hash = blocks[b].hash
                              /\ blocks'[b].refs = blocks[b].refs + 1
             /\ b \notin hits => blocks'[b] = blocks[b]
  <2>1. blocks[b] \in BlockType
    BY <1>2 DEF TypeInv, TypeOK
  <2>2. blocks'[b] = IF b \in hits
                     THEN [blocks[b] EXCEPT !.refs = @ + 1, !.lastUsed = clock + Position(hit, b)]
                     ELSE blocks[b]
    BY <1>1, <1>7
  <2> QED
    BY <1>5, <2>1, <2>2 DEF BlockType
<1>9. tables[r].ids = << >> /\ BlocksOf(r) = {}
  BY <1>3 DEF SharingInv, TableInOrder, Held, NoTable, BlocksOf
<1>10. Holdings' = [Holdings EXCEPT ![r] = hits]
  <2>1. BlocksOf(r)' = hits
    BY <1>6 DEF BlocksOf
  <2>2. \A s \in Requests : s # r => BlocksOf(s)' = BlocksOf(s)
    BY <1>6 DEF BlocksOf
  <2> QED
    BY <2>1, <2>2 DEF Holdings
<1>11. ViewsCohere'
  <2>1. hits \in SUBSET {b \in Blocks : blocks[b].state = "shared"}
    BY <1>5
  <2>2. blocks' \in MetaType /\ free \in SUBSET Blocks
    BY <1>2 DEF TypeInv, TypeOK, MetaType
  <2>3. Holdings[r] = {}
    BY <1>9 DEF Holdings
  <2> HIDE DEF hits
  <2>4. Coherent(blocks', free, prefixIndex, [Holdings EXCEPT ![r] = hits])
    BY <1>2, <1>8, <2>1, <2>2, <2>3, SharingTypes, AttachCoherent DEF SharingInv, ViewsCohere
  <2> QED
    BY <1>3, <1>10, <2>4 DEF ViewsCohere
<1>12. TableInOrder(r)'
  <2>1. IdsDistinct(r)'
    <3>1. \A i, j \in 1 .. k : hit[i] = hit[j] => Chain[r][i] = Chain[r][j]
      BY <1>5
    <3> QED
      BY <1>4, <1>6, <3>1, ChainDistinct DEF IdsDistinct
  <2>2. PromptInOrder(r)'
    <3>1. \A i \in 1 .. k : blocks'[hit[i]].state = "shared" /\ blocks'[hit[i]].hash = Chain[r][i]
      BY <1>5, <1>8
    <3> QED
      BY <1>4, <1>6, <3>1 DEF PromptInOrder
  <2>3. (r \in Held)'
    BY <1>6 DEF Held
  <2> QED
    BY <1>3, <1>4, <1>6, <2>1, <2>2, <2>3, RequiredBlocksWhole DEF TableInOrder, LengthInOrder
<1>13. ASSUME NEW s \in Requests, s # r PROVE TableInOrder(s)' /\ Untouched(s)
  <2>1. \A b \in BlocksOf(s) : blocks'[b].state = blocks[b].state /\ blocks'[b].hash = blocks[b].hash
    BY <1>8, BlockInTable
  <2> QED
    BY <1>3, <1>6, <1>13, <2>1, UntouchedInOrder
<1>14. SharedContentCanonical'
  BY <1>3, <1>8 DEF SharingInv, SharedContentCanonical
<1> QED
  BY <1>2, <1>3, <1>11, <1>12, <1>13, <1>14 DEF SharingInv, OthersUntouched

\* Reading the boundary logits touches a block.
LEMMA ReadBoundaryLogitsSharing ==
    ASSUME SharingInv, NEW r \in Requests, ReadBoundaryLogits(r)
    PROVE  SharingInv' /\ OthersUntouched(r) /\ Untouched(r)
<1> DEFINE b == tables[r].ids[Len(tables[r].ids)]
<1>1. TypeInv /\ TypeInv'
  BY ReadBoundaryLogitsType DEF SharingInv
<1>2. /\ blocks[b].state = "shared"
      /\ blocks' = [blocks EXCEPT ![b].lastUsed = clock + 1]
      /\ UNCHANGED <<free, tables, prefixIndex, content, phase, prefixHit, engine>>
  BY DEF ReadBoundaryLogits
<1> HIDE DEF b
<1>3. ASSUME NEW c \in Blocks
      PROVE  \/ blocks'[c] = blocks[c]
             \/ /\ blocks[c].state = "shared" /\ blocks'[c].state = "shared"
                /\ blocks'[c].hash = blocks[c].hash /\ blocks'[c].refs = blocks[c].refs
  <2>1. blocks[c] \in BlockType /\ blocks \in [Blocks -> BlockType]
    BY <1>1 DEF TypeInv, TypeOK
  <2>2. blocks'[c] = IF c = b THEN [blocks[c] EXCEPT !.lastUsed = clock + 1] ELSE blocks[c]
    BY <1>2, <2>1
  <2> QED
    BY <1>2, <2>1, <2>2 DEF BlockType
<1>4. Holdings' = Holdings
  BY <1>2 DEF Holdings, BlocksOf
<1>5. ViewsCohere'
  <2>1. blocks' \in MetaType /\ free \in SUBSET Blocks
    BY <1>1 DEF TypeInv, TypeOK, MetaType
  <2>2. Coherent(blocks', free, prefixIndex, Holdings)
    BY <1>1, <1>3, <2>1, SharingTypes, TouchCoherent DEF SharingInv, ViewsCohere
  <2> QED
    BY <1>2, <1>4, <2>2 DEF ViewsCohere
<1>6. \A s \in Requests : TableInOrder(s)' /\ Untouched(s)
  <2>1. \A s \in Requests : \A c \in BlocksOf(s) :
           blocks'[c].state = blocks[c].state /\ blocks'[c].hash = blocks[c].hash
    BY <1>3, BlockInTable
  <2> QED
    BY <1>2, <2>1, UntouchedInOrder
<1>7. ~PrefixEnabled => NothingShared'
  BY <1>2, <1>3 DEF SharingInv, NothingShared
<1>8. SharedContentCanonical'
  BY <1>2, <1>3 DEF SharingInv, SharedContentCanonical
<1> QED
  BY <1>1, <1>5, <1>6, <1>7, <1>8 DEF SharingInv, OthersUntouched

\* The tail of a partly filled table is in it, and is the request's own.
LEMMA TailOwn ==
    ASSUME SharingInv, NEW r \in Requests, tables[r].length % BlockTokens # 0
    PROVE  LET tail == tables[r].ids[Len(tables[r].ids)]
           IN  /\ Len(tables[r].ids) \in 1 .. Len(tables[r].ids) /\ tail \in BlocksOf(r)
               /\ blocks[tail].state = "private" /\ content[tail] = r
<1>1. tables[r].length \in Nat
  BY DEF SharingInv, TypeInv, TypeOK, TableType
<1>2. tables[r].length > 0
  BY <1>1, NoTableLength
<1>3. RequiredBlocks(tables[r].length) \in Nat \ {0}
  BY <1>1, <1>2, RequiredBlocksNext
<1>4. LengthInOrder(r)
  BY DEF SharingInv, TableInOrder
<1>5. Len(tables[r].ids) \in 1 .. Len(tables[r].ids)
  BY <1>3, <1>4 DEF LengthInOrder
<1> QED
  BY <1>4, <1>5 DEF LengthInOrder, BlocksOf

\* A token in the tail goes into a block of the request's own.
LEMMA AppendTailSharing ==
    ASSUME SharingInv, NEW r \in Requests, AppendTail(r)
    PROVE  SharingInv' /\ OthersUntouched(r)
<1> DEFINE tail == tables[r].ids[Len(tables[r].ids)]
<1>1. TypeInv'
  BY AppendTailType DEF SharingInv
<1>2. /\ engine = Idle /\ phase[r] = "decode" /\ tables[r].length % BlockTokens # 0
      /\ content' = [content EXCEPT ![tail] = r]
      /\ \/ tables' = [tables EXCEPT ![r].length = @ + 1]
         \/ tables' = tables
      /\ engine' \in {Idle, MustRelease(r)}
      /\ UNCHANGED <<blocks, free, prefixIndex, phase, prefixHit>>
  BY DEF AppendTail, NeedsBlock
<1>3. tail \in BlocksOf(r) /\ blocks[tail].state = "private" /\ content[tail] = r
  BY <1>2, TailOwn
<1> HIDE DEF tail
<1>4. content' = content
  BY <1>2, <1>3 DEF SharingInv, TypeInv, TypeOK
<1>5. /\ tables \in [Requests -> TableType] /\ tables[r].length \in Nat
      /\ tables[r].ids \in Seq(Blocks)
  BY DEF SharingInv, TypeInv, TypeOK, TableType
<1>6. /\ \A s \in Requests : tables'[s].ids = tables[s].ids
      /\ \A s \in Requests : s # r => tables'[s] = tables[s]
      /\ tables'[r].length \in {tables[r].length, tables[r].length + 1}
  BY <1>2, <1>5, ZenonT(60) DEF TableType
<1>7. \A s \in Requests : engine' # MustPromote(s)
  BY <1>2, EngineDistinct
<1>8. \A s \in Requests : s # r => TableInOrder(s)' /\ Untouched(s)
  BY <1>2, <1>4, <1>6, <1>7, UntouchedInOrder
<1>9. TableInOrder(r)'
  <2>1. TableInOrder(r) /\ r \in Held
    BY <1>2 DEF SharingInv, Held
  <2>2. RequiredBlocks(tables[r].length + 1) = RequiredBlocks(tables[r].length)
    BY <1>2, <1>5, RequiredBlocksNext
  <2>3. LengthInOrder(r)'
    <3>1. Len(tables'[r].ids) = RequiredBlocks(tables'[r].length)
      BY <1>6, <2>1, <2>2 DEF TableInOrder, LengthInOrder
    <3>2. blocks'[tables'[r].ids[Len(tables'[r].ids)]].state = "private"
          /\ content'[tables'[r].ids[Len(tables'[r].ids)]] = r
      BY <1>2, <1>3, <1>4, <1>6 DEF tail
    <3> QED
      BY <3>1, <3>2 DEF LengthInOrder
  <2>4. IdsDistinct(r)'
    BY <1>6, <2>1 DEF TableInOrder, IdsDistinct
  <2>5. PromptInOrder(r)' /\ (r \in Held)'
    BY <1>2, <2>1 DEF PromptInOrder, Held
  <2> QED
    BY <1>7, <2>3, <2>4, <2>5 DEF TableInOrder
<1> QED
  BY <1>1, <1>2, <1>4, <1>6, <1>8, <1>9, SameBlocks DEF OthersUntouched

\* What Detached does to each block, in the terms of DetachCoherent.
LEMMA DetachedCoherent ==
    ASSUME SharingInv, NEW r \in Requests
    PROVE  /\ Detached(r) \in MetaType
           /\ [Holdings EXCEPT ![r] = {}] \in HoldingType
           /\ free \cup PrivateOf(r) \in SUBSET Blocks
           /\ Coherent(Detached(r), free \cup PrivateOf(r), prefixIndex,
                       [Holdings EXCEPT ![r] = {}])
           /\ \A b \in Blocks :
                 /\ b \notin BlocksOf(r) => Detached(r)[b] = blocks[b]
                 /\ blocks[b].state = "shared" =>
                       Detached(r)[b].state = "shared" /\ Detached(r)[b].hash = blocks[b].hash
                 /\ Detached(r)[b].state = "shared" => blocks[b].state = "shared"
<1>1. TypeInv /\ Coherent(blocks, free, prefixIndex, Holdings)
  BY DEF SharingInv, ViewsCohere
<1>2. /\ blocks \in MetaType /\ prefixIndex \in IndexType /\ Holdings \in HoldingType
      /\ free \in SUBSET Blocks /\ Holdings[r] = BlocksOf(r) /\ BlocksOf(r) \in SUBSET Blocks
  BY <1>1, SharingTypes DEF TypeInv, TypeOK
<1>3. Detached(r) \in MetaType
  BY <1>1, DetachedType DEF MetaType
<1>4. PrivateOf(r) = {b \in Holdings[r] : blocks[b].state = "private"}
  BY <1>2 DEF PrivateOf
<1>5. ASSUME NEW b \in Blocks
      PROVE  /\ b \in Holdings[r] /\ blocks[b].state = "private" => Detached(r)[b] = FreeBlock
             /\ b \in Holdings[r] /\ blocks[b].state = "shared" =>
                   /\ Detached(r)[b].state = "shared" /\ Detached(r)[b].hash = blocks[b].hash
                   /\ Detached(r)[b].refs = blocks[b].refs - 1
             /\ b \notin Holdings[r] => Detached(r)[b] = blocks[b]
  <2>1. blocks[b] \in BlockType
    BY <1>2 DEF MetaType
  <2>2. Detached(r)[b] =
          IF b \in PrivateOf(r) THEN FreeBlock
          ELSE IF b \in SharedOf(r)
          THEN [blocks[b] EXCEPT !.refs = @ - 1,
                                 !.lastUsed = clock + Position(tables[r].ids, b)]
          ELSE blocks[b]
    BY DEF Detached
  <2> QED
    BY <1>2, <2>1, <2>2 DEF PrivateOf, SharedOf, BlockType
<1>6. Coherent(Detached(r), free \cup PrivateOf(r), prefixIndex, [Holdings EXCEPT ![r] = {}])
      /\ [Holdings EXCEPT ![r] = {}] \in HoldingType
  BY <1>1, <1>2, <1>3, <1>4, <1>5, DetachCoherent
<1>7. ASSUME NEW b \in Blocks
      PROVE  /\ blocks[b].state = "shared" =>
                   Detached(r)[b].state = "shared" /\ Detached(r)[b].hash = blocks[b].hash
             /\ Detached(r)[b].state = "shared" => blocks[b].state = "shared"
  <2>1. b \in BlocksOf(r) => blocks[b].state \in {"private", "shared"}
    BY BlockInTable
  <2> QED
    BY <1>2, <1>5, <2>1, ResetFields
<1>8. free \cup PrivateOf(r) \in SUBSET Blocks
  BY <1>2, <1>4
<1> QED
  BY <1>2, <1>3, <1>5, <1>6, <1>7, <1>8

\* Dropping a table releases its blocks.
LEMMA ReleaseSharing ==
    ASSUME SharingInv, NEW r \in Requests, Release(r)
    PROVE  SharingInv' /\ OthersUntouched(r)
<1>1. TypeInv /\ TypeInv'
  BY ReleaseType DEF SharingInv
<1>2. /\ blocks' = Detached(r) /\ free' = free \cup PrivateOf(r)
      /\ tables' = [tables EXCEPT ![r] = NoTable] /\ engine' = Idle
      /\ UNCHANGED <<prefixIndex, content, prefixHit>>
      /\ phase' \in {[phase EXCEPT ![r] = "preempted"], [phase EXCEPT ![r] = "absent"]}
  BY DEF Release
<1>3. /\ tables'[r] = NoTable /\ tables'[r].ids = << >> /\ phase'[r] \in {"preempted", "absent"}
      /\ \A s \in Requests : s # r => tables'[s] = tables[s] /\ phase'[s] = phase[s]
  BY <1>1, <1>2 DEF TypeInv, TypeOK, NoTable
<1>4. Holdings' = [Holdings EXCEPT ![r] = {}]
  <2>1. BlocksOf(r)' = {} /\ \A s \in Requests : s # r => BlocksOf(s)' = BlocksOf(s)
    BY <1>3 DEF BlocksOf
  <2> QED
    BY <2>1 DEF Holdings
<1>5. ViewsCohere'
  BY <1>2, <1>4, DetachedCoherent DEF ViewsCohere
<1>6. TableInOrder(r)'
  BY <1>2, <1>3, EngineDistinct, NoTableLength
  DEF TableInOrder, IdsDistinct, LengthInOrder, PromptInOrder
<1>7. ASSUME NEW s \in Requests, s # r PROVE TableInOrder(s)' /\ Untouched(s)
  <2>1. ASSUME NEW b \in BlocksOf(s)
        PROVE  blocks'[b].state = blocks[b].state /\ blocks'[b].hash = blocks[b].hash
    <3>1. b \in Blocks /\ blocks[b].state \in {"private", "shared"}
      BY BlockInTable
    <3>2. blocks[b].state = "private" => b \notin BlocksOf(r)
      BY <1>7, BlockInTable
    <3> QED
      BY <1>2, <3>1, <3>2, DetachedCoherent
  <2> QED
    BY <1>2, <1>3, <1>7, <2>1, UntouchedInOrder, EngineDistinct
<1>8. ~PrefixEnabled => NothingShared'
  BY <1>2, DetachedCoherent DEF SharingInv, NothingShared
<1>9. SharedContentCanonical'
  BY <1>2, DetachedCoherent DEF SharingInv, SharedContentCanonical
<1> QED
  BY <1>1, <1>5, <1>6, <1>7, <1>8, <1>9 DEF SharingInv, OthersUntouched

\* A shutdown leaves no block, no reference and no index entry behind.
LEMMA ReleaseAllFrees ==
    ASSUME SharingInv, ReleaseAll
    PROVE  /\ \A b \in Blocks : blocks'[b] = FreeBlock
           /\ free' = Blocks
           /\ \A h \in Hashes : prefixIndex'[h] = NoBlock
<1> DEFINE freed == UNION {PrivateOf(r) : r \in Requests}
           refsLeft(b) == blocks[b].refs - Cardinality(References(b))
           evicted == {b \in Blocks : blocks[b].state = "shared" /\ refsLeft(b) = 0}
<1>1. /\ blocks' = [b \in Blocks |->
            IF b \in freed \cup evicted THEN FreeBlock
            ELSE IF blocks[b].state = "shared" THEN [blocks[b] EXCEPT !.refs = refsLeft(b)]
            ELSE blocks[b]]
      /\ free' = free \cup freed \cup evicted
      /\ prefixIndex' = Unindexed(evicted)
  BY DEF ReleaseAll
<1>2. /\ Holdings \in HoldingType /\ free \in SUBSET Blocks
      /\ \A r \in Requests : Holdings[r] = BlocksOf(r) /\ BlocksOf(r) \in SUBSET Blocks
      /\ prefixIndex \in IndexType
  BY SharingTypes DEF SharingInv, TypeInv, TypeOK
<1>3. \A b \in Blocks : References(b) = Readers(Holdings, b)
  BY <1>2 DEF References, Readers
<1>4. ASSUME NEW b \in Blocks, blocks[b].state = "shared" PROVE b \in evicted
  <2>1. blocks[b].refs = Cardinality(Readers(Holdings, b))
    BY <1>4 DEF SharingInv, ViewsCohere, Coherent, Counts
  <2>2. Cardinality(Readers(Holdings, b)) \in Nat
    BY ReadersFinite
  <2>3. refsLeft(b) = 0
    BY <1>3, <2>1, <2>2
  <2> QED
    BY <1>4, <2>3
<1>5. ASSUME NEW b \in Blocks, blocks[b].state = "private" PROVE b \in freed
  <2>1. PICK r \in Requests : Readers(Holdings, b) = {r}
    BY <1>5 DEF SharingInv, ViewsCohere, Coherent, Owners
  <2>2. b \in BlocksOf(r)
    BY <1>2, <2>1 DEF Readers
  <2> QED
    BY <1>5, <2>2 DEF PrivateOf
<1>6. freed \in SUBSET Blocks /\ evicted \in SUBSET Blocks
  BY <1>2 DEF PrivateOf
<1> HIDE DEF freed, evicted, refsLeft
<1>7. ASSUME NEW b \in Blocks PROVE b \in freed \cup evicted \/ (b \in free /\ blocks[b] = FreeBlock)
  <2>1. blocks[b].state \in {"free", "private", "shared"}
    BY DEF SharingInv, TypeInv, TypeOK, BlockType
  <2>2. blocks[b].state = "free" => b \in free /\ blocks[b] = FreeBlock
    BY DEF SharingInv, ViewsCohere, Coherent, Heap
  <2> QED
    BY <1>4, <1>5, <2>1, <2>2
<1>8. ASSUME NEW b \in Blocks PROVE blocks'[b] = FreeBlock
  BY <1>1, <1>7, ResetFields
<1>9. free' = Blocks
  BY <1>1, <1>2, <1>6, <1>7
<1>10. ASSUME NEW h \in Hashes PROVE prefixIndex'[h] = NoBlock
  <2>1. prefixIndex[h] # NoBlock => prefixIndex[h] \in Blocks /\ blocks[prefixIndex[h]].state = "shared"
    BY <1>2 DEF SharingInv, ViewsCohere, Coherent, Index, IndexType
  <2> QED
    BY <1>1, <1>4, <2>1 DEF Unindexed
<1> QED
  BY <1>8, <1>9, <1>10

\* A shut down pool is as a new one.
LEMMA ReleaseAllSharing ==
    ASSUME SharingInv, ReleaseAll
    PROVE  SharingInv'
<1>1. TypeInv'
  BY ReleaseAllType DEF SharingInv
<1>2. FreeBlock.state = "free" /\ \A b \in Blocks : blocks'[b] = FreeBlock
  BY ResetFields, ReleaseAllFrees
<1>3. /\ tables' = [r \in Requests |-> NoTable] /\ phase' = [r \in Requests |-> "absent"]
      /\ engine' = Idle /\ prefixHit' = prefixHit
  BY DEF ReleaseAll
<1>4. \A r \in Requests : tables'[r] = NoTable /\ tables'[r].ids = << >> /\ BlocksOf(r)' = {}
  BY <1>3 DEF NoTable, BlocksOf
<1>5. ViewsCohere'
  <2>1. Heap(blocks', free')
    BY <1>2, ReleaseAllFrees DEF Heap
  <2>2. InUse(blocks', Holdings')
    BY <1>4 DEF InUse, Holdings
  <2>3. Owners(blocks', Holdings') /\ Counts(blocks', Holdings')
    BY <1>2 DEF Owners, Counts
  <2>4. Index(blocks', prefixIndex')
    BY <1>2, ReleaseAllFrees DEF Index
  <2> QED
    BY <2>1, <2>2, <2>3, <2>4 DEF ViewsCohere, Coherent
<1>6. \A r \in Requests : TableInOrder(r)'
  BY <1>3, <1>4, EngineDistinct, NoTableLength
  DEF TableInOrder, IdsDistinct, LengthInOrder, PromptInOrder
<1>7. ~PrefixEnabled => NothingShared'
  BY <1>2, <1>3 DEF SharingInv, NothingShared
<1>8. SharedContentCanonical'
  BY <1>2 DEF SharedContentCanonical
<1> QED
  BY <1>1, <1>5, <1>6, <1>7, <1>8 DEF SharingInv

-----------------------------------------------------------------------------
(* Writes.                                                                  *)

\* From metadata bl and heap fr that cohere, r evicts some blocks and gets
\* others, and held becomes held2.
Allocation(bl, fr, held, r, evicted, got, held2) ==
    /\ bl \in MetaType /\ fr \in SUBSET Blocks /\ held \in HoldingType /\ r \in Requests
    /\ prefixIndex \in IndexType /\ Coherent(bl, fr, prefixIndex, held)
    /\ evicted \in SUBSET EvictableIn(bl) /\ got \in SUBSET (fr \cup evicted)
    /\ held2 = [held EXCEPT ![r] = held[r] \cup got]

\* A set of evicted blocks and the blocks got are none that a table has, and
\* what is left coheres.
LEMMA AllocateCoherent ==
    ASSUME NEW bl, NEW fr, NEW held, NEW r, NEW evicted, NEW got, NEW held2,
           Allocation(bl, fr, held, r, evicted, got, held2)
    PROVE  /\ Coherent(Allocated(bl, r, evicted, got), HeapAfter(fr, evicted, got),
                       Unindexed(evicted), held2)
           /\ \A s \in Requests : \A b \in held[s] : b \notin evicted \cup got
           /\ \A b \in Blocks : b \notin evicted \cup got => Allocated(bl, r, evicted, got)[b] = bl[b]
           /\ \A b \in got : Allocated(bl, r, evicted, got)[b] = PrivateBlock(r)
           /\ \A b \in Blocks : Allocated(bl, r, evicted, got)[b].state = "shared" =>
                 b \notin evicted \cup got /\ bl[b].state = "shared"
<1> DEFINE bl1 == [b \in Blocks |-> IF b \in evicted THEN FreeBlock ELSE bl[b]]
           pi1 == [h \in Hashes |-> IF prefixIndex[h] \in evicted THEN NoBlock ELSE prefixIndex[h]]
           bl2 == [b \in Blocks |-> IF b \in got THEN PrivateBlock(r) ELSE bl1[b]]
<1> USE DEF Allocation
<1>1. evicted \in SUBSET {b \in Blocks : bl[b].state = "shared" /\ bl[b].refs = 0}
  BY DEF EvictableIn
<1>3. /\ fr \cup evicted \in SUBSET Blocks /\ bl1 \in MetaType /\ pi1 \in IndexType
      /\ \A b \in Blocks : bl1[b] = IF b \in evicted THEN FreeBlock ELSE bl[b]
      /\ \A h \in Hashes :
            pi1[h] = IF prefixIndex[h] \in evicted THEN NoBlock ELSE prefixIndex[h]
  BY <1>1, ResetValues DEF MetaType, IndexType
<1> HIDE DEF bl1, pi1
<1>2. Coherent(bl1, fr \cup evicted, pi1, held)
  BY <1>1, <1>3, EvictCoherent
<1>4. Coherent(bl2, (fr \cup evicted) \ got, pi1, held2)
  <2>1. held2 = [held EXCEPT ![r] = held[r] \cup got]
    OBVIOUS
  <2>2. Coherent(bl2, (fr \cup evicted) \ got, pi1, [held EXCEPT ![r] = held[r] \cup got])
    BY <1>2, <1>3, TakeCoherent
  <2> QED
    BY <2>1, <2>2
<1>5. bl2 = Allocated(bl, r, evicted, got) /\ pi1 = Unindexed(evicted)
  BY DEF Allocated, Unindexed, bl1, pi1
<1>6. (fr \cup evicted) \ got = HeapAfter(fr, evicted, got)
  BY DEF HeapAfter
<1>7. ASSUME NEW s \in Requests, NEW b \in held[s] PROVE b \notin evicted \cup got
  <2>1. b \in Blocks /\ bl[b].state # "free" /\ s \in Readers(held, b)
    BY DEF Coherent, InUse, Readers, HoldingType
  <2>2. b \notin evicted
    BY <1>1, <2>1, ReadersFinite DEF Coherent, Counts
  <2>3. b \notin fr
    BY <2>1 DEF Coherent, Heap
  <2> QED
    BY <2>2, <2>3
<1>8. ASSUME NEW b \in Blocks
      PROVE  /\ b \notin evicted \cup got => Allocated(bl, r, evicted, got)[b] = bl[b]
             /\ b \in got => Allocated(bl, r, evicted, got)[b] = PrivateBlock(r)
             /\ Allocated(bl, r, evicted, got)[b].state = "shared" =>
                   b \notin evicted \cup got /\ bl[b].state = "shared"
  BY ResetFields DEF Allocated
<1>9. \A b \in got : Allocated(bl, r, evicted, got)[b] = PrivateBlock(r)
  BY <1>3, <1>8
<1> QED
  BY <1>4, <1>5, <1>6, <1>7, <1>8, <1>9

\* The blocks in a table which another sequence is appended to.
LEMMA AppendIds ==
    ASSUME NEW s, NEW count, NEW new,
           s \in Seq(Blocks), count \in Int, new \in [1 .. count -> Blocks]
    PROVE  /\ Len(s \o new) = Len(s) + Len(new) /\ Len(s) \in Nat
           /\ Len(new) = IF count > 0 THEN count ELSE 0
           /\ \A i \in 1 .. Len(s) : (s \o new)[i] = s[i] /\ i \in 1 .. Len(s \o new)
           /\ \A i \in 1 .. count :
                 (s \o new)[Len(s) + i] = new[i] /\ Len(s) + i \in 1 .. Len(s \o new)
           /\ \A i \in 1 .. Len(s \o new) :
                 \/ i \in 1 .. Len(s)
                 \/ i > Len(s) /\ (s \o new)[i] = new[i - Len(s)] /\ i - Len(s) \in 1 .. count
<1> DEFINE n == IF count > 0 THEN count ELSE 0
<1>1. n \in Nat /\ 1 .. count = 1 .. n
  OBVIOUS
<1>2. new \in Seq(Blocks) /\ Len(new) = n
  BY <1>1
<1>3. Len(s) \in Nat /\ Len(s \o new) = Len(s) + n
  BY <1>1, <1>2
<1>4. \A i \in 1 .. Len(s) : (s \o new)[i] = s[i] /\ i \in 1 .. Len(s \o new)
  BY <1>1, <1>2, <1>3
<1>5. \A i \in 1 .. n : (s \o new)[Len(s) + i] = new[i] /\ Len(s) + i \in 1 .. Len(s \o new)
  BY <1>1, <1>2, <1>3
<1>6. ASSUME NEW i \in 1 .. Len(s \o new)
      PROVE  \/ i \in 1 .. Len(s)
             \/ i > Len(s) /\ (s \o new)[i] = new[i - Len(s)] /\ i - Len(s) \in 1 .. n
  BY <1>1, <1>2, <1>3
<1> QED
  BY <1>1, <1>2, <1>3, <1>4, <1>5, <1>6

\* The ids which Allocates pops are blocks of the heap, each once.
LEMMA AllocatesDistinct ==
    ASSUME NEW bl, NEW fr, NEW count, NEW evicted, NEW new,
           fr \in SUBSET Blocks, count \in Int, evicted \in SUBSET Blocks,
           new \in [1 .. count -> Blocks], Allocates(bl, fr, count, evicted, new)
    PROVE  /\ \A i \in 1 .. count : new[i] \in fr \cup evicted
           /\ \A i, j \in 1 .. count : new[i] = new[j] => i = j
           /\ \A i \in 1 .. count : Position(new, new[i]) = i
<1>1. \A i \in 1 .. count : new[i] \in fr \cup evicted
  BY DEF Allocates
<1>2. \A i, j \in 1 .. count : i < j => new[i] < new[j]
  BY DEF Allocates
<1>3. \A i \in 1 .. count : new[i] \in Int
  BY DEF Blocks
<1>4. \A i, j \in 1 .. count : new[i] = new[j] => i = j
  BY <1>2, <1>3
<1>5. 1 .. Len(new) = 1 .. count
  <2>1. CASE count > 0
    BY <2>1
  <2>2. CASE count <= 0
    <3>1. new \in [1 .. 0 -> Blocks]
      BY <2>2
    <3>2. Len(new) = 0
      BY <3>1
    <3> QED
      BY <2>2, <3>2
  <2> QED
    BY <2>1, <2>2
<1>6. ASSUME NEW i \in 1 .. count PROVE Position(new, new[i]) = i
  <2>1. \E j \in 1 .. Len(new) : new[j] = new[i]
    BY <1>5
  <2>2. Position(new, new[i]) \in 1 .. count /\ new[Position(new, new[i])] = new[i]
    BY <1>5, <2>1, PositionFound
  <2> QED
    BY <1>4, <2>2
<1> QED
  BY <1>1, <1>4, <1>6

\* The new blocks of a write that succeeds.
Written(r, count, data, length) ==
    \E new \in [1 .. count -> Blocks] :
        /\ tables'[r].ids = tables[r].ids \o new /\ tables'[r].length = length
        /\ tables'[r].reserved = tables[r].reserved /\ tables'[r].max = tables[r].max
        /\ \A i \in 1 .. count :
              blocks'[new[i]] = PrivateBlock(r) /\ content'[new[i]] = data[i]

\* A write appends blocks of the request's own that hold the data, or it leaves
\* the tables as they were; what tables held before stays as it is.
LEMMA WriteNewBlocksSharing ==
    ASSUME SharingInv, NEW r, NEW count, NEW length, NEW data, NEW next,
           r \in Requests, count \in Int, length \in Nat,
           WriteNewBlocks(r, count, data, length, next)
    PROVE  /\ ViewsCohere'
           /\ \A s \in Requests : \A b \in BlocksOf(s) :
                 blocks'[b] = blocks[b] /\ content'[b] = content[b]
           /\ \A s \in Requests : s # r => tables'[s] = tables[s]
           /\ engine' = next
           /\ next = MustRelease(r) => tables' = tables
           /\ next # MustRelease(r) => Written(r, count, data, length)
           /\ IdsDistinct(r)'
           /\ ~PrefixEnabled => \A b \in Blocks : blocks'[b].state # "shared"
           /\ SharedContentCanonical'
<1>1. PICK evicted \in SUBSET EvictableIn(blocks), new \in [1 .. count -> Blocks] :
        LET got == {new[i] : i \in 1 .. count}
            ok == next # MustRelease(r)
        IN
        /\ Allocates(blocks, free, count, evicted, new)
        /\ blocks' = Allocated(blocks, r, evicted, IF ok THEN got ELSE {})
        /\ free' = HeapAfter(free, evicted, IF ok THEN got ELSE {})
        /\ prefixIndex' = Unindexed(evicted)
        /\ content' = [b \in Blocks |->
              IF b \in got THEN data[Position(new, b)] ELSE content[b]]
        /\ tables' = IF ok THEN [tables EXCEPT ![r].ids = @ \o new, ![r].length = length]
                           ELSE tables
        /\ engine' = next
  BY DEF WriteNewBlocks
<1> DEFINE got == {new[i] : i \in 1 .. count}
           ok == next # MustRelease(r)
           kept == IF ok THEN got ELSE {}
<1>2. /\ TypeInv /\ Coherent(blocks, free, prefixIndex, Holdings)
      /\ blocks \in MetaType /\ prefixIndex \in IndexType /\ Holdings \in HoldingType
      /\ free \in SUBSET Blocks /\ tables \in [Requests -> TableType]
      /\ tables[r].ids \in Seq(Blocks) /\ Len(tables[r].ids) \in Nat
      /\ \A s \in Requests : Holdings[s] = BlocksOf(s) /\ BlocksOf(s) \in SUBSET Blocks
      /\ content \in [Blocks -> Tags]
  BY SharingTypes DEF SharingInv, ViewsCohere, TypeInv, TypeOK
<1>3. /\ got \in SUBSET (free \cup evicted) /\ evicted \in SUBSET Blocks
      /\ \A i, j \in 1 .. count : new[i] = new[j] => i = j
      /\ \A i \in 1 .. count : Position(new, new[i]) = i
  <2>1. evicted \in SUBSET Blocks
    BY DEF EvictableIn
  <2>2. Allocates(blocks, free, count, evicted, new)
    BY <1>1
  <2>3. /\ \A i \in 1 .. count : new[i] \in free \cup evicted
        /\ \A i, j \in 1 .. count : new[i] = new[j] => i = j
        /\ \A i \in 1 .. count : Position(new, new[i]) = i
    <3> HIDE DEF got, kept, ok
    <3> QED
      BY <1>2, <2>1, <2>2, AllocatesDistinct
  <2> QED
    BY <2>1, <2>3
<1>4. /\ blocks' = Allocated(blocks, r, evicted, kept) /\ free' = HeapAfter(free, evicted, kept)
      /\ prefixIndex' = Unindexed(evicted) /\ engine' = next
      /\ \A b \in Blocks : content'[b] = IF b \in got THEN data[Position(new, b)] ELSE content[b]
  BY <1>1
<1>5. /\ ~ok => tables' = tables
      /\ ok => tables' = [tables EXCEPT ![r].ids = @ \o new, ![r].length = length]
  BY <1>1
<1>6. /\ \A s \in Requests : s # r => tables'[s] = tables[s]
      /\ ok => /\ tables'[r].ids = tables[r].ids \o new /\ tables'[r].length = length
               /\ tables'[r].reserved = tables[r].reserved /\ tables'[r].max = tables[r].max
  BY <1>2, <1>5 DEF TableType
<1>7. \A i \in 1 .. count : new[i] \in got /\ new[i] \in Blocks
  OBVIOUS
<1> HIDE DEF got
<1>8. kept \in SUBSET (free \cup evicted)
  BY <1>3
<1> HIDE DEF kept
<1> DEFINE held2 == [Holdings EXCEPT ![r] = Holdings[r] \cup kept]
<1>19. Allocation(blocks, free, Holdings, r, evicted, kept, held2)
  BY <1>2, <1>8 DEF Allocation
<1> HIDE DEF held2
<1>22. /\ Coherent(Allocated(blocks, r, evicted, kept), HeapAfter(free, evicted, kept),
                   Unindexed(evicted), held2)
       /\ \A s \in Requests : \A b \in Holdings[s] : b \notin evicted \cup kept
       /\ \A b \in Blocks :
             b \notin evicted \cup kept => Allocated(blocks, r, evicted, kept)[b] = blocks[b]
       /\ \A b \in kept : Allocated(blocks, r, evicted, kept)[b] = PrivateBlock(r)
       /\ \A b \in Blocks : Allocated(blocks, r, evicted, kept)[b].state = "shared" =>
             b \notin evicted \cup kept /\ blocks[b].state = "shared"
  BY <1>19, AllocateCoherent
<1>9. /\ Coherent(blocks', free', prefixIndex', held2)
      /\ \A s \in Requests : \A b \in Holdings[s] : b \notin evicted \cup kept
      /\ \A b \in Blocks : b \notin evicted \cup kept => blocks'[b] = blocks[b]
      /\ \A b \in kept : blocks'[b] = PrivateBlock(r)
      /\ \A b \in Blocks : blocks'[b].state = "shared" =>
            b \notin evicted \cup kept /\ blocks[b].state = "shared"
  BY <1>4, <1>22
<1>10. \A s \in Requests : \A b \in BlocksOf(s) : b \in Blocks /\ b \notin evicted \cup free
  BY <1>2, <1>9, BlockInTable
<1>11. \A s \in Requests : \A b \in BlocksOf(s) : blocks'[b] = blocks[b] /\ content'[b] = content[b]
  <2>1. \A s \in Requests : \A b \in BlocksOf(s) : b \notin got /\ b \notin kept
    BY <1>3, <1>8, <1>10
  <2> QED
    BY <1>4, <1>9, <1>10, <2>1
<1> DEFINE s == tables[r].ids
<1>20. /\ s \in Seq(Blocks) /\ BlocksOf(r) = {s[i] : i \in 1 .. Len(s)} /\ s = tables[r].ids
       /\ got = {new[i] : i \in 1 .. count}
  BY <1>2 DEF BlocksOf, got
<1> HIDE DEF s
<1>12. /\ Len(s) \in Nat
       /\ \A i \in 1 .. Len(s) : (s \o new)[i] = s[i] /\ i \in 1 .. Len(s \o new)
       /\ \A i \in 1 .. count :
             (s \o new)[Len(s) + i] = new[i] /\ Len(s) + i \in 1 .. Len(s \o new)
       /\ \A i \in 1 .. Len(s \o new) :
             \/ i \in 1 .. Len(s)
             \/ i > Len(s) /\ (s \o new)[i] = new[i - Len(s)] /\ i - Len(s) \in 1 .. count
  BY <1>20, AppendIds
<1>13. BlocksOf(r)' = BlocksOf(r) \cup kept
  <2>1. CASE ok
    <3>1. /\ BlocksOf(r)' = {(s \o new)[i] : i \in 1 .. Len(s \o new)}
          /\ BlocksOf(r) \cup kept = {s[i] : i \in 1 .. Len(s)} \cup {new[i] : i \in 1 .. count}
      <4>1. tables'[r].ids = s \o new
        BY <1>6, <1>20, <2>1
      <4>2. BlocksOf(r)' = {(s \o new)[i] : i \in 1 .. Len(s \o new)}
        BY <4>1 DEF BlocksOf
      <4>3. kept = {new[i] : i \in 1 .. count}
        BY <1>20, <2>1 DEF kept
      <4> QED
        BY <1>20, <4>2, <4>3
    <3>2. ASSUME NEW i \in 1 .. Len(s \o new)
          PROVE  (s \o new)[i] \in {s[j] : j \in 1 .. Len(s)} \cup {new[j] : j \in 1 .. count}
      BY <1>12
    <3>3. ASSUME NEW i \in 1 .. Len(s)
          PROVE  s[i] \in {(s \o new)[j] : j \in 1 .. Len(s \o new)}
      BY <1>12
    <3>4. ASSUME NEW i \in 1 .. count
          PROVE  new[i] \in {(s \o new)[j] : j \in 1 .. Len(s \o new)}
      BY <1>12
    <3> QED
      BY <3>1, <3>2, <3>3, <3>4
  <2>2. CASE ~ok
    BY <1>5, <2>2 DEF BlocksOf, kept
  <2> QED
    BY <2>1, <2>2
<1>14. ViewsCohere'
  <2>1. \A t \in Requests : t # r => BlocksOf(t)' = BlocksOf(t)
    BY <1>6 DEF BlocksOf
  <2>2. Holdings' = [Holdings EXCEPT ![r] = Holdings[r] \cup kept]
    BY <1>13, <2>1 DEF Holdings
  <2> QED
    BY <1>9, <2>2 DEF ViewsCohere, held2
<1>15. ok => \A i \in 1 .. count : blocks'[new[i]] = PrivateBlock(r) /\ content'[new[i]] = data[i]
  BY <1>3, <1>4, <1>7, <1>9 DEF kept
<1>16. IdsDistinct(r)'
  <2>1. IdsDistinct(r)
    BY DEF SharingInv, TableInOrder
  <2>2. CASE ~ok
    BY <1>5, <2>1, <2>2 DEF IdsDistinct
  <2>3. CASE ok
    <3>1. tables'[r].ids = s \o new
      BY <1>6, <1>20, <2>3
    <3> SUFFICES ASSUME NEW i \in 1 .. Len(s \o new), NEW j \in 1 .. Len(s \o new),
                        (s \o new)[i] = (s \o new)[j]
                 PROVE  i = j
      BY <3>1 DEF IdsDistinct
    <3>2. ASSUME NEW k \in 1 .. Len(s \o new)
          PROVE  \/ k \in 1 .. Len(s) /\ (s \o new)[k] = s[k] /\ s[k] \in BlocksOf(r)
                 \/ /\ k - Len(s) \in 1 .. count /\ (s \o new)[k] = new[k - Len(s)]
                    /\ new[k - Len(s)] \in got
      BY <1>7, <1>12, <1>20
    <3>3. \A b \in BlocksOf(r) : b \notin got
      BY <1>3, <1>10
    <3>4. CASE i \in 1 .. Len(s) /\ (s \o new)[i] = s[i] /\ s[i] \in BlocksOf(r)
      <4>1. j \in 1 .. Len(s) /\ (s \o new)[j] = s[j]
        BY <3>2, <3>3, <3>4
      <4> QED
        BY <1>20, <2>1, <3>4, <4>1 DEF IdsDistinct
    <3>5. CASE i - Len(s) \in 1 .. count /\ (s \o new)[i] = new[i - Len(s)]
               /\ new[i - Len(s)] \in got
      <4>1. j - Len(s) \in 1 .. count /\ (s \o new)[j] = new[j - Len(s)]
        BY <3>2, <3>3, <3>5
      <4>2. i - Len(s) = j - Len(s)
        BY <1>3, <3>5, <4>1
      <4> QED
        BY <1>12, <4>2
    <3> QED
      BY <3>2, <3>4, <3>5
  <2> QED
    BY <2>2, <2>3
<1>17. ~PrefixEnabled => \A b \in Blocks : blocks'[b].state # "shared"
  BY <1>9 DEF SharingInv, NothingShared
<1>18. SharedContentCanonical'
  <2> SUFFICES ASSUME NEW b \in Blocks, blocks'[b].state = "shared"
               PROVE  content'[b] = blocks'[b].hash
    BY DEF SharedContentCanonical
  <2>1. blocks[b].state = "shared" /\ blocks'[b] = blocks[b] /\ b \notin evicted
    BY <1>9
  <2>2. b \notin free
    BY <2>1 DEF SharingInv, ViewsCohere, Coherent, Heap
  <2>3. b \notin got
    BY <1>3, <2>1, <2>2
  <2> QED
    BY <1>4, <2>1, <2>3 DEF SharingInv, SharedContentCanonical
<1>23. next # MustRelease(r) => Written(r, count, data, length)
  BY <1>6, <1>15 DEF Written
<1> QED
  BY <1>4, <1>5, <1>6, <1>11, <1>14, <1>16, <1>17, <1>18, <1>23

\* A write of as many blocks as the new length needs, the last of them r's own
\* when it is not full, keeps the invariant: it fails and changes no table, or
\* ends the prefill, or goes on with the prompt.
LEMMA WriteSharing ==
    ASSUME SharingInv, TypeInv', NEW r, NEW count, NEW length, NEW data, NEW next,
           r \in Requests, r \in Held, count \in Nat, length \in Nat,
           next \in {Idle, MustPromote(r), MustRelease(r)},
           WriteNewBlocks(r, count, data, length, next),
           count = RequiredBlocks(length) - Len(tables[r].ids),
           length % BlockTokens # 0 => count > 0 /\ data[count] = r,
           \A s \in Requests : s # r => phase'[s] = phase[s],
           prefixHit' = prefixHit,
           next = MustRelease(r) => phase'[r] = phase[r],
           next # MustRelease(r) =>
              \/ phase'[r] = "decode" /\ next # MustPromote(r)
              \/ /\ phase'[r] = "prefill" /\ phase[r] = "prefill"
                 /\ \A i \in 1 .. count : data[i] = PromptData(r, Len(tables[r].ids) + i),
           next = MustPromote(r) => PrefixEnabled
    PROVE  SharingInv' /\ OthersUntouched(r)
<1>1. /\ ViewsCohere'
      /\ \A s \in Requests : \A b \in BlocksOf(s) : blocks'[b] = blocks[b] /\ content'[b] = content[b]
      /\ \A s \in Requests : s # r => tables'[s] = tables[s]
      /\ engine' = next
      /\ next = MustRelease(r) => tables' = tables
      /\ next # MustRelease(r) => Written(r, count, data, length)
      /\ IdsDistinct(r)'
      /\ ~PrefixEnabled => \A b \in Blocks : blocks'[b].state # "shared"
      /\ SharedContentCanonical'
  <2>1. count \in Int
    OBVIOUS
  <2> QED
    BY <2>1, WriteNewBlocksSharing
<1>2. \A s \in Requests : s # r => engine' # MustPromote(s)
  BY <1>1, EngineDistinct
<1>3. ASSUME NEW s \in Requests, s # r PROVE TableInOrder(s)' /\ Untouched(s)
  BY <1>1, <1>2, <1>3, UntouchedInOrder
<1>4. TableInOrder(r)'
  <2>1. CASE next = MustRelease(r)
    BY <1>1, <2>1, UntouchedInOrder, EngineDistinct
  <2>2. CASE next # MustRelease(r)
    <3>1. PICK new \in [1 .. count -> Blocks] :
            /\ tables'[r].ids = tables[r].ids \o new /\ tables'[r].length = length
            /\ \A i \in 1 .. count : blocks'[new[i]] = PrivateBlock(r) /\ content'[new[i]] = data[i]
      BY <1>1, <2>2 DEF Written
    <3> DEFINE ids == tables[r].ids
               ids2 == ids \o new
    <3>2. TableInOrder(r) /\ ids \in Seq(Blocks) /\ Len(ids) \in Nat
          /\ \A i \in 1 .. Len(ids) : ids[i] \in BlocksOf(r)
      BY SharingTypes DEF SharingInv
    <3> HIDE DEF ids
    <3>3. /\ Len(ids2) = Len(ids) + Len(new) /\ Len(new) = count
          /\ \A i \in 1 .. Len(ids) : ids2[i] = ids[i] /\ i \in 1 .. Len(ids2)
          /\ \A i \in 1 .. count : ids2[Len(ids) + i] = new[i] /\ Len(ids) + i \in 1 .. Len(ids2)
          /\ \A i \in 1 .. Len(ids2) :
                \/ i \in 1 .. Len(ids)
                \/ i > Len(ids) /\ ids2[i] = new[i - Len(ids)] /\ i - Len(ids) \in 1 .. count
      BY <3>2, AppendIds
    <3>4. tables'[r].ids = ids2 /\ tables'[r].length = length
          /\ count = RequiredBlocks(length) - Len(ids)
      BY <3>1 DEF ids
    <3> HIDE DEF ids2
    <3>5. LengthInOrder(r)'
      <4>1. Len(ids2) = RequiredBlocks(length)
        <5>1. RequiredBlocks(length) \in Nat
          BY RequiredBlocksNext
        <5> QED
          BY <3>2, <3>3, <3>4, <5>1
      <4>2. ASSUME length % BlockTokens # 0
            PROVE  blocks'[ids2[Len(ids2)]].state = "private" /\ content'[ids2[Len(ids2)]] = r
        <5>1. count \in 1 .. count /\ data[count] = r
          BY <4>2
        <5>2. ids2[Len(ids2)] = new[count]
          BY <3>2, <3>3, <5>1
        <5> QED
          BY <3>1, <5>1, <5>2, ResetFields
      <4> QED
        BY <3>4, <4>1, <4>2 DEF LengthInOrder
    <3>6. PromptInOrder(r)'
      <4> SUFFICES ASSUME phase'[r] = "prefill"
                   PROVE  /\ prefixHit'[r] <= Len(Chain[r]) /\ prefixHit'[r] <= Len(ids2)
                          /\ \A i \in 1 .. Len(ids2) :
                                /\ i <= prefixHit'[r] => blocks'[ids2[i]].state = "shared"
                                                         /\ blocks'[ids2[i]].hash = Chain[r][i]
                                /\ i > prefixHit'[r] => blocks'[ids2[i]].state = "private"
                                                         /\ content'[ids2[i]] = PromptData(r, i)
        BY <3>4 DEF PromptInOrder
      <4>1. phase[r] = "prefill"
            /\ \A i \in 1 .. count : data[i] = PromptData(r, Len(ids) + i)
        BY <2>2 DEF ids
      <4>2. /\ prefixHit[r] \in Nat /\ prefixHit[r] <= Len(Chain[r]) /\ prefixHit[r] <= Len(ids)
            /\ \A i \in 1 .. Len(ids) :
                  /\ i <= prefixHit[r] =>
                        blocks[ids[i]].state = "shared" /\ blocks[ids[i]].hash = Chain[r][i]
                  /\ i > prefixHit[r] =>
                        blocks[ids[i]].state = "private" /\ content[ids[i]] = PromptData(r, i)
        BY <3>2, <4>1 DEF TableInOrder, PromptInOrder, ids, SharingInv, TypeInv, TypeOK
      <4>3. prefixHit'[r] <= Len(Chain[r]) /\ prefixHit'[r] <= Len(ids2)
        BY <3>2, <3>3, <4>2
      <4>4. ASSUME NEW i \in 1 .. Len(ids)
            PROVE  /\ i <= prefixHit[r] => blocks'[ids2[i]].state = "shared"
                                           /\ blocks'[ids2[i]].hash = Chain[r][i]
                   /\ i > prefixHit[r] => blocks'[ids2[i]].state = "private"
                                           /\ content'[ids2[i]] = PromptData(r, i)
        <5>1. ids2[i] = ids[i] /\ blocks'[ids[i]] = blocks[ids[i]] /\ content'[ids[i]] = content[ids[i]]
          BY <1>1, <3>2, <3>3
        <5> QED
          BY <4>2, <5>1
      <4>5. ASSUME NEW i \in 1 .. Len(ids2), i \notin 1 .. Len(ids)
            PROVE  /\ i > prefixHit[r]
                   /\ blocks'[ids2[i]].state = "private" /\ content'[ids2[i]] = PromptData(r, i)
        <5>1. i > Len(ids) /\ ids2[i] = new[i - Len(ids)] /\ i - Len(ids) \in 1 .. count
          BY <3>3, <4>5
        <5>2. Len(ids) + (i - Len(ids)) = i
          BY <3>2
        <5>3. content'[ids2[i]] = PromptData(r, i)
          BY <3>1, <4>1, <5>1, <5>2
        <5>4. i > prefixHit[r]
          BY <3>2, <4>2, <5>1
        <5> QED
          BY <3>1, <5>1, <5>3, <5>4, ResetFields
      <4> QED
        BY <4>2, <4>3, <4>4, <4>5
    <3>7. (r \in Held)'
      BY <2>2 DEF Held
    <3>8. engine' = MustPromote(r) => PrefixEnabled /\ phase'[r] = "prefill"
      BY <1>1, <2>2
    <3> QED
      BY <1>1, <3>5, <3>6, <3>7, <3>8 DEF TableInOrder
  <2> QED
    BY <2>1, <2>2
<1>5. ~PrefixEnabled => NothingShared'
  BY <1>1 DEF SharingInv, NothingShared
<1> QED
  BY <1>1, <1>3, <1>4, <1>5 DEF SharingInv, OthersUntouched

\* The incomplete block of a prompt holds data of the request alone.
LEMMA PromptTail ==
    ASSUME NEW r \in Requests, PromptLen[r] % BlockTokens # 0
    PROVE  PromptData(r, RequiredBlocks(PromptLen[r])) = r
<1>1. PromptLen[r] \in Nat /\ Len(Chain[r]) = PromptLen[r] \div BlockTokens
  BY DemandType, PoolAssumption
<1>2. RequiredBlocks(PromptLen[r]) = Len(Chain[r]) + 1
  BY <1>1, RequiredBlocksNext
<1>3. Len(Chain[r]) \in Nat
  BY ChainType
<1> QED
  BY <1>2, <1>3 DEF PromptData

\* Writing a whole cache.
LEMMA WritePrefillSharing ==
    ASSUME SharingInv, NEW r \in Requests, NEW n \in 1 .. Window, WritePrefill(r, n)
    PROVE  SharingInv' /\ OthersUntouched(r)
<1> DEFINE count == RequiredBlocks(n)
           data == [i \in 1 .. count |-> IF phase[r] = "resume" THEN r ELSE PromptData(r, i)]
<1>1. PICK next \in {Idle, MustRelease(r)} :
          /\ WriteNewBlocks(r, count, data, n, next)
          /\ phase' = IF next = Idle THEN [phase EXCEPT ![r] = "decode"] ELSE phase
  BY DEF WritePrefill, Outcomes
<1>2. n \in Nat /\ count \in Nat /\ count > 0
  <2>1. n \in Nat /\ n > 0
    BY PoolAssumption
  <2> QED
    BY <2>1, RequiredBlocksNext
<1>3. /\ TypeInv' /\ r \in Held /\ prefixHit' = prefixHit
      /\ tables[r].ids = << >>
      /\ phase[r] = "resume" \/ n = PromptLen[r]
  BY WritePrefillType DEF SharingInv, WritePrefill, Held
<1>4. Len(tables[r].ids) = 0 /\ count = RequiredBlocks(n) - Len(tables[r].ids)
  BY <1>2, <1>3
<1>5. n % BlockTokens # 0 => count > 0 /\ data[count] = r
  <2>1. count \in 1 .. count
    BY <1>2
  <2>2. data[count] = IF phase[r] = "resume" THEN r ELSE PromptData(r, count)
    BY <2>1
  <2> QED
    BY <1>2, <1>3, <2>2, PromptTail
<1> HIDE DEF count, data
<1>6. /\ \A s \in Requests : s # r => phase'[s] = phase[s]
      /\ next = MustRelease(r) => phase'[r] = phase[r]
      /\ next # MustRelease(r) => phase'[r] = "decode" /\ next # MustPromote(r)
      /\ next # MustPromote(r)
  <2>1. phase \in [Requests -> {"absent", "prefill", "resume", "decode", "preempted"}]
    BY DEF SharingInv, TypeInv, TypeOK
  <2> QED
    BY <1>1, <2>1, EngineDistinct
<1> QED
  BY <1>1, <1>2, <1>3, <1>4, <1>5, <1>6, WriteSharing

\* Writing a chunk of a prompt.
LEMMA WritePrefillSuffixSharing ==
    ASSUME SharingInv, NEW r \in Requests, NEW n \in 0 .. Window, WritePrefillSuffix(r, n)
    PROVE  SharingInv' /\ OthersUntouched(r)
<1> DEFINE length == tables[r].length + n
           count == RequiredBlocks(length) - Len(tables[r].ids)
           data == [i \in 1 .. count |-> PromptData(r, Len(tables[r].ids) + i)]
           last == length = PromptLen[r]
<1>1. /\ phase[r] = "prefill" /\ prefixHit' = prefixHit
      /\ tables[r].length % BlockTokens = 0
      /\ last \/ (n > 0 /\ length % BlockTokens = 0)
      /\ \E next \in Outcomes(r, IF last /\ PrefixEnabled THEN MustPromote(r) ELSE Idle) :
            /\ WriteNewBlocks(r, count, data, length, next)
            /\ phase' = IF last /\ next = Idle THEN [phase EXCEPT ![r] = "decode"] ELSE phase
  BY DEF WritePrefillSuffix
<1> HIDE DEF length, count, data, last
<1>2. PICK next \in {Idle, MustPromote(r), MustRelease(r)} :
         /\ next = MustPromote(r) => PrefixEnabled
         /\ WriteNewBlocks(r, count, data, length, next)
         /\ phase' = IF last /\ next = Idle THEN [phase EXCEPT ![r] = "decode"] ELSE phase
  <2>1. PICK next \in Outcomes(r, IF last /\ PrefixEnabled THEN MustPromote(r) ELSE Idle) :
            /\ WriteNewBlocks(r, count, data, length, next)
            /\ phase' = IF last /\ next = Idle THEN [phase EXCEPT ![r] = "decode"] ELSE phase
    BY <1>1
  <2>2. /\ next \in {Idle, MustPromote(r), MustRelease(r)}
        /\ next = MustPromote(r) => PrefixEnabled
    BY EngineDistinct DEF Outcomes
  <2> QED
    BY <2>1, <2>2
<1> USE DEF length, count, data, last
<1>3. TypeInv' /\ r \in Held
  BY <1>1, WritePrefillSuffixType DEF SharingInv, Held
<1>4. /\ tables[r].length \in Nat /\ length \in Nat /\ tables[r].length <= length
      /\ Len(tables[r].ids) \in Nat /\ Len(tables[r].ids) = RequiredBlocks(tables[r].length)
  <2>1. tables[r].length \in Nat /\ n \in Nat
    BY PoolAssumption DEF SharingInv, TypeInv, TypeOK, TableType
  <2>2. LengthInOrder(r)
    BY DEF SharingInv, TableInOrder
  <2> QED
    BY <2>1, <2>2, SharingTypes DEF SharingInv, LengthInOrder
<1>5. count \in Nat
  <2>1. RequiredBlocks(tables[r].length) <= RequiredBlocks(length) /\ RequiredBlocks(length) \in Nat
    BY <1>4, RequiredBlocksMonotone, RequiredBlocksNext
  <2> QED
    BY <1>4, <2>1
<1>6. length % BlockTokens # 0 => count > 0 /\ data[count] = r
  <2> SUFFICES ASSUME length % BlockTokens # 0 PROVE count > 0 /\ data[count] = r
    OBVIOUS
  <2>1. last
    BY <1>1
  <2>2. RequiredBlocks(length) = (length \div BlockTokens) + 1
    BY <1>4, RequiredBlocksNext
  <2>3. RequiredBlocks(tables[r].length) = tables[r].length \div BlockTokens
    BY <1>1, <1>4, RequiredBlocksNext
  <2>4. tables[r].length \div BlockTokens <= length \div BlockTokens
    BY <1>4, DivMonotone
  <2>5. tables[r].length \div BlockTokens \in Int /\ length \div BlockTokens \in Int
    BY <1>4, PoolAssumption
  <2>6. count > 0
    BY <1>4, <2>2, <2>3, <2>4, <2>5
  <2>7. count \in 1 .. count /\ Len(tables[r].ids) + count = RequiredBlocks(length)
    <3>1. RequiredBlocks(length) \in Nat
      BY <1>4, RequiredBlocksNext
    <3> QED
      BY <1>4, <1>5, <2>6, <3>1
  <2>8. data[count] = PromptData(r, RequiredBlocks(length))
    BY <2>7
  <2> QED
    BY <2>1, <2>6, <2>8, PromptTail
<1>7. \A i \in 1 .. count : data[i] = PromptData(r, Len(tables[r].ids) + i)
  OBVIOUS
<1>8. /\ \A s \in Requests : s # r => phase'[s] = phase[s]
      /\ next = MustRelease(r) => phase'[r] = phase[r]
      /\ \/ phase'[r] = "decode" /\ next # MustPromote(r)
         \/ phase'[r] = "prefill"
  <2>1. phase \in [Requests -> {"absent", "prefill", "resume", "decode", "preempted"}]
    BY DEF SharingInv, TypeInv, TypeOK
  <2> HIDE DEF last
  <2> QED
    BY <1>1, <1>2, <2>1, EngineDistinct
<1>9. count = RequiredBlocks(length) - Len(tables[r].ids)
  OBVIOUS
<1>10. /\ WriteNewBlocks(r, count, data, length, next)
       /\ next = MustPromote(r) => PrefixEnabled
       /\ prefixHit' = prefixHit
       /\ next # MustRelease(r) =>
              \/ phase'[r] = "decode" /\ next # MustPromote(r)
              \/ /\ phase'[r] = "prefill" /\ phase[r] = "prefill"
                 /\ \A i \in 1 .. count : data[i] = PromptData(r, Len(tables[r].ids) + i)
  BY <1>1, <1>2, <1>7, <1>8
<1>11. next \in {Idle, MustPromote(r), MustRelease(r)} /\ length \in Nat
  BY <1>4
<1> HIDE DEF length, count, data, last
<1> QED
  BY <1>3, <1>5, <1>6, <1>8, <1>9, <1>10, <1>11, WriteSharing

\* Appending a token that opens a block.
LEMMA AppendNewBlockSharing ==
    ASSUME SharingInv, NEW r \in Requests, AppendNewBlock(r)
    PROVE  SharingInv' /\ OthersUntouched(r)
<1>1. PICK next \in {Idle, MustRelease(r)} :
         WriteNewBlocks(r, 1, <<r>>, tables[r].length + 1, next)
  BY DEF AppendNewBlock, Outcomes
<1>2. /\ TypeInv' /\ r \in Held /\ prefixHit' = prefixHit /\ phase' = phase
      /\ phase[r] = "decode" /\ tables[r].length % BlockTokens = 0
  BY AppendNewBlockType DEF SharingInv, AppendNewBlock, NeedsBlock, Held
<1>3. tables[r].length \in Nat /\ tables[r].length + 1 \in Nat
  BY DEF SharingInv, TypeInv, TypeOK, TableType
<1>4. 1 = RequiredBlocks(tables[r].length + 1) - Len(tables[r].ids)
  <2>1. LengthInOrder(r)
    BY DEF SharingInv, TableInOrder
  <2>2. RequiredBlocks(tables[r].length) \in Nat
        /\ RequiredBlocks(tables[r].length + 1) = RequiredBlocks(tables[r].length) + 1
    BY <1>2, <1>3, RequiredBlocksNext
  <2> QED
    BY <2>1, <2>2 DEF LengthInOrder
<1>5. 1 > 0 /\ <<r>>[1] = r /\ 1 \in Nat
  OBVIOUS
<1>6. next # MustPromote(r)
  BY EngineDistinct
<1> QED
  BY <1>1, <1>2, <1>3, <1>4, <1>5, <1>6, WriteSharing

-----------------------------------------------------------------------------
(* Rebuilds.                                                                *)

\* The block which another request has keeps its state and hash when r's table
\* is detached.
LEMMA DetachedOthers ==
    ASSUME SharingInv, NEW r \in Requests, NEW s \in Requests, s # r, NEW b \in BlocksOf(s)
    PROVE  /\ b \in Blocks
           /\ Detached(r)[b].state = blocks[b].state /\ Detached(r)[b].hash = blocks[b].hash
<1>1. b \in Blocks /\ blocks[b].state \in {"private", "shared"}
  BY BlockInTable
<1>2. blocks[b].state = "private" => b \notin BlocksOf(r)
  BY BlockInTable
<1> QED
  BY <1>1, <1>2, DetachedCoherent

\* r's table is n tokens in as many new blocks of r's own as they need.
Rebuilt(r, n, reserved) ==
    /\ tables'[r].reserved = reserved /\ tables'[r].max = tables[r].max /\ phase' = phase
    /\ Len(tables'[r].ids) = RequiredBlocks(n)
    /\ \A i \in 1 .. Len(tables'[r].ids) :
          blocks'[tables'[r].ids[i]] = PrivateBlock(r) /\ content'[tables'[r].ids[i]] = r

\* A rebuilt table: a window in blocks of the request's own, each once.
LEMMA RebuiltInOrder ==
    ASSUME NEW r \in Requests, NEW n \in Nat, NEW new,
           tables'[r].ids = new, tables'[r].length = n, Len(new) = RequiredBlocks(n), n > 0,
           \A i, j \in 1 .. Len(new) : new[i] = new[j] => i = j,
           \A i \in 1 .. Len(new) : blocks'[new[i]] = PrivateBlock(r) /\ content'[new[i]] = r,
           phase'[r] = "decode", engine' # MustPromote(r)
    PROVE  TableInOrder(r)'
<1>1. Len(new) \in 1 .. Len(new)
  <2>1. RequiredBlocks(n) \in Nat \ {0}
    BY RequiredBlocksNext
  <2> QED
    BY <2>1
<1>2. LengthInOrder(r)'
  BY <1>1, ResetFields DEF LengthInOrder
<1>3. IdsDistinct(r)'
  BY DEF IdsDistinct
<1>4. PromptInOrder(r)' /\ (r \in Held)'
  BY DEF PromptInOrder, Held
<1> QED
  BY <1>2, <1>3, <1>4 DEF TableInOrder

\* The rebuild with a prefix cache.
LEMMA RebuildDetachedSharing ==
    ASSUME SharingInv, NEW r \in Requests, NEW n \in RebuildLengths, RebuildDetached(r, n)
    PROVE  /\ SharingInv' /\ OthersUntouched(r)
           /\ Untouched(r) \/ Rebuilt(r, n, CurrentTotal(r))
<1> DEFINE count == RequiredBlocks(n)
           detached == Detached(r)
           heap == free \cup PrivateOf(r)
<1>1. TypeInv /\ TypeInv'
  BY RebuildDetachedType DEF SharingInv
<1>2. PrefixEnabled /\ phase[r] = "decode" /\ phase' = phase /\ prefixHit' = prefixHit
  BY DEF RebuildDetached
<1>3. \/ engine' = MustRelease(r) /\ UNCHANGED <<blocks, free, tables, prefixIndex, content>>
      \/ \E evicted \in SUBSET EvictableIn(detached), new \in [1 .. count -> Blocks] :
            LET got == {new[i] : i \in 1 .. count} IN
            /\ Allocates(detached, heap, count, evicted, new)
            /\ blocks' = Allocated(detached, r, evicted, got)
            /\ free' = HeapAfter(heap, evicted, got)
            /\ prefixIndex' = Unindexed(evicted)
            /\ content' = [b \in Blocks |-> IF b \in got THEN r ELSE content[b]]
            /\ tables' = [tables EXCEPT
                  ![r].ids = new, ![r].length = n, ![r].reserved = CurrentTotal(r)]
            /\ engine' \in {Idle, MustRelease(r)}
  BY DEF RebuildDetached
<1>4. CASE engine' = MustRelease(r) /\ UNCHANGED <<blocks, free, tables, prefixIndex, content>>
  <2>1. \A s \in Requests : TableInOrder(s)' /\ Untouched(s)
    BY <1>2, <1>4, UntouchedInOrder, EngineDistinct
  <2> QED
    BY <1>1, <1>2, <1>4, <2>1, SameBlocks DEF OthersUntouched
<1>5. CASE \E evicted \in SUBSET EvictableIn(detached), new \in [1 .. count -> Blocks] :
            LET got == {new[i] : i \in 1 .. count} IN
            /\ Allocates(detached, heap, count, evicted, new)
            /\ blocks' = Allocated(detached, r, evicted, got)
            /\ free' = HeapAfter(heap, evicted, got)
            /\ prefixIndex' = Unindexed(evicted)
            /\ content' = [b \in Blocks |-> IF b \in got THEN r ELSE content[b]]
            /\ tables' = [tables EXCEPT
                  ![r].ids = new, ![r].length = n, ![r].reserved = CurrentTotal(r)]
            /\ engine' \in {Idle, MustRelease(r)}
  <2>1. PICK evicted \in SUBSET EvictableIn(detached), new \in [1 .. count -> Blocks] :
            LET got == {new[i] : i \in 1 .. count} IN
            /\ Allocates(detached, heap, count, evicted, new)
            /\ blocks' = Allocated(detached, r, evicted, got)
            /\ free' = HeapAfter(heap, evicted, got)
            /\ prefixIndex' = Unindexed(evicted)
            /\ content' = [b \in Blocks |-> IF b \in got THEN r ELSE content[b]]
            /\ tables' = [tables EXCEPT
                  ![r].ids = new, ![r].length = n, ![r].reserved = CurrentTotal(r)]
            /\ engine' \in {Idle, MustRelease(r)}
    BY <1>5
  <2> DEFINE got == {new[i] : i \in 1 .. count}
             held == [Holdings EXCEPT ![r] = {}]
             held2 == [held EXCEPT ![r] = held[r] \cup got]
  <2>2. /\ n \in Nat /\ n > 0 /\ count \in Nat
        /\ tables \in [Requests -> TableType] /\ content \in [Blocks -> Tags]
        /\ prefixIndex \in IndexType /\ Holdings \in HoldingType
    <3>1. n \in Nat /\ n > 0
      BY PoolAssumption
    <3> QED
      BY <1>1, <3>1, RequiredBlocksNext, SharingTypes DEF TypeInv, TypeOK
  <2>3. /\ detached \in MetaType /\ heap \in SUBSET Blocks /\ held \in HoldingType
        /\ Coherent(detached, heap, prefixIndex, held)
    BY DetachedCoherent
  <2>4. /\ \A i \in 1 .. count : new[i] \in heap \cup evicted /\ new[i] \in got
        /\ \A i, j \in 1 .. count : new[i] = new[j] => i = j
    <3>1. evicted \in SUBSET Blocks /\ count \in Int /\ heap \in SUBSET Blocks
      BY <2>2, <2>3 DEF EvictableIn
    <3>2. Allocates(detached, heap, count, evicted, new) /\ \A i \in 1 .. count : new[i] \in got
      BY <2>1
    <3> HIDE DEF detached, heap, count, got
    <3> QED
      BY <3>1, <3>2, AllocatesDistinct
  <2>5. got \in SUBSET (heap \cup evicted)
    BY <2>4
  <2>6. Len(new) = count
    BY <2>2
  <2>7. /\ blocks' = Allocated(detached, r, evicted, got) /\ free' = HeapAfter(heap, evicted, got)
        /\ prefixIndex' = Unindexed(evicted)
        /\ \A b \in Blocks : content'[b] = IF b \in got THEN r ELSE content[b]
        /\ engine' \in {Idle, MustRelease(r)}
    BY <2>1
  <2>8. /\ tables'[r].ids = new /\ tables'[r].length = n
        /\ tables'[r].reserved = CurrentTotal(r) /\ tables'[r].max = tables[r].max
        /\ \A s \in Requests : s # r => tables'[s] = tables[s]
    BY <2>1, <2>2 DEF TableType
  <2>9. \A i \in 1 .. count : new[i] \in Blocks
    OBVIOUS
  <2>10. \A b \in got : b \in Blocks
    OBVIOUS
  <2>20. BlocksOf(r)' = got
    BY <2>6, <2>8 DEF BlocksOf
  <2>21. \A s \in Requests : held2[s] = IF s = r THEN got ELSE BlocksOf(s)
    BY <2>2 DEF HoldingType, Holdings
  <2>11. Allocation(detached, heap, held, r, evicted, got, held2)
    BY <2>2, <2>3, <2>5 DEF Allocation
  <2> HIDE DEF held, got, detached, heap, count
  <2>12. held2 = Holdings'
    <3>1. BlocksOf(r)' = got /\ \A s \in Requests : s # r => BlocksOf(s)' = BlocksOf(s)
      BY <2>8, <2>20 DEF BlocksOf
    <3>2. held2 = [s \in Requests |-> IF s = r THEN got ELSE BlocksOf(s)]
      BY <2>3, <2>21 DEF HoldingType
    <3> QED
      BY <3>1, <3>2 DEF Holdings
  <2> HIDE DEF held2
  <2>13. /\ Coherent(blocks', free', prefixIndex', held2)
         /\ \A s \in Requests : \A b \in held[s] : b \notin evicted \cup got
         /\ \A b \in Blocks : b \notin evicted \cup got => blocks'[b] = detached[b]
         /\ \A b \in got : blocks'[b] = PrivateBlock(r)
         /\ \A b \in Blocks : blocks'[b].state = "shared" =>
               b \notin evicted \cup got /\ detached[b].state = "shared"
    BY <2>7, <2>11, AllocateCoherent
  <2>14. ViewsCohere'
    BY <2>12, <2>13 DEF ViewsCohere
  <2>15. \A s \in Requests : engine' # MustPromote(s)
    BY <2>7, EngineDistinct
  <2>16. TableInOrder(r)' /\ Rebuilt(r, n, CurrentTotal(r))
    <3>1. \A i \in 1 .. Len(new) : blocks'[new[i]] = PrivateBlock(r) /\ content'[new[i]] = r
      BY <2>4, <2>6, <2>7, <2>9, <2>13
    <3>2. Len(new) = RequiredBlocks(n)
      BY <2>6 DEF count
    <3>3. TableInOrder(r)'
      BY <1>2, <2>2, <2>4, <2>6, <2>8, <2>15, <3>1, <3>2, RebuiltInOrder
    <3>4. Rebuilt(r, n, CurrentTotal(r))
      BY <1>2, <2>8, <3>1, <3>2 DEF Rebuilt
    <3> QED
      BY <3>3, <3>4
  <2>17. ASSUME NEW s \in Requests, s # r PROVE TableInOrder(s)' /\ Untouched(s)
    <3>1. \A b \in BlocksOf(s) : b \in held[s]
      BY <2>17 DEF held, Holdings
    <3>2. ASSUME NEW b \in BlocksOf(s)
          PROVE  /\ blocks'[b].state = blocks[b].state /\ blocks'[b].hash = blocks[b].hash
                 /\ content'[b] = content[b]
      <4>1. b \in Blocks /\ detached[b].state = blocks[b].state /\ detached[b].hash = blocks[b].hash
        BY <2>17, DetachedOthers DEF detached
      <4>2. b \notin evicted \cup got
        BY <2>13, <3>1
      <4> QED
        BY <2>7, <2>13, <4>1, <4>2
    <3> QED
      BY <1>2, <2>8, <2>15, <2>17, <3>2, UntouchedInOrder
  <2>18. SharedContentCanonical'
    <3> SUFFICES ASSUME NEW b \in Blocks, blocks'[b].state = "shared"
                 PROVE  content'[b] = blocks'[b].hash
      BY DEF SharedContentCanonical
    <3>1. b \notin evicted \cup got /\ detached[b].state = "shared" /\ blocks'[b] = detached[b]
      BY <2>13
    <3>2. blocks[b].state = "shared" /\ detached[b].hash = blocks[b].hash
      BY <3>1, DetachedCoherent DEF detached
    <3> QED
      BY <2>7, <3>1, <3>2 DEF SharingInv, SharedContentCanonical
  <2> QED
    BY <1>1, <1>2, <2>14, <2>16, <2>17, <2>18 DEF SharingInv, OthersUntouched
<1> QED
  BY <1>3, <1>4, <1>5

\* Without a prefix cache a table has blocks of its own only.
LEMMA AllPrivate ==
    ASSUME SharingInv, NEW r \in Requests, ~PrefixEnabled
    PROVE  /\ BlocksOf(r) \in SUBSET Blocks
           /\ \A b \in BlocksOf(r) : blocks[b].state = "private"
           /\ PrivateOf(r) = BlocksOf(r)
           /\ \A b \in Blocks :
                 Detached(r)[b] = IF b \in BlocksOf(r) THEN FreeBlock ELSE blocks[b]
<1>1. BlocksOf(r) \in SUBSET Blocks
  BY SharingTypes DEF SharingInv
<1>2. \A b \in BlocksOf(r) : blocks[b].state = "private"
  <2>1. \A b \in Blocks : blocks[b].state # "shared"
    BY DEF SharingInv, NothingShared
  <2> QED
    BY <1>1, <2>1, BlockInTable
<1>3. PrivateOf(r) = BlocksOf(r)
  BY <1>2 DEF PrivateOf
<1>4. SharedOf(r) = {}
  BY <1>2 DEF SharedOf
<1>5. \A b \in Blocks : Detached(r)[b] = IF b \in BlocksOf(r) THEN FreeBlock ELSE blocks[b]
  BY <1>3, <1>4 DEF Detached
<1> QED
  BY <1>1, <1>2, <1>3, <1>5

\* The candidate table of a rebuild in place: old blocks, then new ones, each
\* once.
LEMMA CandidateDistinct ==
    ASSUME NEW ids, NEW new, NEW count, NEW extra, NEW own,
           ids \in Seq(Blocks), extra \in Nat, new \in [1 .. extra -> Blocks],
           count \in Nat, count <= Len(ids) + extra,
           \A i, j \in 1 .. Len(ids) : ids[i] = ids[j] => i = j,
           \A i, j \in 1 .. extra : new[i] = new[j] => i = j,
           \A i \in 1 .. Len(ids) : ids[i] \in own,
           \A i \in 1 .. extra : new[i] \notin own
    PROVE  /\ SubSeq(ids \o new, 1, count) \in Seq(Blocks)
           /\ Len(SubSeq(ids \o new, 1, count)) = count
           /\ \A i, j \in 1 .. count :
                 SubSeq(ids \o new, 1, count)[i] = SubSeq(ids \o new, 1, count)[j] => i = j
           /\ \A i \in 1 .. count :
                 SubSeq(ids \o new, 1, count)[i] \in own \/
                 \E j \in 1 .. extra : SubSeq(ids \o new, 1, count)[i] = new[j]
<1> DEFINE full == ids \o new
           candidate == SubSeq(full, 1, count)
<1>1. new \in Seq(Blocks) /\ Len(new) = extra
  OBVIOUS
<1>2. full \in Seq(Blocks) /\ Len(full) = Len(ids) + extra /\ Len(ids) \in Nat
  BY <1>1
<1>3. \A i \in 1 .. Len(full) :
         \/ i \in 1 .. Len(ids) /\ full[i] = ids[i]
         \/ i > Len(ids) /\ i - Len(ids) \in 1 .. extra /\ full[i] = new[i - Len(ids)]
  BY <1>1, AppendIds
<1> HIDE DEF full
<1>4. candidate \in Seq(Blocks) /\ Len(candidate) = count
      /\ \A i \in 1 .. count : candidate[i] = full[i] /\ i \in 1 .. Len(full)
  BY <1>2
<1> HIDE DEF candidate
<1>5. \A i, j \in 1 .. Len(full) : full[i] = full[j] => i = j
  <2> SUFFICES ASSUME NEW i \in 1 .. Len(full), NEW j \in 1 .. Len(full), full[i] = full[j]
               PROVE  i = j
    OBVIOUS
  <2>1. CASE i \in 1 .. Len(ids) /\ j \in 1 .. Len(ids)
    BY <1>2, <1>3, <2>1, SMTT(30)
  <2>2. CASE i > Len(ids) /\ j > Len(ids)
    <3>1. i - Len(ids) = j - Len(ids)
      BY <1>2, <1>3, <2>2
    <3> QED
      BY <1>2, <3>1
  <2>3. CASE i \in 1 .. Len(ids) /\ j > Len(ids)
    <3>1. full[i] = ids[i] /\ full[i] \in own
      BY <1>2, <1>3, <2>3
    <3>2. j - Len(ids) \in 1 .. extra /\ full[j] = new[j - Len(ids)]
      BY <1>2, <1>3, <2>3
    <3>3. full[j] \notin own
      BY <3>2
    <3> QED
      BY <3>1, <3>3
  <2>4. CASE i > Len(ids) /\ j \in 1 .. Len(ids)
    BY <1>2, <1>3, <2>4, SMTT(30)
  <2> QED
    BY <1>2, <2>1, <2>2, <2>3, <2>4
<1>6. \A i, j \in 1 .. count : candidate[i] = candidate[j] => i = j
  BY <1>4, <1>5
<1>7. \A i \in 1 .. count : candidate[i] \in own \/ \E j \in 1 .. extra : candidate[i] = new[j]
  BY <1>3, <1>4
<1> QED
  BY <1>4, <1>6, <1>7 DEF candidate, full

\* The rebuild without a prefix cache.
LEMMA RebuildInPlaceSharing ==
    ASSUME SharingInv, NEW r \in Requests, NEW n \in RebuildLengths, RebuildInPlace(r, n)
    PROVE  /\ SharingInv' /\ OthersUntouched(r)
           /\ Untouched(r) \/ Rebuilt(r, n, tables[r].reserved)
<1> DEFINE ids == tables[r].ids
           count == RequiredBlocks(n)
           extra == IF count > Len(ids) THEN count - Len(ids) ELSE 0
<1>1. TypeInv /\ TypeInv'
  BY RebuildInPlaceType DEF SharingInv
<1>2. /\ ~PrefixEnabled /\ phase[r] = "decode"
      /\ UNCHANGED <<prefixIndex, phase, prefixHit>>
  BY DEF RebuildInPlace
<1>3. PICK new \in [1 .. extra -> Blocks] :
         LET candidate == SubSeq(ids \o new, 1, count)
             kept == {candidate[i] : i \in 1 .. count}
             dropped == BlocksOf(r) \ kept
         IN
         /\ Allocates(blocks, free, extra, {}, new)
         /\ \/ /\ blocks' = [b \in Blocks |-> IF b \in kept THEN PrivateBlock(r)
                             ELSE IF b \in dropped THEN FreeBlock ELSE blocks[b]]
               /\ free' = (free \ kept) \cup dropped
               /\ content' = [b \in Blocks |-> IF b \in kept THEN r ELSE content[b]]
               /\ tables' = [tables EXCEPT ![r].ids = candidate, ![r].length = n]
               /\ engine' = Idle
            \/ /\ content' = [b \in Blocks |->
                     IF b \in kept \ BlocksOf(r) THEN r ELSE content[b]]
               /\ engine' = MustRelease(r)
               /\ UNCHANGED <<blocks, free, tables>>
  BY DEF RebuildInPlace
<1> DEFINE candidate == SubSeq(ids \o new, 1, count)
           kept == {candidate[i] : i \in 1 .. count}
           dropped == BlocksOf(r) \ kept
<1>4. /\ n \in Nat /\ n > 0 /\ count \in Nat /\ extra \in Nat
      /\ ids \in Seq(Blocks) /\ Len(ids) \in Nat /\ count <= Len(ids) + extra
      /\ tables \in [Requests -> TableType] /\ free \in SUBSET Blocks
      /\ content \in [Blocks -> Tags] /\ prefixIndex \in IndexType /\ blocks \in MetaType
  <2>1. n \in Nat /\ n > 0
    BY PoolAssumption
  <2>2. count \in Nat /\ Len(ids) \in Nat /\ ids \in Seq(Blocks)
    BY <1>1, <2>1, RequiredBlocksNext, SharingTypes
  <2> QED
    BY <1>1, <2>1, <2>2, SharingTypes DEF TypeInv, TypeOK
<1>5. /\ BlocksOf(r) \in SUBSET Blocks
      /\ \A b \in Blocks :
            Detached(r)[b] = IF b \in BlocksOf(r) THEN FreeBlock ELSE blocks[b]
      /\ Coherent(Detached(r), free \cup BlocksOf(r), prefixIndex, [Holdings EXCEPT ![r] = {}])
      /\ Detached(r) \in MetaType
      /\ [Holdings EXCEPT ![r] = {}] \in HoldingType
      /\ free \cup BlocksOf(r) \in SUBSET Blocks
  BY <1>2, AllPrivate, DetachedCoherent
<1>6. /\ \A i \in 1 .. extra : new[i] \in free /\ new[i] \notin BlocksOf(r)
      /\ \A i, j \in 1 .. extra : new[i] = new[j] => i = j
  <2>1. Allocates(blocks, free, extra, {}, new) /\ extra \in Int /\ {} \in SUBSET Blocks
    BY <1>3, <1>4, SMTT(30)
  <2> HIDE DEF extra
  <2>2. /\ \A i \in 1 .. extra : new[i] \in free
        /\ \A i, j \in 1 .. extra : new[i] = new[j] => i = j
    BY <1>4, <2>1, AllocatesDistinct, SMTT(30)
  <2>3. \A b \in BlocksOf(r) : b \notin free
    BY BlockInTable
  <2> QED
    BY <2>2, <2>3
<1>7. /\ \A i, j \in 1 .. Len(ids) : ids[i] = ids[j] => i = j
      /\ \A i \in 1 .. Len(ids) : ids[i] \in BlocksOf(r)
  BY DEF SharingInv, TableInOrder, IdsDistinct, BlocksOf
<1>8. /\ candidate \in Seq(Blocks) /\ Len(candidate) = count
      /\ \A i, j \in 1 .. count : candidate[i] = candidate[j] => i = j
      /\ \A i \in 1 .. count : candidate[i] \in BlocksOf(r) \cup free
  <2> HIDE DEF ids, count, extra
  <2>1. /\ candidate \in Seq(Blocks) /\ Len(candidate) = count
        /\ \A i, j \in 1 .. count : candidate[i] = candidate[j] => i = j
        /\ \A i \in 1 .. count :
              candidate[i] \in BlocksOf(r) \/ \E j \in 1 .. extra : candidate[i] = new[j]
    BY <1>4, <1>6, <1>7, CandidateDistinct
  <2> QED
    BY <1>6, <2>1
<1>9. \/ /\ blocks' = [b \in Blocks |-> IF b \in kept THEN PrivateBlock(r)
                         ELSE IF b \in dropped THEN FreeBlock ELSE blocks[b]]
         /\ free' = (free \ kept) \cup dropped
         /\ content' = [b \in Blocks |-> IF b \in kept THEN r ELSE content[b]]
         /\ tables' = [tables EXCEPT ![r].ids = candidate, ![r].length = n]
         /\ engine' = Idle
      \/ /\ content' = [b \in Blocks |-> IF b \in kept \ BlocksOf(r) THEN r ELSE content[b]]
         /\ engine' = MustRelease(r)
         /\ UNCHANGED <<blocks, free, tables>>
  BY <1>3
<1>10. /\ kept \in SUBSET (free \cup BlocksOf(r))
       /\ \A i \in 1 .. Len(candidate) : candidate[i] \in kept /\ candidate[i] \in Blocks
  <2>1. \A i \in 1 .. count : candidate[i] \in kept /\ candidate[i] \in BlocksOf(r) \cup free
    BY <1>8
  <2>2. \A b \in kept : b \in BlocksOf(r) \cup free
    BY <1>8
  <2>3. \A b \in BlocksOf(r) \cup free : b \in Blocks
    BY <1>4, <1>5
  <2> HIDE DEF kept, candidate, count
  <2> QED BY <1>8, <2>1, <2>2, <2>3
<1>11. {candidate[i] : i \in 1 .. Len(candidate)} = kept
  BY <1>8
<1>12. count = RequiredBlocks(n)
  OBVIOUS
<1> HIDE DEF ids, count, extra, candidate, kept
<1>13. CASE /\ blocks' = [b \in Blocks |-> IF b \in kept THEN PrivateBlock(r)
                           ELSE IF b \in dropped THEN FreeBlock ELSE blocks[b]]
            /\ free' = (free \ kept) \cup dropped
            /\ content' = [b \in Blocks |-> IF b \in kept THEN r ELSE content[b]]
            /\ tables' = [tables EXCEPT ![r].ids = candidate, ![r].length = n]
            /\ engine' = Idle
  <2> DEFINE held == [Holdings EXCEPT ![r] = {}]
             held2 == [held EXCEPT ![r] = held[r] \cup kept]
             bl2 == [b \in Blocks |-> IF b \in kept THEN PrivateBlock(r) ELSE Detached(r)[b]]
  <2>1. /\ tables'[r].ids = candidate /\ tables'[r].length = n
        /\ tables'[r].reserved = tables[r].reserved /\ tables'[r].max = tables[r].max
        /\ \A s \in Requests : s # r => tables'[s] = tables[s]
    BY <1>4, <1>13 DEF TableType
  <2>2. BlocksOf(r)' = kept /\ \A s \in Requests : s # r => BlocksOf(s)' = BlocksOf(s)
    BY <1>11, <2>1 DEF BlocksOf
  <2>3. Holdings' = held2
    BY <1>5, <2>2 DEF Holdings, HoldingType
  <2>4. blocks' = bl2
    BY <1>5, <1>13
  <2>5. free' = (free \cup BlocksOf(r)) \ kept
    <3>1. \A b \in BlocksOf(r) : b \notin free
      BY BlockInTable
    <3> QED
      BY <1>10, <1>13, <3>1
  <2> HIDE DEF held
  <2>6. Coherent(bl2, (free \cup BlocksOf(r)) \ kept, prefixIndex, held2)
    <3>1. /\ held \in HoldingType
          /\ Coherent(Detached(r), free \cup BlocksOf(r), prefixIndex, held)
      BY <1>5 DEF held
    <3> QED
      BY <1>4, <1>5, <1>10, <3>1, TakeCoherent
  <2>7. ViewsCohere'
    BY <1>2, <2>3, <2>4, <2>5, <2>6 DEF ViewsCohere
  <2>8. TableInOrder(r)' /\ Rebuilt(r, n, tables[r].reserved)
    <3>1. \A i \in 1 .. Len(candidate) :
             blocks'[candidate[i]] = PrivateBlock(r) /\ content'[candidate[i]] = r
      BY <1>10, <1>13
    <3>2. phase'[r] = "decode" /\ engine' # MustPromote(r)
      BY <1>2, <1>13, EngineDistinct
    <3>3. TableInOrder(r)'
      <4>1. n \in Nat /\ n > 0
        BY <1>4
      <4>2. Len(candidate) = RequiredBlocks(n)
        BY <1>8, <1>12
      <4>3. \A i, j \in 1 .. Len(candidate) : candidate[i] = candidate[j] => i = j
        BY <1>8
      <4> QED
        BY <2>1, <3>1, <3>2, <4>1, <4>2, <4>3, RebuiltInOrder
    <3>4. Rebuilt(r, n, tables[r].reserved)
      BY <1>2, <1>8, <1>12, <2>1, <3>1 DEF Rebuilt
    <3> QED
      BY <3>3, <3>4
  <2>9. ASSUME NEW s \in Requests, s # r PROVE TableInOrder(s)' /\ Untouched(s)
    <3>1. ASSUME NEW b \in BlocksOf(s)
          PROVE  blocks'[b] = blocks[b] /\ content'[b] = content[b]
      <4>1. b \in Blocks /\ b \notin free
        BY BlockInTable
      <4>2. b \notin BlocksOf(r)
        BY <1>2, <2>9, AllPrivate, BlockInTable
      <4> QED
        BY <1>10, <1>13, <4>1, <4>2
    <3>2. engine' # MustPromote(s)
      BY <1>13, EngineDistinct
    <3> QED
      BY <1>2, <2>1, <2>9, <3>1, <3>2, UntouchedInOrder
  <2>10. \A b \in Blocks : blocks'[b].state # "shared"
    <3>1. \A b \in Blocks : blocks[b].state # "shared"
      BY <1>2 DEF SharingInv, NothingShared
    <3> QED
      BY <1>13, <3>1, ResetFields
  <2>11. NothingShared' /\ SharedContentCanonical'
    BY <1>2, <2>10 DEF SharingInv, NothingShared, SharedContentCanonical
  <2> QED
    BY <1>1, <2>7, <2>8, <2>9, <2>11 DEF SharingInv, OthersUntouched
<1>14. CASE /\ content' = [b \in Blocks |-> IF b \in kept \ BlocksOf(r) THEN r ELSE content[b]]
            /\ engine' = MustRelease(r)
            /\ UNCHANGED <<blocks, free, tables>>
  <2>1. Holdings' = Holdings
    BY <1>14 DEF Holdings, BlocksOf
  <2>2. ViewsCohere'
    BY <1>2, <1>14, <2>1 DEF SharingInv, ViewsCohere
  <2>3. ASSUME NEW s \in Requests PROVE TableInOrder(s)' /\ Untouched(s)
    <3>1. \A b \in BlocksOf(s) : content'[b] = content[b]
      BY <1>10, <1>14, BlockInTable
    <3>2. engine' # MustPromote(s)
      BY <1>14, EngineDistinct
    <3> QED
      BY <1>2, <1>14, <3>1, <3>2, UntouchedInOrder
  <2>4. NothingShared' /\ SharedContentCanonical'
    BY <1>2, <1>14 DEF SharingInv, NothingShared, SharedContentCanonical
  <2> QED
    BY <1>1, <2>2, <2>3, <2>4 DEF SharingInv, OthersUntouched
<1> QED
  BY <1>9, <1>13, <1>14

-----------------------------------------------------------------------------
(* Promotion.                                                               *)

\* A block of the prompt past the prefix hit is private and holds its hash's
\* data; the canonical block of such a hash is none of the request's.
LEMMA PromotionCandidates ==
    ASSUME SharingInv, NEW r \in Requests, phase[r] = "prefill",
           Len(Chain[r]) <= Len(tables[r].ids),
           NEW i \in prefixHit[r] + 1 .. Len(Chain[r])
    PROVE  /\ i \in 1 .. Len(Chain[r]) /\ i \in 1 .. Len(tables[r].ids) /\ Chain[r][i] \in Hashes
           /\ tables[r].ids[i] \in Blocks /\ tables[r].ids[i] \in BlocksOf(r)
           /\ blocks[tables[r].ids[i]].state = "private" /\ content[tables[r].ids[i]] = Chain[r][i]
           /\ prefixIndex[Chain[r][i]] # NoBlock =>
                 /\ prefixIndex[Chain[r][i]] \in Blocks
                 /\ blocks[prefixIndex[Chain[r][i]]].state = "shared"
                 /\ blocks[prefixIndex[Chain[r][i]]].hash = Chain[r][i]
                 /\ prefixIndex[Chain[r][i]] \notin BlocksOf(r)
<1> DEFINE chain == Chain[r]
           ids == tables[r].ids
           b == prefixIndex[chain[i]]
<1>1. /\ TypeInv /\ prefixHit[r] \in Nat /\ Len(chain) \in Nat /\ Len(ids) \in Nat
      /\ prefixIndex \in IndexType
  BY SharingTypes, ChainType DEF SharingInv, TypeInv, TypeOK
<1>2. i \in 1 .. Len(chain) /\ i \in 1 .. Len(ids) /\ i > prefixHit[r]
  BY <1>1
<1>3. chain[i] \in Hashes
  BY <1>2, ChainType
<1>4. ids[i] \in Blocks /\ ids[i] \in BlocksOf(r)
  BY <1>1, <1>2, SharingTypes
<1>5. PromptInOrder(r)
  BY DEF SharingInv, TableInOrder
<1>6. blocks[ids[i]].state = "private" /\ content[ids[i]] = PromptData(r, i)
  BY <1>2, <1>5 DEF PromptInOrder
<1>7. PromptData(r, i) = chain[i]
  BY <1>1, <1>2 DEF PromptData
<1>8. ASSUME b # NoBlock
      PROVE  b \in Blocks /\ blocks[b].state = "shared" /\ blocks[b].hash = chain[i]
  BY <1>1, <1>3, <1>8 DEF SharingInv, ViewsCohere, Coherent, Index, IndexType
<1>9. ASSUME b # NoBlock, b \in BlocksOf(r) PROVE FALSE
  <2>1. PICK j \in 1 .. Len(ids) : ids[j] = b
    BY <1>9 DEF BlocksOf
  <2>2. j <= prefixHit[r]
    BY <1>1, <1>5, <1>8, <1>9, <2>1 DEF PromptInOrder
  <2>3. blocks[b].hash = chain[j] /\ j \in 1 .. Len(chain)
    BY <1>1, <1>5, <2>1, <2>2 DEF PromptInOrder
  <2>4. chain[i] = chain[j]
    BY <1>8, <1>9, <2>3
  <2>5. i = j
    BY <1>2, <2>3, <2>4, ChainDistinct
  <2> QED
    BY <1>1, <1>2, <2>2, <2>5
<1> QED
  BY <1>2, <1>3, <1>4, <1>6, <1>7, <1>8, <1>9

\* Promotion makes the fresh blocks canonical and exchanges the duplicates.
LEMMA PromoteSharing ==
    ASSUME SharingInv, NEW r \in Requests, Promote(r)
    PROVE  /\ SharingInv' /\ OthersUntouched(r) /\ phase'[r] = "decode"
           /\ Len(tables'[r].ids) = Len(tables[r].ids)
           /\ \A i \in 1 .. Len(tables[r].ids) :
                 content'[tables'[r].ids[i]] = content[tables[r].ids[i]]
           /\ LET computed == prefixHit[r] + 1 .. Len(Chain[r]) IN
              /\ computed \subseteq 1 .. Len(tables[r].ids)
              /\ PrivateOf(r)' = PrivateOf(r) \ {tables[r].ids[i] : i \in computed}
<1> DEFINE chain == Chain[r]
           ids == tables[r].ids
           computed == prefixHit[r] + 1 .. Len(chain)
           fresh == {i \in computed : prefixIndex[chain[i]] = NoBlock}
           dup == computed \ fresh
           canonical == {prefixIndex[chain[i]] : i \in dup}
           promoted == {ids[i] : i \in fresh}
           dropped == {ids[i] : i \in dup}
           slot(b) == CHOOSE i \in fresh : ids[i] = b
           reader(b) == CHOOSE i \in dup : prefixIndex[chain[i]] = b
           newIds == [i \in 1 .. Len(ids) |-> IF i \in dup THEN prefixIndex[chain[i]] ELSE ids[i]]
<1>1. /\ engine = MustPromote(r) /\ engine' = Idle /\ tables[r].length = PromptLen[r]
      /\ UNCHANGED <<content, prefixHit>> /\ phase' = [phase EXCEPT ![r] = "decode"]
  BY DEF Promote
<1>2. /\ blocks' = [b \in Blocks |->
            IF b \in promoted
            THEN [state |-> "shared", owner |-> NoRequest, hash |-> chain[slot(b)],
                  refs |-> 1, lastUsed |-> clock + slot(b)]
            ELSE IF b \in canonical
            THEN [blocks[b] EXCEPT !.refs = @ + 1, !.lastUsed = clock + reader(b)]
            ELSE IF b \in dropped THEN FreeBlock ELSE blocks[b]]
      /\ free' = free \cup dropped
      /\ prefixIndex' = [h \in Hashes |->
            IF \E i \in fresh : chain[i] = h THEN ids[Position(chain, h)] ELSE prefixIndex[h]]
      /\ tables' = [tables EXCEPT ![r].ids = newIds, ![r].reserved = @ - Cardinality(computed)]
  BY DEF Promote
<1>3. TypeInv /\ TypeInv'
  BY PromoteType DEF SharingInv
<1>4. PrefixEnabled /\ phase[r] = "prefill" /\ Len(chain) <= Len(ids)
  BY <1>1, <1>3 DEF SharingInv, TableInOrder, TypeInv, PromotableInTable
<1>5. /\ Len(ids) \in Nat /\ Len(chain) \in Nat /\ clock \in Nat
      /\ tables \in [Requests -> TableType] /\ prefixIndex \in IndexType
      /\ blocks \in MetaType /\ blocks' \in MetaType /\ prefixIndex' \in IndexType
      /\ free \in SUBSET Blocks /\ Holdings \in HoldingType
      /\ Holdings[r] = BlocksOf(r) /\ BlocksOf(r) \in SUBSET Blocks
      /\ phase \in [Requests -> {"absent", "prefill", "resume", "decode", "preempted"}]
  BY <1>3, SharingTypes, ChainType DEF TypeInv, TypeOK, MetaType, IndexType
<1>6. ASSUME NEW i \in computed
      PROVE  /\ i \in 1 .. Len(chain) /\ i \in 1 .. Len(ids) /\ chain[i] \in Hashes
             /\ ids[i] \in Blocks /\ ids[i] \in BlocksOf(r)
             /\ blocks[ids[i]].state = "private" /\ content[ids[i]] = chain[i]
  BY <1>4, PromotionCandidates
<1>7. ASSUME NEW i \in dup
      PROVE  /\ prefixIndex[chain[i]] \in Blocks /\ blocks[prefixIndex[chain[i]]].state = "shared"
             /\ blocks[prefixIndex[chain[i]]].hash = chain[i]
             /\ prefixIndex[chain[i]] \notin BlocksOf(r)
  BY <1>4, PromotionCandidates
<1>8. /\ \A i, j \in 1 .. Len(ids) : ids[i] = ids[j] => i = j
      /\ \A i, j \in 1 .. Len(chain) : chain[i] = chain[j] => i = j
      /\ \A i \in 1 .. Len(ids) : ids[i] \in BlocksOf(r)
      /\ \A b \in BlocksOf(r) : \E i \in 1 .. Len(ids) : ids[i] = b
  BY ChainDistinct DEF SharingInv, TableInOrder, IdsDistinct, BlocksOf
<1>9. /\ fresh \in SUBSET computed /\ dup \in SUBSET computed /\ \A i \in fresh : i \notin dup
      /\ \A i \in fresh : prefixIndex[chain[i]] = NoBlock
  OBVIOUS
<1>10. /\ \A b \in promoted : \E i \in fresh : ids[i] = b
       /\ \A i \in fresh : ids[i] \in promoted
       /\ \A b \in dropped : \E i \in dup : ids[i] = b
       /\ \A i \in dup : ids[i] \in dropped
       /\ \A b \in canonical : \E i \in dup : prefixIndex[chain[i]] = b
       /\ \A i \in dup : prefixIndex[chain[i]] \in canonical
  OBVIOUS
<1>11. ASSUME NEW i \in fresh PROVE slot(ids[i]) = i
  <2>1. \A j \in fresh : ids[j] = ids[i] => j = i
    BY <1>6, <1>8
  <2> QED
    BY <2>1
<1>12. ASSUME NEW i \in fresh PROVE Position(chain, chain[i]) = i
  <2>1. i \in 1 .. Len(chain)
    BY <1>6
  <2>2. Position(chain, chain[i]) \in 1 .. Len(chain) /\ chain[Position(chain, chain[i])] = chain[i]
    BY <2>1, PositionFound
  <2> QED
    BY <1>8, <2>1, <2>2
<1>13. /\ Len(newIds) = Len(ids)
       /\ \A i \in 1 .. Len(ids) :
             /\ i \in dup => newIds[i] = prefixIndex[chain[i]]
             /\ i \notin dup => newIds[i] = ids[i]
  BY <1>5
<1>14. /\ tables'[r].ids = newIds /\ tables'[r].length = PromptLen[r]
       /\ \A s \in Requests : s # r => tables'[s] = tables[s] /\ phase'[s] = phase[s]
       /\ phase'[r] = "decode"
  BY <1>1, <1>2, <1>5 DEF TableType
<1>15. ASSUME NEW i \in 1 .. Len(ids) PROVE i \in computed <=> i > prefixHit[r] /\ i <= Len(chain)
  <2>1. prefixHit[r] \in Nat
    BY <1>3 DEF TypeInv, TypeOK
  <2> QED
    BY <1>5, <2>1
<1>29. {ids[i] : i \in computed} = promoted \cup dropped
  OBVIOUS
<1> HIDE DEF chain, ids, computed, fresh, dup, canonical, promoted, dropped, slot, reader, newIds
<1>16. /\ promoted \in SUBSET {b \in BlocksOf(r) : blocks[b].state = "private"}
       /\ dropped \in SUBSET {b \in BlocksOf(r) : blocks[b].state = "private"}
       /\ promoted \cap dropped = {}
       /\ canonical \in SUBSET {b \in Blocks : blocks[b].state = "shared"}
       /\ canonical \cap BlocksOf(r) = {}
  <2>1. \A b \in promoted : b \in BlocksOf(r) /\ blocks[b].state = "private"
    BY <1>6, <1>9, <1>10
  <2>2. \A b \in dropped : b \in BlocksOf(r) /\ blocks[b].state = "private"
    BY <1>6, <1>9, <1>10
  <2>3. \A b \in promoted : b \notin dropped
    BY <1>6, <1>8, <1>9, <1>10
  <2>4. \A b \in canonical : b \in Blocks /\ blocks[b].state = "shared" /\ b \notin BlocksOf(r)
    BY <1>7, <1>10
  <2> QED
    BY <2>1, <2>2, <2>3, <2>4
<1>17. ASSUME NEW i \in fresh
       PROVE  /\ blocks'[ids[i]].state = "shared" /\ blocks'[ids[i]].hash = chain[i]
              /\ blocks'[ids[i]].refs = 1
  <2>1. ids[i] \in Blocks /\ ids[i] \in promoted
    BY <1>6, <1>9, <1>10
  <2> QED
    BY <1>2, <1>11, <2>1
<1>18. ASSUME NEW b \in Blocks
       PROVE  /\ b \in canonical => /\ blocks'[b].state = "shared" /\ blocks'[b].hash = blocks[b].hash
                                     /\ blocks'[b].refs = blocks[b].refs + 1
              /\ b \in dropped => blocks'[b] = FreeBlock
              /\ b \notin promoted \cup canonical \cup dropped => blocks'[b] = blocks[b]
  <2>1. blocks[b] \in BlockType
    BY <1>5 DEF MetaType
  <2>2. b \in canonical => b \notin promoted /\ blocks[b].state = "shared"
    BY <1>16
  <2>3. b \in dropped => b \notin promoted /\ b \notin canonical
    BY <1>16
  <2> QED
    BY <1>2, <2>1, <2>2, <2>3 DEF BlockType
<1>19. \A b \in promoted : /\ blocks'[b].state = "shared" /\ blocks'[b].refs = 1
                            /\ blocks'[b].hash \in Hashes /\ prefixIndex[blocks'[b].hash] = NoBlock
  <2>1. \A i \in fresh : chain[i] \in Hashes /\ prefixIndex[chain[i]] = NoBlock
    BY <1>6, <1>9
  <2> QED
    BY <1>10, <1>17, <2>1
<1>20. /\ \A b \in promoted : prefixIndex'[blocks'[b].hash] = b
       /\ \A h \in Hashes : (\A b \in promoted : blocks'[b].hash # h) => prefixIndex'[h] = prefixIndex[h]
  <2>1. ASSUME NEW i \in fresh PROVE prefixIndex'[chain[i]] = ids[i]
    <3>1. chain[i] \in Hashes
      BY <1>6, <1>9
    <3> QED
      BY <1>2, <1>12, <3>1
  <2>2. ASSUME NEW h \in Hashes, \A b \in promoted : blocks'[b].hash # h
        PROVE  prefixIndex'[h] = prefixIndex[h]
    <3>1. \A i \in fresh : chain[i] # h
      BY <1>10, <1>17, <2>2
    <3> QED
      BY <1>2, <3>1
  <2> QED
    BY <1>10, <1>17, <2>1, <2>2
<1>21. BlocksOf(r)' = (BlocksOf(r) \ dropped) \cup canonical
  <2>1. BlocksOf(r)' = {newIds[i] : i \in 1 .. Len(ids)}
    BY <1>13, <1>14 DEF BlocksOf
  <2>2. ASSUME NEW i \in 1 .. Len(ids) PROVE newIds[i] \in (BlocksOf(r) \ dropped) \cup canonical
    <3>1. CASE i \in dup
      BY <1>10, <1>13, <3>1
    <3>2. CASE i \notin dup
      <4>1. ids[i] \in BlocksOf(r) /\ newIds[i] = ids[i]
        BY <1>8, <1>13, <3>2
      <4>2. ids[i] \notin dropped
        BY <1>6, <1>8, <1>9, <1>10, <3>2
      <4> QED
        BY <4>1, <4>2
    <3> QED
      BY <3>1, <3>2
  <2>3. ASSUME NEW b \in (BlocksOf(r) \ dropped) \cup canonical
        PROVE  \E i \in 1 .. Len(ids) : newIds[i] = b
    <3>1. CASE b \in canonical
      BY <1>6, <1>9, <1>10, <1>13, <3>1
    <3>2. CASE b \in BlocksOf(r) \ dropped
      <4>1. PICK i \in 1 .. Len(ids) : ids[i] = b
        BY <1>8, <3>2
      <4>2. i \notin dup
        BY <1>10, <3>2, <4>1
      <4> QED
        BY <1>13, <4>1, <4>2
    <3> QED
      BY <3>1, <3>2
  <2> QED
    BY <2>1, <2>2, <2>3
<1>22. Holdings' = [Holdings EXCEPT ![r] = (Holdings[r] \ dropped) \cup canonical]
  <2>1. \A s \in Requests : s # r => BlocksOf(s)' = BlocksOf(s)
    BY <1>14 DEF BlocksOf
  <2> QED
    BY <1>5, <1>21, <2>1 DEF Holdings
<1>23. ViewsCohere'
  <2>1. Coherent(blocks, free, prefixIndex, Holdings)
    BY DEF SharingInv, ViewsCohere
  <2>2. /\ \A b \in promoted \cup dropped : b \in Holdings[r] /\ blocks[b].state = "private"
        /\ \A b \in promoted : b \notin dropped
        /\ \A b \in canonical : b \in Blocks /\ blocks[b].state = "shared" /\ b \notin Holdings[r]
    BY <1>5, <1>16
  <2>3. /\ \A b \in canonical : /\ blocks'[b].state = "shared" /\ blocks'[b].hash = blocks[b].hash
                                 /\ blocks'[b].refs = blocks[b].refs + 1
        /\ \A b \in dropped : blocks'[b] = FreeBlock
    BY <1>5, <1>16, <1>18
  <2>4. Promotion(blocks, free, prefixIndex, Holdings, r, promoted, dropped, canonical,
                  blocks', prefixIndex')
    BY <1>5, <1>18, <1>19, <1>20, <2>1, <2>2, <2>3 DEF Promotion
  <2>5. Coherent(blocks', free \cup dropped, prefixIndex',
                 [Holdings EXCEPT ![r] = (Holdings[r] \ dropped) \cup canonical])
    BY <2>4, PromoteCoherent
  <2> QED
    BY <1>2, <1>22, <2>5 DEF ViewsCohere
<1>24. TableInOrder(r)'
  <2>1. IdsDistinct(r)'
    <3>1. ASSUME NEW i \in 1 .. Len(ids), NEW j \in 1 .. Len(ids), newIds[i] = newIds[j]
          PROVE  i = j
      <4>1. CASE i \in dup /\ j \in dup
        <5>1. chain[i] = chain[j]
          BY <1>7, <1>13, <3>1, <4>1
        <5> QED
          BY <1>6, <1>8, <1>9, <4>1, <5>1
      <4>2. CASE i \notin dup /\ j \notin dup
        BY <1>8, <1>13, <3>1, <4>2
      <4>3. CASE i \in dup /\ j \notin dup
        <5>1. newIds[i] \notin BlocksOf(r)
          BY <1>7, <1>13, <4>3
        <5> QED
          BY <1>8, <1>13, <3>1, <4>3, <5>1
      <4>4. CASE i \notin dup /\ j \in dup
        <5>1. newIds[j] \notin BlocksOf(r)
          BY <1>7, <1>13, <4>4
        <5> QED
          BY <1>8, <1>13, <3>1, <4>4, <5>1
      <4> QED
        BY <4>1, <4>2, <4>3, <4>4
    <3> QED
      BY <1>13, <1>14, <3>1 DEF IdsDistinct
  <2>2. LengthInOrder(r)
    BY DEF SharingInv, TableInOrder
  <2>3. Len(newIds) = RequiredBlocks(PromptLen[r])
    BY <1>1, <1>13, <2>2 DEF LengthInOrder, ids
  <2>4. ASSUME PromptLen[r] % BlockTokens # 0
        PROVE  LET tail == newIds[Len(newIds)]
               IN  blocks'[tail].state = "private" /\ content'[tail] = r
    <3>1. PromptLen[r] \in Nat /\ Len(chain) = PromptLen[r] \div BlockTokens
      BY DemandType, PoolAssumption DEF chain
    <3>2. Len(ids) = Len(chain) + 1
      BY <1>13, <2>3, <2>4, <3>1, RequiredBlocksNext
    <3>3. Len(ids) \in 1 .. Len(ids) /\ Len(ids) \notin computed
      BY <1>5, <1>15, <3>2
    <3>4. newIds[Len(ids)] = ids[Len(ids)] /\ ids[Len(ids)] \in Blocks
      BY <1>5, <1>8, <1>9, <1>13, <3>3
    <3>5. blocks[ids[Len(ids)]].state = "private" /\ content[ids[Len(ids)]] = r
      BY <1>1, <2>2, <2>4 DEF LengthInOrder, ids
    <3>6. ids[Len(ids)] \notin promoted \cup canonical \cup dropped
      <4>1. ids[Len(ids)] \notin promoted /\ ids[Len(ids)] \notin dropped
        BY <1>6, <1>8, <1>9, <1>10, <3>3
      <4>2. ids[Len(ids)] \notin canonical
        BY <1>16, <3>5
      <4> QED
        BY <4>1, <4>2
    <3> QED
      BY <1>1, <1>13, <1>18, <3>4, <3>5, <3>6
  <2>5. LengthInOrder(r)'
    BY <1>14, <2>3, <2>4 DEF LengthInOrder
  <2>6. PromptInOrder(r)' /\ (r \in Held)' /\ engine' # MustPromote(r)
    BY <1>1, <1>14, EngineDistinct DEF PromptInOrder, Held
  <2> QED
    BY <2>1, <2>5, <2>6 DEF TableInOrder
<1>25. ASSUME NEW s \in Requests, s # r PROVE TableInOrder(s)' /\ Untouched(s)
  <2>1. ASSUME NEW b \in BlocksOf(s)
        PROVE  blocks'[b].state = blocks[b].state /\ blocks'[b].hash = blocks[b].hash
    <3>1. b \in Blocks
      BY BlockInTable
    <3>2. b \notin promoted /\ b \notin dropped
      BY <1>16, <1>25, BlockInTable
    <3>3. b \in canonical => blocks[b].state = "shared"
      BY <1>16
    <3> QED
      BY <1>18, <3>1, <3>2, <3>3
  <2>2. engine' # MustPromote(s)
    BY <1>1, EngineDistinct
  <2> QED
    BY <1>1, <1>14, <1>25, <2>1, <2>2, UntouchedInOrder
<1>26. SharedContentCanonical'
  <2> SUFFICES ASSUME NEW b \in Blocks, blocks'[b].state = "shared"
               PROVE  content'[b] = blocks'[b].hash
    BY DEF SharedContentCanonical
  <2>1. CASE b \in promoted
    BY <1>1, <1>6, <1>9, <1>10, <1>17, <2>1
  <2>2. CASE b \notin promoted
    <3>1. b \notin dropped
      BY <1>18, ResetFields
    <3>2. blocks[b].state = "shared" /\ blocks'[b].hash = blocks[b].hash
      BY <1>16, <1>18, <2>2, <3>1
    <3> QED
      BY <1>1, <3>2 DEF SharingInv, SharedContentCanonical
  <2> QED
    BY <2>1, <2>2
<1>27. \A i \in 1 .. Len(ids) : content'[newIds[i]] = content[ids[i]]
  <2> SUFFICES ASSUME NEW i \in 1 .. Len(ids), i \in dup
               PROVE  content[newIds[i]] = content[ids[i]]
    BY <1>1, <1>13
  <2>1. content[ids[i]] = chain[i]
    BY <1>6, <1>9
  <2>2. content[prefixIndex[chain[i]]] = chain[i]
    BY <1>7 DEF SharingInv, SharedContentCanonical
  <2> QED
    BY <1>13, <2>1, <2>2
<1>28. PrivateOf(r)' = PrivateOf(r) \ (promoted \cup dropped)
  <2>1. PrivateOf(r)' = {b \in BlocksOf(r)' : blocks'[b].state = "private"}
    BY DEF PrivateOf
  <2>2. ASSUME NEW b \in BlocksOf(r)', blocks'[b].state = "private"
        PROVE  b \in PrivateOf(r) /\ b \notin promoted \cup dropped
    <3>1. b \in Blocks /\ b \in (BlocksOf(r) \ dropped) \cup canonical
      BY <1>5, <1>16, <1>21
    <3>2. b \notin canonical /\ b \notin promoted /\ b \notin dropped
      BY <1>18, <1>19, <2>2, <3>1, ResetFields
    <3>3. blocks'[b] = blocks[b] /\ b \in BlocksOf(r)
      BY <1>18, <3>1, <3>2
    <3> QED
      BY <2>2, <3>2, <3>3 DEF PrivateOf
  <2>3. ASSUME NEW b \in PrivateOf(r), b \notin promoted \cup dropped
        PROVE  b \in BlocksOf(r)' /\ blocks'[b].state = "private"
    <3>1. b \in BlocksOf(r) /\ b \in Blocks /\ blocks[b].state = "private"
      BY <1>5 DEF PrivateOf
    <3>2. b \notin canonical
      BY <1>16, <3>1
    <3>3. blocks'[b] = blocks[b] /\ b \in BlocksOf(r)'
      BY <1>18, <1>21, <2>3, <3>1, <3>2
    <3> QED
      BY <3>1, <3>3
  <2> QED
    BY <2>1, <2>2, <2>3
<1>30. computed \subseteq 1 .. Len(ids)
  BY <1>6
<1>31. SharingInv' /\ OthersUntouched(r)
  BY <1>3, <1>4, <1>23, <1>24, <1>25, <1>26 DEF SharingInv, OthersUntouched
<1>32. Len(tables'[r].ids) = Len(ids) /\ phase'[r] = "decode" /\ tables'[r].ids = newIds
  BY <1>13, <1>14
<1> QED
  BY <1>27, <1>28, <1>29, <1>30, <1>31, <1>32 DEF ids, chain, computed


-----------------------------------------------------------------------------
(* Every step, and what follows.                                            *)

\* Every step keeps the invariant.
LEMMA SharingInvNext == SharingInv /\ [Next]_vars => SharingInv'
<1> SUFFICES ASSUME SharingInv, [Next]_vars PROVE SharingInv'
  OBVIOUS
<1>1. ASSUME NEW r \in Requests, NEW tokens \in 1 .. Window, Reserve(r, tokens)
      PROVE  SharingInv'
  BY <1>1, ReserveSharing
<1>2. ASSUME NEW r \in Requests, ReserveWithPrefix(r)
      PROVE  SharingInv'
  BY <1>2, ReserveWithPrefixSharing
<1>3. ASSUME NEW r \in Requests, NEW target \in 1 .. NumBlocks, GrowReservation(r, target)
      PROVE  SharingInv'
  BY <1>3, GrowReservationSharing
<1>4. ASSUME NEW r \in Requests, NEW n \in 1 .. Window, WritePrefill(r, n)
      PROVE  SharingInv'
  BY <1>4, WritePrefillSharing
<1>5. ASSUME NEW r \in Requests, NEW n \in 0 .. Window, WritePrefillSuffix(r, n)
      PROVE  SharingInv'
  BY <1>5, WritePrefillSuffixSharing
<1>6. ASSUME NEW r \in Requests, AppendNewBlock(r)
      PROVE  SharingInv'
  BY <1>6, AppendNewBlockSharing
<1>7. ASSUME NEW r \in Requests, AppendTail(r)
      PROVE  SharingInv'
  BY <1>7, AppendTailSharing
<1>8. ASSUME NEW r \in Requests, ReadBoundaryLogits(r)
      PROVE  SharingInv'
  BY <1>8, ReadBoundaryLogitsSharing
<1>9. ASSUME NEW r \in Requests, Promote(r)
      PROVE  SharingInv'
  BY <1>9, PromoteSharing
<1>10. ASSUME NEW r \in Requests, PromoteRaises(r)
      PROVE  SharingInv'
  BY <1>10, PromoteRaisesSharing
<1>11. ASSUME NEW r \in Requests, NEW n \in RebuildLengths, RebuildInPlace(r, n)
      PROVE  SharingInv'
  BY <1>11, RebuildInPlaceSharing
<1>12. ASSUME NEW r \in Requests, NEW n \in RebuildLengths, RebuildDetached(r, n)
      PROVE  SharingInv'
  BY <1>12, RebuildDetachedSharing
<1>13. ASSUME NEW r \in Requests, Release(r)
      PROVE  SharingInv'
  BY <1>13, ReleaseSharing
<1>14. ASSUME ReleaseAll
      PROVE  SharingInv'
  BY <1>14, ReleaseAllSharing
<1>15. CASE UNCHANGED vars
  <2>1. TypeInv'
    BY <1>15, TypeInvNext DEF SharingInv
  <2>2. UNCHANGED <<blocks, free, prefixIndex, content, prefixHit, tables, phase, engine>>
    BY <1>15 DEF vars
  <2>3. \A r \in Requests : TableInOrder(r)'
    BY <2>2, UntouchedInOrder
  <2> QED
    BY <2>1, <2>2, <2>3, SameBlocks
<1> QED
  BY <1>1, <1>2, <1>3, <1>4, <1>5, <1>6, <1>7, <1>8,
     <1>9, <1>10, <1>11, <1>12, <1>13, <1>14, <1>15 DEF Next

\* The invariant holds in every reachable state.
LEMMA SharingAlways == Spec => []SharingInv
<1>1. Init => SharingInv
  BY SharingInvInit
<1>2. SharingInv /\ [Next]_vars => SharingInv'
  BY SharingInvNext
<1> QED
  BY <1>1, <1>2, PTL DEF Spec

\* What coherence says of the variables themselves.
LEMMA CoherentViews ==
    ASSUME SharingInv
    PROVE  BlockOwnership /\ RefcountsMatchTables /\ CanonicalIndex
<1>1. /\ Heap(blocks, free) /\ Owners(blocks, Holdings) /\ InUse(blocks, Holdings)
      /\ Counts(blocks, Holdings) /\ Index(blocks, prefixIndex)
  BY DEF SharingInv, ViewsCohere, Coherent
<1>2. /\ free \in SUBSET Blocks /\ \A b \in Blocks : References(b) = Readers(Holdings, b)
      /\ \A r \in Requests : Holdings[r] = BlocksOf(r) /\ BlocksOf(r) \in SUBSET Blocks
  BY SharingTypes DEF SharingInv, TypeInv, TypeOK, References, Readers
<1>3. ASSUME NEW b \in Blocks, blocks[b].state = "private"
      PROVE  /\ blocks[b] = PrivateBlock(blocks[b].owner) /\ References(b) = {blocks[b].owner}
             /\ \A r \in References(b) : blocks[b].owner = r
  <2>1. PICK r \in Requests : blocks[b] = PrivateBlock(r) /\ Readers(Holdings, b) = {r}
    BY <1>1, <1>3 DEF Owners
  <2>2. blocks[b].owner = r
    BY <2>1, ResetFields
  <2> QED
    BY <1>2, <2>1, <2>2
<1>4. BlockOwnership
  <2>1. free = {b \in Blocks : blocks[b].state = "free"} /\ \A b \in free : blocks[b] = FreeBlock
    BY <1>1 DEF Heap
  <2>2. \A r \in Requests : BlocksOf(r) \cap free = {}
    BY <1>1, <1>2, <2>1 DEF InUse
  <2> QED
    BY <1>3, <2>1, <2>2 DEF BlockOwnership
<1>5. RefcountsMatchTables
  BY <1>1, <1>2 DEF Counts, RefcountsMatchTables
<1>6. CanonicalIndex
  BY <1>1 DEF Index, CanonicalIndex
<1> QED
  BY <1>4, <1>5, <1>6

\* The free heap, the metadata, the tables and the prefix index agree in every
\* reachable state, whatever raised before: no block is free and in a table, a
\* private block is in the table of its owner alone, a reference count is the
\* number of tables a shared block is in, and each shared block is the
\* canonical block of its hash (what verify_invariants asserts).
THEOREM ViewsAgree == Spec => [](BlockOwnership /\ RefcountsMatchTables /\ CanonicalIndex)
<1>1. SharingInv => BlockOwnership /\ RefcountsMatchTables /\ CanonicalIndex
  BY CoherentViews
<1> QED
  BY <1>1, SharingAlways, PTL

\* A cached block always holds the data its hash names: a later prefix hit
\* (reserve_with_prefix) attends to the K/V of its own tokens.
THEOREM CachedDataCanonical == Spec => []SharedContentCanonical
<1>1. SharingInv => SharedContentCanonical
  BY DEF SharingInv
<1> QED
  BY <1>1, SharingAlways, PTL

\* release_all() frees every block, from any state that calls, those that raised
\* included, can leave the pool in.
THEOREM ShutdownFrees == Spec => ShutdownFreesPool
<1>1. SharingInv /\ [Next]_vars => [ReleaseAll => free' = Blocks]_vars
  BY ReleaseAllFrees
<1> QED
  BY <1>1, SharingAlways, PTL DEF Spec, ShutdownFreesPool

-----------------------------------------------------------------------------
(***************************************************************************)
(* The reservations, the refinement and the promise.                       *)
(***************************************************************************)

-----------------------------------------------------------------------------
(* How many blocks a table has.                                             *)

\* As many elements as indices.
LEMMA ImageCardinality ==
    ASSUME NEW I, IsFiniteSet(I), NEW f, \A i, j \in I : f[i] = f[j] => i = j
    PROVE  IsFiniteSet({f[i] : i \in I}) /\ Cardinality({f[i] : i \in I}) = Cardinality(I)
<1> DEFINE T == {f[i] : i \in I}
           g == [i \in I |-> f[i]]
<1>1. g \in Bijection(I, T)
  BY DEF Bijection, Injection, Surjection, IsInjective
<1>2. ExistsBijection(I, T)
  BY <1>1 DEF ExistsBijection
<1> QED
  BY <1>2, FS_Bijection

\* The blocks of a table are private or shared, and each is there once.
Counted(r) ==
    /\ Len(tables[r].ids) \in Nat /\ Cardinality(BlocksOf(r)) = Len(tables[r].ids)
    /\ IsFiniteSet(PrivateOf(r)) /\ IsFiniteSet(SharedOf(r))
    /\ Cardinality(PrivateOf(r)) \in Nat /\ Cardinality(SharedOf(r)) \in Nat
    /\ Cardinality(PrivateOf(r)) + Cardinality(SharedOf(r)) = Len(tables[r].ids)
    /\ tables[r].reserved \in Int /\ tables[r].max \in Nat /\ CurrentTotal(r) \in Int

\* Every table counts so.
LEMMA TableCounts ==
    ASSUME SharingInv, NEW r \in Requests
    PROVE  Counted(r)
<1>1. TypeInv /\ Len(tables[r].ids) \in Nat /\ BlocksOf(r) \in SUBSET Blocks
  BY SharingTypes DEF SharingInv
<1>2. Cardinality(BlocksOf(r)) = Len(tables[r].ids)
  <2>1. \A i, j \in 1 .. Len(tables[r].ids) : tables[r].ids[i] = tables[r].ids[j] => i = j
    BY DEF SharingInv, TableInOrder, IdsDistinct
  <2>2. /\ IsFiniteSet(1 .. Len(tables[r].ids))
        /\ Cardinality(1 .. Len(tables[r].ids)) = Len(tables[r].ids)
    BY <1>1, FS_Interval
  <2> QED
    BY <2>1, <2>2, ImageCardinality DEF BlocksOf
<1>3. /\ PrivateOf(r) \in SUBSET Blocks /\ SharedOf(r) \in SUBSET Blocks
      /\ PrivateOf(r) \cap SharedOf(r) = {}
  BY <1>1 DEF PrivateOf, SharedOf
<1>4. PrivateOf(r) \cup SharedOf(r) = BlocksOf(r)
  BY BlockInTable DEF PrivateOf, SharedOf
<1>5. /\ IsFiniteSet(PrivateOf(r)) /\ IsFiniteSet(SharedOf(r))
      /\ Cardinality(PrivateOf(r)) \in Nat /\ Cardinality(SharedOf(r)) \in Nat
  BY <1>3, BlockSetCardinality
<1>6. Cardinality(BlocksOf(r)) = Cardinality(PrivateOf(r)) + Cardinality(SharedOf(r))
  <2>1. Cardinality(PrivateOf(r) \cap SharedOf(r)) = 0
    BY <1>3, FS_EmptySet
  <2>2. Cardinality(PrivateOf(r) \cup SharedOf(r)) =
           Cardinality(PrivateOf(r)) + Cardinality(SharedOf(r)) - Cardinality(PrivateOf(r) \cap SharedOf(r))
    BY <1>5, FS_Union
  <2>3. Cardinality(BlocksOf(r)) = Cardinality(PrivateOf(r)) + Cardinality(SharedOf(r)) - 0
    BY <1>4, <2>1, <2>2
  <2> QED
    BY <1>5, <2>3
<1>7. tables[r].reserved \in Int /\ tables[r].max \in Nat
  BY <1>1 DEF TypeInv, TypeOK, TableType
<1> QED
  BY <1>1, <1>2, <1>5, <1>6, <1>7 DEF CurrentTotal, Counted

\* The same in the next state.
LEMMA TableCountsNext ==
    ASSUME NEW r \in Requests
    PROVE  SharingInv' => Counted(r)'
<1>1. SharingInv => Counted(r)
  BY TableCounts
<1> QED
  BY <1>1, PTL

-----------------------------------------------------------------------------
(* The invariant: no table outgrows its budget, and what it reads has been  *)
(* written.                                                                 *)

\* The data in the blocks of r's table, in the order in which r reads them.
Reading(r) == [i \in 1 .. Len(tables[r].ids) |-> content[tables[r].ids[i]]]

Caches == [r \in Requests |-> IF r \in Held THEN Reading(r) ELSE <<NoHash>>]

InBudget(r) ==
    r \in Held => Len(tables[r].ids) <= CurrentTotal(r) /\ CurrentTotal(r) <= tables[r].max

DataWritten(r) == \A i \in 1 .. Len(tables[r].ids) : content[tables[r].ids[i]] # NoHash

CacheInv == SharingInv /\ \A r \in Requests : InBudget(r) /\ DataWritten(r)

\* What a step may do to r's cache: nothing, open it with a prefix of its
\* prompt, extend it with the prompt or with r's own data, replace it, close it.
Kept(r) == (r \in Held <=> (r \in Held)') /\ Reading(r)' = Reading(r)
Opened(r) ==
    /\ r \notin Held
    /\ \E k \in 0 .. Len(Chain[r]) : Reading(r)' = [i \in 1 .. k |-> Chain[r][i]]
Extended(r) ==
    /\ r \in Held
    /\ \E k \in 1 .. Window :
          \/ Reading(r)' = Reading(r) \o [i \in 1 .. k |-> PromptData(r, Len(Reading(r)) + i)]
          \/ Reading(r)' = Reading(r) \o [i \in 1 .. k |-> r]
Replaced(r) == r \in Held /\ \E k \in 1 .. Window : Reading(r)' = [i \in 1 .. k |-> r]

CacheStep(r) ==
    \/ Kept(r)
    \/ (r \in Held)' /\ (Opened(r) \/ Extended(r) \/ Replaced(r))
    \/ (r \notin Held)' /\ tables'[r] = NoTable

\* The lengths of what is read, and data that is not junk.
LEMMA ReadingLength ==
    ASSUME SharingInv, NEW r \in Requests
    PROVE  /\ Len(tables[r].ids) \in Nat /\ Len(Reading(r)) = Len(tables[r].ids)
           /\ DOMAIN Reading(r) = 1 .. Len(tables[r].ids)
           /\ DataWritten(r) <=> \A i \in 1 .. Len(tables[r].ids) : Reading(r)[i] # NoHash
           /\ Reading(r) \in Seq(Tags)
<1>1. Len(tables[r].ids) \in Nat
  BY SharingTypes DEF SharingInv
<1>2. \A i \in 1 .. Len(tables[r].ids) : content[tables[r].ids[i]] \in Tags
  BY SharingTypes DEF SharingInv, TypeInv, TypeOK
<1>3. Reading(r) \in [1 .. Len(tables[r].ids) -> Tags]
  BY <1>2 DEF Reading
<1>4. Len(Reading(r)) = Len(tables[r].ids) /\ DOMAIN Reading(r) = 1 .. Len(tables[r].ids)
      /\ Reading(r) \in Seq(Tags)
  BY <1>1, <1>3, SequenceOfBlocks
<1>5. \A i \in 1 .. Len(tables[r].ids) : Reading(r)[i] = content[tables[r].ids[i]]
  BY DEF Reading
<1> QED
  BY <1>1, <1>4, <1>5 DEF DataWritten

\* Prompt data and a request's own data are not junk.
LEMMA DataIsTag ==
    ASSUME NEW r \in Requests
    PROVE  /\ r \in Tags /\ r # NoHash
           /\ \A i \in 1 .. Len(Chain[r]) : Chain[r][i] \in Tags /\ Chain[r][i] # NoHash
           /\ \A i \in Nat \ {0} : PromptData(r, i) \in Tags /\ PromptData(r, i) # NoHash
<1>1. r \in Tags /\ r # NoHash
  BY PoolAssumption DEF Tags
<1>2. \A i \in 1 .. Len(Chain[r]) : Chain[r][i] \in Tags /\ Chain[r][i] # NoHash
  BY ChainType, PoolAssumption DEF Tags
<1> QED
  BY <1>1, <1>2, ChainType DEF PromptData

\* A step that leaves what r reads leaves its budget and its cache.
LEMMA UntouchedCache ==
    ASSUME CacheInv, SharingInv', NEW r \in Requests, Untouched(r)
    PROVE  InBudget(r)' /\ DataWritten(r)' /\ Kept(r) /\ SharedOf(r)' = SharedOf(r)
           /\ Caches'[r] = Caches[r]
<1>1. /\ tables'[r] = tables[r] /\ ((r \in Held)' <=> r \in Held)
      /\ \A i \in 1 .. Len(tables[r].ids) : content'[tables[r].ids[i]] = content[tables[r].ids[i]]
  BY DEF Untouched, Held, BlocksOf
<1>2. Reading(r)' = Reading(r)
  BY <1>1 DEF Reading
<1>3. SharedOf(r)' = SharedOf(r)
  BY DEF Untouched, SharedOf, BlocksOf
<1>4. CurrentTotal(r)' = CurrentTotal(r)
  BY <1>1, <1>3 DEF CurrentTotal
<1>5. InBudget(r)' /\ DataWritten(r)'
  BY <1>1, <1>4 DEF CacheInv, InBudget, DataWritten
<1>6. Caches'[r] = Caches[r]
  BY <1>1, <1>2 DEF Caches
<1> QED
  BY <1>1, <1>2, <1>3, <1>5, <1>6 DEF Kept

\* A cache that is open is never taken for a closed one.
LEMMA OpenNotClosed ==
    ASSUME CacheInv, NEW r \in Requests, r \in Held
    PROVE  Caches[r] = Reading(r) /\ Caches[r] # <<NoHash>>
<1>1. Caches[r] = Reading(r)
  BY DEF Caches
<1>2. Reading(r) # <<NoHash>>
  <2> SUFFICES ASSUME Reading(r) = <<NoHash>> PROVE FALSE
    OBVIOUS
  <2>1. Len(tables[r].ids) = 1 /\ Reading(r)[1] = NoHash
    BY ReadingLength DEF CacheInv
  <2> QED
    BY <2>1, ReadingLength DEF CacheInv
<1> QED
  BY <1>1, <1>2

\* The store's actions, of Caches.
LEMMA StoreActions ==
    ASSUME NEW r \in Requests, NEW k \in 1 .. Window, Caches[r] # <<NoHash>>
    PROVE  /\ Caches' = [Caches EXCEPT ![r] = [i \in 1 .. k |-> r]] => Store!Replace(r)
           /\ Caches' = [Caches EXCEPT ![r] =
                 Caches[r] \o [i \in 1 .. k |-> PromptData(r, Len(Caches[r]) + i)]] => Store!Extend(r)
           /\ Caches' = [Caches EXCEPT ![r] = Caches[r] \o [i \in 1 .. k |-> r]] => Store!Extend(r)
<1>1. Caches = [s \in Requests |->
                 IF s \in Held
                 THEN [i \in 1 .. Len(tables[s].ids) |-> content[tables[s].ids[i]]]
                 ELSE <<NoHash>>]
  BY DEF Caches, Reading
<1>2. Caches' = [s \in Requests |->
                 IF s \in Held
                 THEN [i \in 1 .. Len(tables[s].ids) |-> content[tables[s].ids[i]]]
                 ELSE <<NoHash>>]'
  BY <1>1 DEF Caches, Reading
<1>3. Caches' = [Caches EXCEPT ![r] =
          Caches[r] \o [i \in 1 .. k |-> PromptData(r, Len(Caches[r]) + i)]] => Store!Extend(r)
  BY DEF Store!Extend, Store!PromptData, PromptData, Caches, Reading
<1> HIDE DEF Caches
<1>4. Caches' = [Caches EXCEPT ![r] = [i \in 1 .. k |-> r]] => Store!Replace(r)
  BY <1>1, <1>2 DEF Store!Replace
<1>5. Caches' = [Caches EXCEPT ![r] = Caches[r] \o [i \in 1 .. k |-> r]] => Store!Extend(r)
  BY <1>1, <1>2 DEF Store!Extend
<1> QED
  BY <1>3, <1>4, <1>5

\* One request's step is a step of the store.
LEMMA StoreStep ==
    ASSUME CacheInv, SharingInv', NEW r \in Requests, OthersUntouched(r), CacheStep(r),
           InBudget(r)'
    PROVE  CacheInv' /\ [Store!Next]_Caches
<1>1. ASSUME NEW s \in Requests, s # r
      PROVE  InBudget(s)' /\ DataWritten(s)' /\ Caches'[s] = Caches[s]
  BY <1>1, UntouchedCache DEF OthersUntouched
<1>2. Caches' = [Caches EXCEPT ![r] = Caches'[r]]
  BY <1>1 DEF Caches
<1>3. SharingInv /\ Len(Reading(r)) \in Nat
  BY ReadingLength DEF CacheInv
<1>4. DataWritten(r)' <=> \A i \in DOMAIN Reading(r)' : Reading(r)'[i] # NoHash
  BY DEF DataWritten, Reading
<1>5. DataWritten(r) <=> \A i \in DOMAIN Reading(r) : Reading(r)[i] # NoHash
  BY DEF DataWritten, Reading
<1>6. ASSUME Kept(r) PROVE DataWritten(r)' /\ [Store!Next]_Caches
  <2>1. Caches'[r] = Caches[r]
    BY <1>6 DEF Kept, Caches
  <2>2. Caches' = Caches
    BY <1>2, <2>1 DEF Caches
  <2>3. DataWritten(r)'
    BY <1>4, <1>5, <1>6 DEF Kept, CacheInv
  <2> QED
    BY <2>2, <2>3
<1>7. ASSUME (r \in Held)', Opened(r) PROVE DataWritten(r)' /\ [Store!Next]_Caches
  <2>1. PICK k \in 0 .. Len(Chain[r]) : Reading(r)' = [i \in 1 .. k |-> Chain[r][i]]
    BY <1>7 DEF Opened
  <2>2. Caches[r] = <<NoHash>> /\ Caches'[r] = Reading(r)'
    BY <1>7 DEF Opened, Caches
  <2>3. Store!Open(r)
    BY <1>2, <2>1, <2>2, ZenonT(60) DEF Store!Open, Caches, Reading
  <2>4. \A i \in 1 .. k : Chain[r][i] # NoHash
    BY ChainType, DataIsTag
  <2>5. DataWritten(r)'
    BY <1>4, <2>1, <2>4
  <2> QED
    BY <2>3, <2>5 DEF Store!Next
<1>8. ASSUME (r \in Held)', Extended(r) PROVE DataWritten(r)' /\ [Store!Next]_Caches
  <2>1. PICK k \in 1 .. Window :
          \/ Reading(r)' = Reading(r) \o [i \in 1 .. k |-> PromptData(r, Len(Reading(r)) + i)]
          \/ Reading(r)' = Reading(r) \o [i \in 1 .. k |-> r]
    BY <1>8 DEF Extended
  <2>2. Caches[r] = Reading(r) /\ Caches[r] # <<NoHash>> /\ Caches'[r] = Reading(r)'
    BY <1>8, OpenNotClosed DEF Extended, Caches
  <2>3. Store!Extend(r)
    BY <1>2, <2>1, <2>2, StoreActions, ZenonT(60)
  <2>4. DataWritten(r)'
    <3>1. PICK data \in {[i \in 1 .. k |-> PromptData(r, Len(Reading(r)) + i)], [i \in 1 .. k |-> r]} :
            Reading(r)' = Reading(r) \o data
      BY <2>1
    <3>2. data \in Seq(Tags) /\ Len(data) = k /\ \A i \in 1 .. k : data[i] # NoHash
      <4>1. \A i \in 1 .. k : Len(Reading(r)) + i \in Nat \ {0}
        BY <1>3
      <4>2. data \in [1 .. k -> Tags] /\ \A i \in 1 .. k : data[i] # NoHash
        BY <4>1, DataIsTag
      <4>3. k \in Nat
        BY PoolAssumption
      <4> QED
        BY <4>2, <4>3, SequenceOfBlocks
    <3>3. Reading(r) \in Seq(Tags) /\ \A i \in 1 .. Len(Reading(r)) : Reading(r)[i] # NoHash
      BY <1>3, <1>5, ReadingLength DEF CacheInv
    <3> DEFINE old == Reading(r)
               both == old \o data
    <3>4. Reading(r)' = both
      BY <3>1
    <3> HIDE DEF old
    <3>5. \A i \in 1 .. Len(both) : both[i] # NoHash
      BY <3>2, <3>3 DEF old
    <3>6. both \in Seq(Tags)
      BY <3>2, <3>3 DEF old
    <3> HIDE DEF both
    <3> QED
      BY <1>4, <3>4, <3>5, <3>6
  <2> QED
    BY <2>3, <2>4 DEF Store!Next
<1>9. ASSUME (r \in Held)', Replaced(r) PROVE DataWritten(r)' /\ [Store!Next]_Caches
  <2>1. PICK k \in 1 .. Window : Reading(r)' = [i \in 1 .. k |-> r]
    BY <1>9 DEF Replaced
  <2>2. Caches[r] = Reading(r) /\ Caches[r] # <<NoHash>> /\ Caches'[r] = Reading(r)'
    BY <1>9, OpenNotClosed DEF Replaced, Caches
  <2>3. Store!Replace(r)
    BY <1>2, <2>1, <2>2, StoreActions
  <2>4. DataWritten(r)'
    BY <1>4, <2>1, DataIsTag
  <2> QED
    BY <2>3, <2>4 DEF Store!Next
<1>10. ASSUME (r \notin Held)', tables'[r] = NoTable PROVE DataWritten(r)' /\ [Store!Next]_Caches
  <2>1. Caches'[r] = <<NoHash>>
    BY <1>10 DEF Caches
  <2>2. Store!Close(r)
    BY <1>2, <2>1 DEF Store!Close, Caches, Reading
  <2>3. DataWritten(r)'
    BY <1>10, NoTableLength DEF DataWritten
  <2> QED
    BY <2>2, <2>3 DEF Store!Next
<1>11. DataWritten(r)' /\ [Store!Next]_Caches
  BY <1>6, <1>7, <1>8, <1>9, <1>10 DEF CacheStep
<1> QED
  BY <1>1, <1>11 DEF CacheInv

-----------------------------------------------------------------------------
(* Each operation's step.                                                   *)

\* A step that leaves r's ids, budget and data leaves its cache.
LEMMA SameReading ==
    ASSUME CacheInv, SharingInv', NEW r \in Requests, r \in Held, (r \in Held)',
           tables'[r].ids = tables[r].ids, tables'[r].max = tables[r].max,
           tables'[r].reserved = tables[r].reserved,
           \A b \in BlocksOf(r) : blocks'[b].state = blocks[b].state /\ content'[b] = content[b]
    PROVE  InBudget(r)' /\ CacheStep(r)
<1>1. \A i \in 1 .. Len(tables[r].ids) : content'[tables[r].ids[i]] = content[tables[r].ids[i]]
  BY DEF BlocksOf
<1>2. Kept(r)
  BY <1>1 DEF Kept, Reading
<1>3. SharedOf(r)' = SharedOf(r)
  BY DEF SharedOf, BlocksOf
<1>4. CurrentTotal(r)' = CurrentTotal(r)
  BY <1>3 DEF CurrentTotal
<1> QED
  BY <1>2, <1>4 DEF CacheInv, InBudget, CacheStep

\* A step that touches no cache.
LEMMA UntouchedStep ==
    ASSUME CacheInv, SharingInv', NEW r \in Requests, OthersUntouched(r), Untouched(r)
    PROVE  CacheInv' /\ [Store!Next]_Caches
BY UntouchedCache, StoreStep DEF CacheStep

\* What is asked for at admission is no more than the lifetime maximum.
LEMMA AdmissionFits ==
    ASSUME NEW r \in Requests, NEW tokens \in Nat, tokens <= Lifetime[r]
    PROVE  /\ AdmissionBlocks(r, tokens) \in Nat /\ LifetimeBlocks(r) \in Nat
           /\ AdmissionBlocks(r, tokens) <= LifetimeBlocks(r)
<1>1. AdmissionBlocks(r, tokens) \in Nat /\ LifetimeBlocks(r) \in Nat /\ Lifetime[r] \in Nat
  BY DemandType
<1>2. RequiredBlocks(tokens) <= RequiredBlocks(Lifetime[r])
  BY <1>1, RequiredBlocksMonotone
<1> QED
  BY <1>1, <1>2 DEF AdmissionBlocks, LifetimeBlocks

\* Reserving privately opens an empty cache.
LEMMA ReserveCache ==
    ASSUME CacheInv, NEW r \in Requests, NEW tokens \in 1 .. Window, Reserve(r, tokens)
    PROVE  CacheInv' /\ [Store!Next]_Caches
<1>1. SharingInv /\ SharingInv' /\ OthersUntouched(r)
  BY ReserveSharing DEF CacheInv
<1>2. /\ r \notin Held /\ (r \in Held)' /\ tables'[r].ids = << >>
      /\ tables'[r].reserved = AdmissionBlocks(r, tokens) /\ tables'[r].max = LifetimeBlocks(r)
  BY <1>1 DEF Reserve, SharingInv, TypeInv, TypeOK, TableType, Held, NoTable
<1>3. tokens \in Nat /\ tokens <= Lifetime[r]
  BY PoolAssumption DEF Reserve
<1>4. InBudget(r)'
  <2>1. SharedOf(r)' = {}
    BY <1>2 DEF SharedOf, BlocksOf
  <2>2. CurrentTotal(r)' = AdmissionBlocks(r, tokens) + 0
    BY <1>2, <2>1, FS_EmptySet DEF CurrentTotal
  <2> QED
    BY <1>2, <1>3, <2>2, AdmissionFits DEF InBudget
<1>5. Opened(r)
  <2>1. Reading(r)' = [i \in 1 .. 0 |-> Chain[r][i]] /\ 0 \in 0 .. Len(Chain[r])
    BY <1>2, ChainType DEF Reading
  <2> QED
    BY <1>2, <2>1 DEF Opened
<1> QED
  BY <1>1, <1>2, <1>4, <1>5, StoreStep DEF CacheStep

\* Attaching a resident prefix opens a cache with the data of that prefix.
LEMMA ReserveWithPrefixCache ==
    ASSUME CacheInv, NEW r \in Requests, ReserveWithPrefix(r)
    PROVE  CacheInv' /\ [Store!Next]_Caches
<1>1. SharingInv /\ SharingInv' /\ OthersUntouched(r)
  BY ReserveWithPrefixSharing DEF CacheInv
<1>2. PICK k \in 0 .. Len(Chain[r]) :
         /\ AdmissionBlocks(r, PromptLen[r]) - k >= 0
         /\ tables' = [tables EXCEPT ![r] =
               [ids |-> [i \in 1 .. k |-> prefixIndex[Chain[r][i]]], length |-> k * BlockTokens,
                reserved |-> AdmissionBlocks(r, PromptLen[r]) - k, max |-> LifetimeBlocks(r)]]
         /\ prefixHit' = [prefixHit EXCEPT ![r] = k]
  BY DEF ReserveWithPrefix
<1>3. /\ k \in Nat /\ r \notin Held /\ phase'[r] = "prefill" /\ prefixHit'[r] = k
      /\ tables'[r].length = k * BlockTokens /\ tables'[r].max = LifetimeBlocks(r)
      /\ tables'[r].reserved = AdmissionBlocks(r, PromptLen[r]) - k
  BY <1>1, <1>2, ChainType DEF ReserveWithPrefix, SharingInv, TypeInv, TypeOK, Held
<1>4. (r \in Held)'
  BY <1>3 DEF Held
<1>5. Len(tables'[r].ids) = k
  <2>1. LengthInOrder(r)'
    BY <1>1 DEF SharingInv, TableInOrder
  <2> QED
    BY <1>3, <2>1, RequiredBlocksWhole DEF LengthInOrder
<1>6. ASSUME NEW i \in 1 .. k
      PROVE  /\ blocks'[tables'[r].ids[i]].state = "shared"
             /\ content'[tables'[r].ids[i]] = Chain[r][i]
  <2>1. PromptInOrder(r)' /\ SharedContentCanonical'
    BY <1>1 DEF SharingInv, TableInOrder
  <2>2. /\ blocks'[tables'[r].ids[i]].state = "shared"
        /\ blocks'[tables'[r].ids[i]].hash = Chain[r][i]
    BY <1>3, <1>5, <2>1 DEF PromptInOrder
  <2>3. tables'[r].ids[i] \in Blocks
    BY <1>1, <1>5 DEF SharingInv, TypeInv, TypeOK, TableType
  <2> QED
    BY <2>1, <2>2, <2>3 DEF SharedContentCanonical
<1>7. Opened(r)
  <2>1. Reading(r)' = [i \in 1 .. k |-> Chain[r][i]]
    BY <1>5, <1>6 DEF Reading
  <2> QED
    BY <1>3, <2>1 DEF Opened
<1>8. InBudget(r)'
  <2>1. SharedOf(r)' = BlocksOf(r)'
    BY <1>5, <1>6 DEF SharedOf, BlocksOf
  <2>2. Cardinality(SharedOf(r)') = k
    BY <1>1, <1>5, <2>1, TableCountsNext DEF Counted
  <2>3. PromptLen[r] \in Nat /\ PromptLen[r] <= Lifetime[r]
    BY PoolAssumption, DemandType
  <2>4. /\ AdmissionBlocks(r, PromptLen[r]) \in Nat /\ LifetimeBlocks(r) \in Nat
        /\ AdmissionBlocks(r, PromptLen[r]) <= LifetimeBlocks(r)
    BY <2>3, AdmissionFits
  <2>5. CurrentTotal(r)' = AdmissionBlocks(r, PromptLen[r]) - k + k
    BY <1>3, <2>2 DEF CurrentTotal
  <2> QED
    BY <1>2, <1>3, <1>5, <2>4, <2>5 DEF InBudget
<1> QED
  BY <1>1, <1>4, <1>7, <1>8, StoreStep DEF CacheStep

\* Growing a reservation does not show.
LEMMA GrowReservationCache ==
    ASSUME CacheInv, NEW r \in Requests, NEW target \in 1 .. NumBlocks, GrowReservation(r, target)
    PROVE  CacheInv' /\ [Store!Next]_Caches
<1>1. SharingInv /\ SharingInv' /\ OthersUntouched(r)
  BY GrowReservationSharing DEF CacheInv
<1>2. /\ UNCHANGED <<blocks, content, phase>> /\ r \in Held /\ (r \in Held)'
      /\ tables'[r].ids = tables[r].ids /\ tables'[r].max = tables[r].max
      /\ tables'[r].reserved = tables[r].reserved + target - CurrentTotal(r)
      /\ CurrentTotal(r) < target /\ target <= tables[r].max
  BY <1>1 DEF GrowReservation, SharingInv, TypeInv, TypeOK, TableType, Held
<1>3. Kept(r)
  BY <1>2 DEF Kept, Reading
<1>4. InBudget(r)'
  <2>1. SharedOf(r)' = SharedOf(r)
    BY <1>2 DEF SharedOf, BlocksOf
  <2>2. CurrentTotal(r)' = tables[r].reserved + target - CurrentTotal(r) + Cardinality(SharedOf(r))
    BY <1>2, <2>1 DEF CurrentTotal
  <2>3. Counted(r) /\ target \in Int /\ CurrentTotal(r) = tables[r].reserved + Cardinality(SharedOf(r))
    BY <1>1, TableCounts DEF CurrentTotal
  <2>4. CurrentTotal(r)' = target
    BY <2>2, <2>3 DEF Counted
  <2> QED
    BY <1>2, <2>3, <2>4, SMTT(30) DEF InBudget, CacheInv, Counted
<1> QED
  BY <1>1, <1>3, <1>4, StoreStep DEF CacheStep

\* Reading the boundary logits does not show, nor does a promotion that raises.
LEMMA ReadBoundaryLogitsCache ==
    ASSUME CacheInv, NEW r \in Requests, ReadBoundaryLogits(r) \/ PromoteRaises(r)
    PROVE  CacheInv' /\ [Store!Next]_Caches
BY ReadBoundaryLogitsSharing, PromoteRaisesSharing, UntouchedStep DEF CacheInv

\* A token written into the tail block, which is r's own, does not show.
LEMMA AppendTailCache ==
    ASSUME CacheInv, NEW r \in Requests, AppendTail(r)
    PROVE  CacheInv' /\ [Store!Next]_Caches
<1>1. SharingInv /\ SharingInv' /\ OthersUntouched(r)
  BY AppendTailSharing DEF CacheInv
<1>2. /\ UNCHANGED <<blocks, phase>> /\ r \in Held /\ (r \in Held)'
      /\ tables'[r].ids = tables[r].ids /\ tables'[r].max = tables[r].max
      /\ tables'[r].reserved = tables[r].reserved
  BY <1>1 DEF AppendTail, SharingInv, TypeInv, TypeOK, TableType, Held
<1>3. content' = content
  <2> DEFINE tail == tables[r].ids[Len(tables[r].ids)]
  <2>1. engine = Idle /\ phase[r] = "decode" /\ tables[r].length % BlockTokens # 0
        /\ content' = [content EXCEPT ![tail] = r]
    BY DEF AppendTail, NeedsBlock
  <2>2. content[tail] = r
    BY <1>1, <2>1, TailOwn
  <2> HIDE DEF tail
  <2> QED
    BY <1>1, <2>1, <2>2 DEF SharingInv, TypeInv, TypeOK
<1> QED
  BY <1>1, <1>2, <1>3, SameReading, StoreStep

\* A concatenation, element by element.
LEMMA Concatenation ==
    ASSUME NEW S, NEW s \in Seq(S), NEW t \in Seq(S)
    PROVE  s \o t = [i \in 1 .. Len(s) + Len(t) |->
                        IF i <= Len(s) THEN s[i] ELSE t[i - Len(s)]]
<1> DEFINE both == s \o t
<1>1. both \in Seq(S) /\ Len(both) = Len(s) + Len(t) /\ Len(s) \in Nat /\ Len(t) \in Nat
  OBVIOUS
<1>2. ASSUME NEW i \in 1 .. Len(s) + Len(t)
      PROVE  both[i] = IF i <= Len(s) THEN s[i] ELSE t[i - Len(s)]
  <2>1. CASE i <= Len(s)
    BY <2>1
  <2>2. CASE i > Len(s)
    BY <2>2
  <2> QED
    BY <1>1, <2>1, <2>2
<1> HIDE DEF both
<1>3. both = [i \in 1 .. Len(s) + Len(t) |-> both[i]]
  BY <1>1
<1> QED
  BY <1>2, <1>3 DEF both

\* What a write of count blocks may hold: the request's prompt from where its
\* table ends, or data of its own.
OwnData(r, count, data) ==
    \/ data = [i \in 1 .. count |-> PromptData(r, Len(tables[r].ids) + i)]
    \/ data = [i \in 1 .. count |-> r]

\* A step leaves what r shares and may still claim.
SameBudget(r) ==
    /\ SharedOf(r)' = SharedOf(r)
    /\ tables'[r].reserved = tables[r].reserved /\ tables'[r].max = tables[r].max

\* A write of new blocks extends the cache, or fails and leaves it.
LEMMA WriteCache ==
    ASSUME CacheInv, SharingInv', NEW r, NEW count, NEW data, NEW length, NEW next,
           r \in Requests, OthersUntouched(r), r \in Held, (r \in Held)',
           count \in Nat, count <= Window, length \in Nat,
           WriteNewBlocks(r, count, data, length, next), OwnData(r, count, data),
           Len(tables[r].ids) + count <= CurrentTotal(r)
    PROVE  CacheInv' /\ [Store!Next]_Caches /\ SameBudget(r)
<1> DEFINE ids == tables[r].ids
<1>1. /\ \A b \in BlocksOf(r) : blocks'[b] = blocks[b] /\ content'[b] = content[b]
      /\ next = MustRelease(r) => tables' = tables
      /\ next # MustRelease(r) => Written(r, count, data, length)
  <2>1. count \in Int /\ SharingInv
    BY DEF CacheInv
  <2> QED
    BY <2>1, WriteNewBlocksSharing
<1>2. CASE next = MustRelease(r)
  <2>1. SameBudget(r)
    BY <1>1, <1>2 DEF SameBudget, SharedOf, BlocksOf
  <2> QED
    BY <1>1, <1>2, <2>1, SameReading, StoreStep
<1>3. CASE next # MustRelease(r)
  <2>1. PICK new \in [1 .. count -> Blocks] :
          /\ tables'[r].ids = ids \o new
          /\ tables'[r].reserved = tables[r].reserved /\ tables'[r].max = tables[r].max
          /\ \A i \in 1 .. count : blocks'[new[i]] = PrivateBlock(r) /\ content'[new[i]] = data[i]
    BY <1>1, <1>3 DEF Written
  <2>2. ids \in Seq(Blocks) /\ \A i \in 1 .. Len(ids) : ids[i] \in BlocksOf(r)
    BY SharingTypes DEF CacheInv, SharingInv
  <2>3. OwnData(r, count, data) /\ Len(ids) + count <= CurrentTotal(r)
        /\ BlocksOf(r) = {ids[i] : i \in 1 .. Len(ids)}
    BY DEF BlocksOf
  <2>4. /\ Len(ids) \in Nat /\ Len(Reading(r)) = Len(ids) /\ DOMAIN Reading(r) = 1 .. Len(ids)
        /\ \A i \in 1 .. Len(ids) : Reading(r)[i] = content[ids[i]]
    BY ReadingLength DEF CacheInv, Reading
  <2> DEFINE ids2 == ids \o new
  <2>5. tables'[r].ids = ids2 /\ BlocksOf(r)' = {ids2[i] : i \in 1 .. Len(ids2)}
        /\ Reading(r)' = [i \in 1 .. Len(ids2) |-> content'[ids2[i]]]
    BY <2>1 DEF BlocksOf, Reading
  <2>6. OwnData(r, count, data) =>
           \/ data = [i \in 1 .. count |-> PromptData(r, Len(ids) + i)]
           \/ data = [i \in 1 .. count |-> r]
    BY DEF OwnData
  <2> HIDE DEF ids
  <2>7. /\ Len(ids2) = Len(ids) + count
        /\ \A i \in 1 .. Len(ids) : ids2[i] = ids[i] /\ i \in 1 .. Len(ids2)
        /\ \A i \in 1 .. count : ids2[Len(ids) + i] = new[i] /\ Len(ids) + i \in 1 .. Len(ids2)
        /\ \A i \in 1 .. Len(ids2) :
              \/ i \in 1 .. Len(ids)
              \/ i > Len(ids) /\ ids2[i] = new[i - Len(ids)] /\ i - Len(ids) \in 1 .. count
    <3>1. count \in Int /\ Len(new) = count
      BY <2>1, AppendIds, <2>2
    <3> QED
      BY <2>2, <3>1, AppendIds
  <2> HIDE DEF ids2
  <2>8. SharedOf(r)' = SharedOf(r)
    <3>1. SharedOf(r)' = {b \in {ids2[i] : i \in 1 .. Len(ids2)} : blocks'[b].state = "shared"}
      BY <2>5 DEF SharedOf
    <3>2. SharedOf(r) = {b \in {ids[i] : i \in 1 .. Len(ids)} : blocks[b].state = "shared"}
      BY <2>3 DEF SharedOf
    <3>3. \A i \in 1 .. Len(ids) : blocks'[ids[i]] = blocks[ids[i]]
      BY <1>1, <2>2
    <3>4. \A i \in 1 .. count : blocks'[new[i]].state # "shared"
      BY <2>1, ResetFields
    <3>5. ASSUME NEW i \in 1 .. Len(ids2), blocks'[ids2[i]].state = "shared"
          PROVE  i \in 1 .. Len(ids) /\ ids2[i] = ids[i] /\ blocks[ids[i]].state = "shared"
      <4>1. CASE i \in 1 .. Len(ids)
        BY <2>7, <3>3, <3>5, <4>1
      <4>2. CASE i \notin 1 .. Len(ids)
        <5>1. ids2[i] = new[i - Len(ids)] /\ i - Len(ids) \in 1 .. count
          BY <2>7, <4>2
        <5> QED
          BY <3>4, <3>5, <5>1
      <4> QED
        BY <4>1, <4>2
    <3>6. ASSUME NEW i \in 1 .. Len(ids), blocks[ids[i]].state = "shared"
          PROVE  i \in 1 .. Len(ids2) /\ ids2[i] = ids[i] /\ blocks'[ids2[i]].state = "shared"
      BY <2>7, <3>3, <3>6
    <3> QED
      BY <3>1, <3>2, <3>5, <3>6
  <2>9. InBudget(r)'
    <3>1. CurrentTotal(r)' = CurrentTotal(r)
      BY <2>1, <2>8 DEF CurrentTotal
    <3> QED
      BY <2>1, <2>3, <2>5, <2>7, <3>1 DEF InBudget, CacheInv
  <2>10. Reading(r)' = Reading(r) \o data
    <3>1. data \in [1 .. count -> Tags]
      <4>1. \A i \in 1 .. count : Len(ids) + i \in Nat \ {0}
        BY <2>4
      <4> QED
        BY <2>3, <2>6, <4>1, DataIsTag
    <3>2. Len(data) = count /\ data \in Seq(Tags)
      BY <3>1, SequenceOfBlocks
    <3>3. Reading(r) \in Seq(Tags)
      BY ReadingLength DEF CacheInv
    <3> DEFINE old == Reading(r)
    <3>4. \A i \in 1 .. Len(ids2) :
             content'[ids2[i]] = IF i <= Len(ids) THEN old[i] ELSE data[i - Len(ids)]
      BY <1>1, <2>1, <2>2, <2>4, <2>7
    <3>5. old \in Seq(Tags) /\ Len(old) = Len(ids)
      BY <2>4, <3>3
    <3> HIDE DEF old
    <3>6. old \o data = [i \in 1 .. Len(ids2) |->
                            IF i <= Len(ids) THEN old[i] ELSE data[i - Len(ids)]]
      <4>1. Len(old) + Len(data) = Len(ids2)
        BY <2>7, <3>2, <3>5
      <4>2. old \o data = [i \in 1 .. Len(old) + Len(data) |->
                             IF i <= Len(old) THEN old[i] ELSE data[i - Len(old)]]
        BY <3>2, <3>5, Concatenation
      <4> QED
        BY <3>5, <4>1, <4>2, Zenon
    <3>7. Reading(r)' = old \o data
      BY <2>5, <3>4, <3>6
    <3> QED
      BY <3>7 DEF old
  <2>11. ASSUME count = 0 PROVE CacheInv' /\ [Store!Next]_Caches
    <3>1. \A i \in 1 .. Len(ids2) : ids2[i] = ids[i]
      BY <2>7, <2>11
    <3>2. Len(ids2) = Len(ids)
      BY <2>4, <2>7, <2>11
    <3>3. Reading(r)' = [i \in 1 .. Len(ids) |-> content'[ids[i]]]
      BY <2>5, <3>1, <3>2
    <3>4. Reading(r) = [i \in 1 .. Len(ids) |-> content[ids[i]]]
      BY DEF Reading, ids
    <3>5. Kept(r)
      BY <1>1, <2>2, <3>3, <3>4 DEF Kept
    <3> QED
      BY <2>9, <3>5, StoreStep DEF CacheStep
  <2>12. ASSUME count # 0 PROVE CacheInv' /\ [Store!Next]_Caches
    <3>1. count \in 1 .. Window
      BY <2>12, PoolAssumption
    <3>2. data = [i \in 1 .. count |-> PromptData(r, Len(Reading(r)) + i)]
          \/ data = [i \in 1 .. count |-> r]
      BY <2>3, <2>4, <2>6
    <3>3. Extended(r)
      BY <2>10, <3>1, <3>2 DEF Extended
    <3> QED
      BY <2>9, <3>3, StoreStep DEF CacheStep
  <2>13. SameBudget(r)
    BY <2>1, <2>8 DEF SameBudget
  <2> QED
    BY <2>11, <2>12, <2>13
<1> QED
  BY <1>2, <1>3

\* Writing a whole cache, a prompt's or a recomputed one.
LEMMA WritePrefillCache ==
    ASSUME CacheInv, NEW r \in Requests, NEW n \in 1 .. Window, WritePrefill(r, n)
    PROVE  CacheInv' /\ [Store!Next]_Caches /\ SameBudget(r)
<1> DEFINE count == RequiredBlocks(n)
           data == [i \in 1 .. count |-> IF phase[r] = "resume" THEN r ELSE PromptData(r, i)]
<1>1. PICK next \in {Idle, MustRelease(r)} :
          /\ WriteNewBlocks(r, count, data, n, next)
          /\ phase' = IF next = Idle THEN [phase EXCEPT ![r] = "decode"] ELSE phase
  BY DEF WritePrefill, Outcomes
<1>2. /\ r \in Held /\ tables[r].ids = << >> /\ count <= tables[r].reserved
  BY DEF WritePrefill, Held
<1>3. SharingInv /\ SharingInv' /\ OthersUntouched(r)
  BY WritePrefillSharing DEF CacheInv
<1>4. (r \in Held)'
  BY <1>1, <1>2, <1>3 DEF Held, SharingInv, TypeInv, TypeOK
<1>5. n \in Nat /\ count \in Nat /\ count <= Window
  <2>1. n \in Nat /\ n <= Window /\ Window \in Nat
    BY PoolAssumption
  <2> QED
    BY <2>1, RequiredBlocksNext
<1>6. Len(tables[r].ids) = 0
  BY <1>2
<1>7. OwnData(r, count, data)
  <2>1. CASE phase[r] = "resume"
    BY <2>1 DEF OwnData
  <2>2. CASE phase[r] # "resume"
    <3>1. \A i \in 1 .. count : PromptData(r, Len(tables[r].ids) + i) = PromptData(r, i)
      BY <1>6
    <3> QED
      BY <2>2, <3>1 DEF OwnData
  <2> QED
    BY <2>1, <2>2
<1> HIDE DEF count, data
<1>8. Len(tables[r].ids) + count <= CurrentTotal(r)
  <2>1. SharedOf(r) = {}
    BY <1>2 DEF SharedOf, BlocksOf
  <2>2. tables[r].reserved \in Int
    BY <1>3, TableCounts DEF Counted
  <2>3. CurrentTotal(r) = tables[r].reserved + 0
    BY <2>1, FS_EmptySet DEF CurrentTotal
  <2> QED
    BY <1>2, <1>5, <1>6, <2>2, <2>3
<1> QED
  BY <1>1, <1>2, <1>3, <1>4, <1>5, <1>7, <1>8, WriteCache

\* Writing a chunk of a prompt, or nothing after an exact hit.
LEMMA WritePrefillSuffixCache ==
    ASSUME CacheInv, NEW r \in Requests, NEW n \in 0 .. Window, WritePrefillSuffix(r, n)
    PROVE  CacheInv' /\ [Store!Next]_Caches /\ SameBudget(r)
<1> DEFINE length == tables[r].length + n
           count == RequiredBlocks(length) - Len(tables[r].ids)
           data == [i \in 1 .. count |-> PromptData(r, Len(tables[r].ids) + i)]
           last == length = PromptLen[r]
<1>1. /\ phase[r] = "prefill" /\ length <= PromptLen[r]
      /\ RequiredBlocks(length) - Cardinality(SharedOf(r)) <= tables[r].reserved
      /\ \E next \in Outcomes(r, IF last /\ PrefixEnabled THEN MustPromote(r) ELSE Idle) :
            /\ WriteNewBlocks(r, count, data, length, next)
            /\ phase' = IF last /\ next = Idle THEN [phase EXCEPT ![r] = "decode"] ELSE phase
  BY DEF WritePrefillSuffix
<1>2. OwnData(r, count, data)
  BY DEF OwnData
<1>3. SharingInv /\ SharingInv' /\ OthersUntouched(r)
  BY WritePrefillSuffixSharing DEF CacheInv
<1>4. /\ tables[r].length \in Nat /\ length \in Nat /\ tables[r].length <= length
      /\ length <= Window
  <2>1. tables[r].length \in Nat /\ n \in Nat /\ PromptLen[r] \in 1 .. Window /\ Window \in Nat
    BY <1>3, PoolAssumption DEF SharingInv, TypeInv, TypeOK, TableType
  <2> QED
    BY <1>1, <2>1
<1>5. /\ Len(tables[r].ids) \in Nat /\ Len(tables[r].ids) = RequiredBlocks(tables[r].length)
      /\ RequiredBlocks(tables[r].length) <= RequiredBlocks(length)
      /\ RequiredBlocks(length) \in Nat /\ RequiredBlocks(length) <= length
  <2>1. LengthInOrder(r)
    BY <1>3 DEF SharingInv, TableInOrder
  <2>2. /\ RequiredBlocks(tables[r].length) \in Nat
        /\ RequiredBlocks(length) \in Nat /\ RequiredBlocks(length) <= length
    BY <1>4, RequiredBlocksNext
  <2>3. RequiredBlocks(tables[r].length) <= RequiredBlocks(length)
    BY <1>4, RequiredBlocksMonotone
  <2> QED
    BY <2>1, <2>2, <2>3 DEF LengthInOrder
<1> HIDE DEF length, data, last
<1>6. count \in Nat /\ count <= Window /\ Len(tables[r].ids) + count = RequiredBlocks(length)
  BY <1>4, <1>5, PoolAssumption, SMTT(30)
<1> HIDE DEF count
<1>7. PICK next :
         /\ WriteNewBlocks(r, count, data, length, next)
         /\ phase' = IF last /\ next = Idle THEN [phase EXCEPT ![r] = "decode"] ELSE phase
  BY <1>1
<1>8. r \in Held /\ (r \in Held)'
  BY <1>1, <1>3, <1>7 DEF Held, SharingInv, TypeInv, TypeOK
<1>9. Len(tables[r].ids) + count <= CurrentTotal(r)
  <2>1. Counted(r)
    BY <1>3, TableCounts
  <2> QED
    BY <1>1, <1>5, <1>6, <2>1 DEF Counted, CurrentTotal
<1> QED
  BY <1>2, <1>3, <1>4, <1>6, <1>7, <1>8, <1>9, WriteCache

\* A token that opens a block extends the cache by it.
LEMMA AppendNewBlockCache ==
    ASSUME CacheInv, NEW r \in Requests, AppendNewBlock(r)
    PROVE  CacheInv' /\ [Store!Next]_Caches /\ SameBudget(r)
<1>1. PICK next : WriteNewBlocks(r, 1, <<r>>, tables[r].length + 1, next)
  BY DEF AppendNewBlock
<1>2. SharingInv /\ SharingInv' /\ OthersUntouched(r)
  BY AppendNewBlockSharing DEF CacheInv
<1>3. /\ r \in Held /\ (r \in Held)' /\ Cardinality(PrivateOf(r)) + 1 <= tables[r].reserved
  BY DEF AppendNewBlock, Held
<1>4. tables[r].length + 1 \in Nat /\ 1 \in Nat /\ 1 <= Window
  BY <1>2, PoolAssumption, SMTT(30) DEF SharingInv, TypeInv, TypeOK, TableType
<1>5. OwnData(r, 1, <<r>>)
  <2>1. <<r>> = [i \in 1 .. 1 |-> r]
    OBVIOUS
  <2> QED
    BY <2>1 DEF OwnData
<1>6. Len(tables[r].ids) + 1 <= CurrentTotal(r)
  <2>1. Counted(r)
    BY <1>2, TableCounts
  <2> QED
    BY <1>3, <2>1 DEF Counted, CurrentTotal
<1> QED
  BY <1>1, <1>2, <1>3, <1>4, <1>5, <1>6, WriteCache

\* A promotion turns private reservation into shared blocks, one for one, and
\* no data changes: it does not show.
LEMMA PromoteCache ==
    ASSUME CacheInv, NEW r \in Requests, Promote(r)
    PROVE  CacheInv' /\ [Store!Next]_Caches
<1> DEFINE ids == tables[r].ids
           computed == prefixHit[r] + 1 .. Len(Chain[r])
           taken == {ids[i] : i \in computed}
<1>1. SharingInv /\ SharingInv' /\ OthersUntouched(r)
  BY PromoteSharing DEF CacheInv
<1>2. /\ phase'[r] = "decode" /\ Len(tables'[r].ids) = Len(ids)
      /\ \A i \in 1 .. Len(ids) : content'[tables'[r].ids[i]] = content[ids[i]]
      /\ computed \subseteq 1 .. Len(ids) /\ PrivateOf(r)' = PrivateOf(r) \ taken
  BY <1>1, PromoteSharing
<1>3. /\ phase[r] = "prefill" /\ Len(Chain[r]) <= Len(ids)
      /\ tables'[r].reserved = tables[r].reserved - Cardinality(computed)
      /\ tables'[r].max = tables[r].max
  <2>1. engine = MustPromote(r) /\ tables[r].length = PromptLen[r]
        /\ \E new : tables' = [tables EXCEPT ![r].ids = new,
                                ![r].reserved = @ - Cardinality(computed)]
    BY DEF Promote
  <2>2. phase[r] = "prefill" /\ Len(Chain[r]) <= Len(ids)
    BY <1>1, <2>1 DEF SharingInv, TableInOrder, TypeInv, PromotableInTable
  <2>3. tables \in [Requests -> TableType]
    BY <1>1 DEF SharingInv, TypeInv, TypeOK
  <2> HIDE DEF computed
  <2> QED
    BY <2>1, <2>2, <2>3 DEF TableType
<1>4. r \in Held /\ (r \in Held)'
  BY <1>2, <1>3 DEF Held
<1>5. Kept(r)
  BY <1>2, <1>4 DEF Kept, Reading
<1>6. IsFiniteSet(computed) /\ Cardinality(computed) \in Nat
  <2>1. prefixHit[r] + 1 \in Int /\ Len(Chain[r]) \in Int
    BY <1>1, ChainType DEF SharingInv, TypeInv, TypeOK
  <2> QED
    BY <2>1, FS_Interval, FS_CardinalityType
<1>7. taken \subseteq PrivateOf(r)
  BY <1>1, <1>3, PromotionCandidates DEF PrivateOf
<1>8. Cardinality(taken) = Cardinality(computed)
  <2>1. \A i, j \in computed : ids[i] = ids[j] => i = j
    BY <1>1, <1>2 DEF SharingInv, TableInOrder, IdsDistinct
  <2> HIDE DEF ids, computed
  <2> QED
    BY <1>6, <2>1, ImageCardinality
<1>9. Counted(r) /\ Counted(r)'
  BY <1>1, TableCounts, TableCountsNext
<1> HIDE DEF ids, computed, taken
<1>10. Cardinality(PrivateOf(r)') = Cardinality(PrivateOf(r)) - Cardinality(computed)
  <2>1. PrivateOf(r) \cap taken = taken
    BY <1>7
  <2>2. Cardinality(PrivateOf(r) \ taken) = Cardinality(PrivateOf(r)) - Cardinality(PrivateOf(r) \cap taken)
    BY <1>9, FS_Difference DEF Counted
  <2> QED
    BY <1>2, <1>8, <2>1, <2>2
<1>11. CurrentTotal(r)' = CurrentTotal(r)
  <2>1. /\ Cardinality(PrivateOf(r)) + Cardinality(SharedOf(r)) = Len(ids)
        /\ Cardinality(PrivateOf(r)') + Cardinality(SharedOf(r)') = Len(ids)
        /\ Cardinality(PrivateOf(r)) \in Nat /\ Cardinality(SharedOf(r)) \in Nat
        /\ Cardinality(PrivateOf(r)') \in Nat /\ Cardinality(SharedOf(r)') \in Nat
        /\ tables[r].reserved \in Int /\ Len(ids) \in Nat
    BY <1>2, <1>9 DEF Counted, ids
  <2>2. Cardinality(SharedOf(r)') = Cardinality(SharedOf(r)) + Cardinality(computed)
    BY <1>6, <1>10, <2>1
  <2>3. tables'[r].reserved + Cardinality(SharedOf(r)') = tables[r].reserved + Cardinality(SharedOf(r))
    BY <1>3, <1>6, <2>1, <2>2
  <2> QED
    BY <2>3 DEF CurrentTotal
<1>12. InBudget(r)'
  BY <1>2, <1>3, <1>4, <1>11 DEF InBudget, CacheInv, ids
<1> QED
  BY <1>1, <1>5, <1>12, StoreStep DEF CacheStep

\* A rebuild replaces the cache by a window of r's own, or fails.
LEMMA RebuildCache ==
    ASSUME CacheInv, SharingInv', NEW r \in Requests, OthersUntouched(r), r \in Held,
           NEW n \in RebuildLengths, NEW reserved \in Int,
           Untouched(r) \/ Rebuilt(r, n, reserved),
           RequiredBlocks(n) <= reserved, reserved <= CurrentTotal(r)
    PROVE  CacheInv' /\ [Store!Next]_Caches
<1>1. CASE Untouched(r)
  BY <1>1, UntouchedStep
<1>2. CASE Rebuilt(r, n, reserved)
  <2> DEFINE ids2 == tables'[r].ids
  <2>1. /\ tables'[r].reserved = reserved /\ tables'[r].max = tables[r].max /\ phase' = phase
        /\ Len(ids2) = RequiredBlocks(n)
        /\ \A i \in 1 .. Len(ids2) : blocks'[ids2[i]] = PrivateBlock(r) /\ content'[ids2[i]] = r
    BY <1>2 DEF Rebuilt
  <2>2. RequiredBlocks(n) \in 1 .. Window
    <3>1. n \in Nat /\ n > 0 /\ n <= Window /\ Window \in Nat
      BY PoolAssumption
    <3> QED
      BY <3>1, RequiredBlocksNext
  <2>3. (r \in Held)'
    BY <2>1 DEF Held
  <2>4. Replaced(r)
    <3>1. Reading(r)' = [i \in 1 .. RequiredBlocks(n) |-> r]
      BY <2>1 DEF Reading
    <3> QED
      BY <2>2, <3>1 DEF Replaced
  <2>5. SharedOf(r)' = {}
    BY <2>1, ResetFields DEF SharedOf, BlocksOf
  <2>6. CurrentTotal(r)' = reserved
    <3>1. CurrentTotal(r)' = reserved + 0
      BY <2>1, <2>5, FS_EmptySet DEF CurrentTotal
    <3> QED
      BY <3>1
  <2>7. CurrentTotal(r) \in Int /\ tables[r].max \in Nat /\ CurrentTotal(r) <= tables[r].max
    BY TableCounts DEF CacheInv, Counted, InBudget
  <2>8. InBudget(r)'
    BY <2>1, <2>2, <2>6, <2>7 DEF InBudget
  <2> QED
    BY <2>3, <2>4, <2>8, StoreStep DEF CacheStep
<1> QED
  BY <1>1, <1>2

\* In place, without a prefix cache.
LEMMA RebuildInPlaceCache ==
    ASSUME CacheInv, NEW r \in Requests, NEW n \in RebuildLengths, RebuildInPlace(r, n)
    PROVE  CacheInv' /\ [Store!Next]_Caches
<1>1. /\ SharingInv' /\ OthersUntouched(r)
      /\ Untouched(r) \/ Rebuilt(r, n, tables[r].reserved)
  BY RebuildInPlaceSharing DEF CacheInv
<1>2. r \in Held /\ RequiredBlocks(n) <= tables[r].reserved
  BY DEF RebuildInPlace, Held
<1>3. tables[r].reserved \in Int /\ tables[r].reserved <= CurrentTotal(r)
  BY TableCounts DEF CacheInv, Counted, CurrentTotal
<1> QED
  BY <1>1, <1>2, <1>3, RebuildCache

\* Detached, with a prefix cache.
LEMMA RebuildDetachedCache ==
    ASSUME CacheInv, NEW r \in Requests, NEW n \in RebuildLengths, RebuildDetached(r, n)
    PROVE  CacheInv' /\ [Store!Next]_Caches
<1>1. /\ SharingInv' /\ OthersUntouched(r)
      /\ Untouched(r) \/ Rebuilt(r, n, CurrentTotal(r))
  BY RebuildDetachedSharing DEF CacheInv
<1>2. r \in Held /\ RequiredBlocks(n) <= CurrentTotal(r)
  BY DEF RebuildDetached, Held
<1>3. CurrentTotal(r) \in Int /\ CurrentTotal(r) <= CurrentTotal(r)
  BY TableCounts DEF CacheInv, Counted
<1> QED
  BY <1>1, <1>2, <1>3, RebuildCache

\* A release closes the cache.
LEMMA ReleaseCache ==
    ASSUME CacheInv, NEW r \in Requests, Release(r)
    PROVE  CacheInv' /\ [Store!Next]_Caches
<1>1. SharingInv /\ SharingInv' /\ OthersUntouched(r)
  BY ReleaseSharing DEF CacheInv
<1>2. tables'[r] = NoTable /\ (r \notin Held)'
  BY <1>1 DEF Release, SharingInv, TypeInv, TypeOK, Held
<1>3. InBudget(r)'
  BY <1>2 DEF InBudget
<1> QED
  BY <1>1, <1>2, <1>3, StoreStep DEF CacheStep

\* A shutdown closes every cache.
LEMMA ReleaseAllCache ==
    ASSUME CacheInv, ReleaseAll
    PROVE  CacheInv' /\ [Store!Next]_Caches
<1>1. SharingInv'
  BY ReleaseAllSharing DEF CacheInv
<1>2. \A r \in Requests : tables'[r] = NoTable /\ (r \notin Held)'
  BY DEF ReleaseAll, Held
<1>3. \A r \in Requests : InBudget(r)' /\ DataWritten(r)'
  BY <1>2, NoTableLength DEF InBudget, DataWritten
<1>4. Caches' = [r \in Requests |-> <<NoHash>>]
  BY <1>2 DEF Caches
<1>5. Store!CloseAll
  BY <1>4 DEF Store!CloseAll, Caches, Reading
<1> QED
  BY <1>1, <1>3, <1>5 DEF CacheInv, Store!Next

-----------------------------------------------------------------------------
(* All steps.                                                               *)

\* Every cache is closed at first.
LEMMA CacheInvInit == Init => CacheInv /\ Store!Init
<1> SUFFICES ASSUME Init PROVE CacheInv /\ Store!Init
  OBVIOUS
<1>1. \A r \in Requests : tables[r] = NoTable /\ r \notin Held
  BY DEF Init, Held
<1>2. \A r \in Requests : InBudget(r) /\ DataWritten(r)
  BY <1>1, NoTableLength DEF InBudget, DataWritten
<1>3. Caches = [r \in Requests |-> <<NoHash>>]
  BY <1>1 DEF Caches
<1>4. Store!Init
  BY <1>3 DEF Store!Init, Caches, Reading
<1> QED
  BY <1>2, <1>4, SharingInvInit DEF CacheInv

\* Every step keeps the budgets and is a step of the store, or does not show.
LEMMA CacheInvNext == CacheInv /\ [Next]_vars => CacheInv' /\ [Store!Next]_Caches
<1> SUFFICES ASSUME CacheInv, [Next]_vars PROVE CacheInv' /\ [Store!Next]_Caches
  OBVIOUS
<1> DEFINE Goal == CacheInv' /\ [Store!Next]_Caches
<1>1. ASSUME NEW r \in Requests, NEW tokens \in 1 .. Window, Reserve(r, tokens) PROVE Goal
  BY <1>1, ReserveCache
<1>2. ASSUME NEW r \in Requests, ReserveWithPrefix(r) PROVE Goal
  BY <1>2, ReserveWithPrefixCache
<1>3. ASSUME NEW r \in Requests, NEW target \in 1 .. NumBlocks, GrowReservation(r, target)
      PROVE  Goal
  BY <1>3, GrowReservationCache
<1>4. ASSUME NEW r \in Requests, NEW n \in 1 .. Window, WritePrefill(r, n) PROVE Goal
  BY <1>4, WritePrefillCache
<1>5. ASSUME NEW r \in Requests, NEW n \in 0 .. Window, WritePrefillSuffix(r, n) PROVE Goal
  BY <1>5, WritePrefillSuffixCache
<1>6. ASSUME NEW r \in Requests, AppendNewBlock(r) PROVE Goal
  BY <1>6, AppendNewBlockCache
<1>7. ASSUME NEW r \in Requests, AppendTail(r) PROVE Goal
  BY <1>7, AppendTailCache
<1>8. ASSUME NEW r \in Requests, ReadBoundaryLogits(r) \/ PromoteRaises(r) PROVE Goal
  BY <1>8, ReadBoundaryLogitsCache
<1>9. ASSUME NEW r \in Requests, Promote(r) PROVE Goal
  BY <1>9, PromoteCache
<1>10. ASSUME NEW r \in Requests, NEW n \in RebuildLengths, RebuildInPlace(r, n) PROVE Goal
  BY <1>10, RebuildInPlaceCache
<1>11. ASSUME NEW r \in Requests, NEW n \in RebuildLengths, RebuildDetached(r, n) PROVE Goal
  BY <1>11, RebuildDetachedCache
<1>12. ASSUME NEW r \in Requests, Release(r) PROVE Goal
  BY <1>12, ReleaseCache
<1>13. ASSUME ReleaseAll PROVE Goal
  BY <1>13, ReleaseAllCache
<1>14. ASSUME UNCHANGED vars PROVE Goal
  <2>1. SharingInv'
    BY <1>14, SharingInvNext DEF CacheInv
  <2>2. Caches' = Caches
    BY <1>14 DEF Caches, Reading, Held, vars
  <2>3. \A r \in Requests : InBudget(r)' /\ DataWritten(r)'
    BY <1>14 DEF CacheInv, InBudget, DataWritten, Held, CurrentTotal, SharedOf, BlocksOf, vars
  <2> QED
    BY <2>1, <2>2, <2>3 DEF CacheInv
<1> HIDE DEF Goal
<1>15. Goal
  BY <1>1, <1>2, <1>3, <1>4, <1>5, <1>6, <1>7, <1>8, <1>9, <1>10, <1>11, <1>12, <1>13, <1>14
  DEF Next
<1> QED
  BY <1>15 DEF Goal

\* The invariant holds in every reachable state.
LEMMA CacheAlways == Spec => []CacheInv
<1>1. Init => CacheInv
  BY CacheInvInit
<1>2. CacheInv /\ [Next]_vars => CacheInv'
  BY CacheInvNext
<1> QED
  BY <1>1, <1>2, PTL DEF Spec

\* What the invariant says of the tables.
LEMMA BudgetsInOrder ==
    ASSUME CacheInv
    PROVE  TablesInOrder
<1> SUFFICES ASSUME NEW r \in Held
             PROVE  /\ Len(tables[r].ids) = RequiredBlocks(tables[r].length)
                    /\ Cardinality(BlocksOf(r)) = Len(tables[r].ids)
                    /\ Cardinality(PrivateOf(r)) <= tables[r].reserved
                    /\ CurrentTotal(r) <= tables[r].max
                    /\ tables[r].length % BlockTokens # 0 =>
                          blocks[tables[r].ids[Len(tables[r].ids)]].state = "private"
  BY DEF TablesInOrder
<1>1. r \in Requests /\ SharingInv
  BY DEF Held, CacheInv
<1>2. Counted(r)
  BY <1>1, TableCounts
<1>3. LengthInOrder(r)
  BY <1>1 DEF SharingInv, TableInOrder
<1>4. Len(tables[r].ids) <= CurrentTotal(r) /\ CurrentTotal(r) <= tables[r].max
  BY <1>1 DEF CacheInv, InBudget
<1>5. Cardinality(PrivateOf(r)) <= tables[r].reserved
  BY <1>2, <1>4 DEF Counted, CurrentTotal
<1> QED
  BY <1>2, <1>3, <1>4, <1>5 DEF Counted, LengthInOrder

\* Free heap, metadata, tables and prefix index agree after every operation,
\* those that failed half way included, and every table has exactly the blocks
\* its length needs, within its reservation and its lifetime maximum
\* (what verify_invariants in paged_kv_cache.py checks, but for the count of
\* protected blocks).
THEOREM PoolStaysConsistent == Spec => []PoolConsistent
<1>1. CacheInv => PoolConsistent
  BY CoherentViews, BudgetsInOrder DEF PoolConsistent, CacheInv
<1> QED
  BY <1>1, CacheAlways, PTL

\* To the model, every request has a cache of its own: block sharing, duplicate
\* replacement, eviction, reuse of freed blocks and calls that raise half way do
\* not show in what gather_batch reads.
THEOREM PrivateCaches == Spec => ImplementsPrivateCaches
<1>1. Init => CacheInv /\ Store!Init
  BY CacheInvInit
<1>2. CacheInv /\ [Next]_vars => CacheInv' /\ [Store!Next]_Caches
  BY CacheInvNext
<1>3. Spec => Store!Init /\ [][Store!Next]_Caches
  BY <1>1, <1>2, PTL DEF Spec
<1>4. Store!Init /\ [][Store!Next]_Caches => Store!Spec
  BY PTL DEF Store!Spec, Caches, Reading
<1> QED
  BY <1>3, <1>4 DEF ImplementsPrivateCaches

-----------------------------------------------------------------------------
(* What is promised.  A call that raised may leave the request that made it *)
(* with more than the pool can protect (an overflow rebuild that fails its  *)
(* last check has committed), but never the others: so count what requests  *)
(* protect that the engine need not release next.                           *)

Trusted == {r \in Requests : engine # MustRelease(r)}

SharedBy(R) == {b \in Blocks : blocks[b].state = "shared" /\ \E r \in R : b \in BlocksOf(r)}
SlotsOf(R) == {s \in ReservedSlots : s[1] \in R}
ProtectedBy(R) == Cardinality(SharedBy(R)) + Cardinality(SlotsOf(R))

MaximaFit == \A r \in Requests : tables[r].max <= NumBlocks

CoverInv == CacheInv /\ MaximaFit /\ ProtectedBy(Trusted) <= NumBlocks

\* What requests protect is a sum of two numbers, which fewer requests do not exceed.
SumsUp(R) ==
    /\ IsFiniteSet(SharedBy(R)) /\ Cardinality(SharedBy(R)) \in Nat
    /\ IsFiniteSet(SlotsOf(R)) /\ Cardinality(SlotsOf(R)) \in Nat
    /\ ProtectedBy(R) \in Nat
    /\ \A S \in SUBSET R : ProtectedBy(S) \in Nat /\ ProtectedBy(S) <= ProtectedBy(R)

\* The two sets are finite.
LEMMA ProtectionFinite ==
    ASSUME NEW R
    PROVE  /\ IsFiniteSet(SharedBy(R)) /\ Cardinality(SharedBy(R)) \in Nat
           /\ IsFiniteSet(SlotsOf(R)) /\ Cardinality(SlotsOf(R)) \in Nat
<1>1. IsFiniteSet(SharedBy(R)) /\ Cardinality(SharedBy(R)) \in Nat
  BY BlockSetCardinality DEF SharedBy
<1>2. IsFiniteSet(Requests \X (1 .. NumBlocks))
  <2>1. IsFiniteSet(Requests) /\ IsFiniteSet(1 .. NumBlocks)
    BY PoolAssumption, FS_Interval
  <2> QED
    BY <2>1, FS_Product
<1>3. SlotsOf(R) \in SUBSET (Requests \X (1 .. NumBlocks))
  BY DEF SlotsOf, ReservedSlots
<1>4. IsFiniteSet(SlotsOf(R)) /\ Cardinality(SlotsOf(R)) \in Nat
  BY <1>2, <1>3, FS_Subset, FS_CardinalityType
<1> QED
  BY <1>1, <1>4

\* They add up.
LEMMA ProtectionType ==
    ASSUME NEW R
    PROVE  SumsUp(R)
<1>1. ASSUME NEW S \in SUBSET R
      PROVE  ProtectedBy(S) \in Nat /\ ProtectedBy(S) <= ProtectedBy(R)
  <2>1. SlotsOf(S) \in SUBSET SlotsOf(R) /\ SharedBy(S) \in SUBSET SharedBy(R)
    BY DEF SlotsOf, SharedBy
  <2>2. /\ IsFiniteSet(SharedBy(R)) /\ Cardinality(SharedBy(R)) \in Nat
        /\ IsFiniteSet(SlotsOf(R)) /\ Cardinality(SlotsOf(R)) \in Nat
        /\ Cardinality(SharedBy(S)) \in Nat /\ Cardinality(SlotsOf(S)) \in Nat
    BY ProtectionFinite
  <2>3. Cardinality(SlotsOf(S)) <= Cardinality(SlotsOf(R))
    BY <2>1, <2>2, FS_Subset
  <2>4. Cardinality(SharedBy(S)) <= Cardinality(SharedBy(R))
    BY <2>1, <2>2, FS_Subset
  <2> QED
    BY <2>2, <2>3, <2>4 DEF ProtectedBy
<1>2. /\ IsFiniteSet(SharedBy(R)) /\ Cardinality(SharedBy(R)) \in Nat
      /\ IsFiniteSet(SlotsOf(R)) /\ Cardinality(SlotsOf(R)) \in Nat
  BY ProtectionFinite
<1> QED
  BY <1>1, <1>2 DEF ProtectedBy, SumsUp

\* A reservation counts as many slots as it is long.
SlotsAdd(r) ==
    tables[r].reserved \in 0 .. NumBlocks =>
       Cardinality(SlotsOf(Requests)) =
          Cardinality(SlotsOf(Requests \ {r})) + tables[r].reserved

\* They do.
LEMMA SlotsOfOne ==
    ASSUME NEW r \in Requests
    PROVE  SlotsAdd(r)
<1> SUFFICES ASSUME tables[r].reserved \in 0 .. NumBlocks
             PROVE  Cardinality(SlotsOf(Requests)) =
                       Cardinality(SlotsOf(Requests \ {r})) + tables[r].reserved
  BY DEF SlotsAdd
<1> DEFINE n == tables[r].reserved
           own == {<<r, i>> : i \in 1 .. n}
           slot == [i \in 1 .. n |-> <<r, i>>]
<1>1. n \in Int /\ n >= 0 /\ n <= NumBlocks /\ NumBlocks \in Nat
  BY PoolAssumption
<1>2. own = {s \in ReservedSlots : s[1] = r}
  BY <1>1 DEF ReservedSlots
<1>3. SlotsOf(Requests) = SlotsOf(Requests \ {r}) \cup own
  BY <1>2 DEF SlotsOf, ReservedSlots
<1>4. SlotsOf(Requests \ {r}) \cap own = {}
  BY DEF SlotsOf
<1>5. IsFiniteSet(own) /\ Cardinality(own) = n
  <2> DEFINE indices == 1 .. n
  <2>1. \A i, j \in indices : slot[i] = slot[j] => i = j
    OBVIOUS
  <2>2. own = {slot[i] : i \in indices}
    OBVIOUS
  <2> HIDE DEF n, own, slot
  <2>3. IsFiniteSet(indices) /\ Cardinality(indices) = n
    <3>1. Cardinality(1 .. n) = IF 1 > n THEN 0 ELSE n - 1 + 1
      BY <1>1, FS_Interval
    <3>2. IsFiniteSet(1 .. n)
      BY <1>1, FS_Interval
    <3> QED
      BY <1>1, <3>1, <3>2
  <2> HIDE DEF indices
  <2>4. IsFiniteSet({slot[i] : i \in indices})
        /\ Cardinality({slot[i] : i \in indices}) = Cardinality(indices)
    BY <2>1, <2>3, ImageCardinality
  <2> QED
    BY <2>2, <2>3, <2>4
<1> HIDE DEF own, n
<1>6. IsFiniteSet(SlotsOf(Requests \ {r})) /\ Cardinality(SlotsOf(Requests \ {r})) \in Nat
  BY ProtectionFinite
<1>7. Cardinality(SlotsOf(Requests \ {r}) \cap own) = 0
  BY <1>4, FS_EmptySet
<1>8. Cardinality(SlotsOf(Requests)) = Cardinality(SlotsOf(Requests \ {r})) + Cardinality(own) - 0
  BY <1>3, <1>5, <1>6, <1>7, FS_Union
<1>9. Cardinality(SlotsOf(Requests)) = Cardinality(SlotsOf(Requests \ {r})) + n
  BY <1>1, <1>5, <1>6, <1>8
<1> QED
  BY <1>9 DEF n

\* The same in the next state.
LEMMA SlotsOfOneNext ==
    ASSUME NEW r \in Requests
    PROVE  SlotsAdd(r)'
<1>1. SlotsAdd(r)
  BY SlotsOfOne
<1> QED
  BY <1>1, PTL

\* The next state's sums are numbers too.
LEMMA ProtectionTypeNext ==
    ASSUME NEW R
    PROVE  SumsUp(R)'
<1>1. SumsUp(R)
  BY ProtectionType
<1> QED
  BY <1>1, PTL

\* The blocks that a reference count protects are those that tables share.
LEMMA ActiveIsShared ==
    ASSUME SharingInv
    PROVE  ActiveShared = SharedBy(Requests) /\ Protected = ProtectedBy(Requests)
<1>1. ASSUME NEW b \in Blocks, blocks[b].state = "shared"
      PROVE  blocks[b].refs > 0 <=> \E r \in Requests : b \in BlocksOf(r)
  <2>1. blocks[b].refs = Cardinality(References(b))
    BY <1>1, CoherentViews DEF RefcountsMatchTables
  <2>2. References(b) \in SUBSET Requests
    BY DEF References
  <2>3. IsFiniteSet(References(b)) /\ Cardinality(References(b)) \in Nat
    BY <2>2, PoolAssumption, FS_Subset, FS_CardinalityType
  <2>4. Cardinality(References(b)) = 0 <=> References(b) = {}
    BY <2>3, FS_EmptySet
  <2> QED
    BY <2>1, <2>3, <2>4 DEF References
<1>2. ActiveShared = SharedBy(Requests)
  BY <1>1 DEF ActiveShared, SharedBy
<1>3. ReservedSlots = SlotsOf(Requests)
  BY DEF ReservedSlots, SlotsOf
<1> QED
  BY <1>2, <1>3 DEF Protected, ProtectedBy

\* The same in the next state.
LEMMA ActiveIsSharedNext == SharingInv' => (Protected = ProtectedBy(Requests))'
<1>1. SharingInv => Protected = ProtectedBy(Requests)
  BY ActiveIsShared
<1> QED
  BY <1>1, PTL

\* A table reserves no more than there are blocks.
WithinPool(r) == CacheInv /\ MaximaFit => tables[r].reserved \in 0 .. NumBlocks

\* None does.
LEMMA ReservedInPool ==
    ASSUME NEW r \in Requests
    PROVE  WithinPool(r)
<1> SUFFICES ASSUME CacheInv, MaximaFit PROVE tables[r].reserved \in 0 .. NumBlocks
  BY DEF WithinPool
<1>1. Counted(r) /\ InBudget(r) /\ tables[r].max <= NumBlocks /\ NumBlocks \in Nat
  BY TableCounts, PoolAssumption DEF CacheInv, MaximaFit
<1>2. CASE r \in Held
  BY <1>1, <1>2 DEF Counted, InBudget, CurrentTotal
<1>3. CASE r \notin Held
  <2>1. tables[r] = NoTable
    BY <1>3 DEF CacheInv, SharingInv, TableInOrder
  <2> QED
    BY <1>1, <2>1 DEF NoTable
<1> QED
  BY <1>2, <1>3

\* The same in the next state.
LEMMA ReservedInPoolNext ==
    ASSUME NEW r \in Requests
    PROVE  WithinPool(r)'
<1>1. WithinPool(r)
  BY ReservedInPool
<1> QED
  BY <1>1, PTL

\* A step of r leaves what the others protect.
LEMMA OthersProtect ==
    ASSUME NEW r \in Requests, OthersUntouched(r), SharingInv
    PROVE  /\ SharedBy(Requests \ {r})' = SharedBy(Requests \ {r})
           /\ SlotsOf(Requests \ {r})' = SlotsOf(Requests \ {r})
<1>1. ASSUME NEW s \in Requests \ {r}
      PROVE  BlocksOf(s)' = BlocksOf(s) /\ tables'[s] = tables[s]
             /\ BlocksOf(s) \in SUBSET Blocks
             /\ \A b \in BlocksOf(s) : blocks'[b].state = blocks[b].state
  <2>1. tables'[s] = tables[s] /\ \A b \in BlocksOf(s) : blocks'[b].state = blocks[b].state
    BY DEF OthersUntouched, Untouched
  <2>2. BlocksOf(s) \in SUBSET Blocks
    BY SharingTypes DEF SharingInv
  <2> QED
    BY <2>1, <2>2 DEF BlocksOf
<1>2. SharedBy(Requests \ {r})' = SharedBy(Requests \ {r})
  BY <1>1 DEF SharedBy
<1>3. SlotsOf(Requests \ {r})' = SlotsOf(Requests \ {r})
  BY <1>1 DEF SlotsOf, ReservedSlots
<1> QED
  BY <1>2, <1>3

\* Whom the engine need not release.
LEMMA TrustedCases ==
    ASSUME NEW r \in Requests
    PROVE  /\ engine = MustRelease(r) => Trusted = Requests \ {r}
           /\ engine = Idle \/ engine = MustPromote(r) => Trusted = Requests
           /\ Trusted \in SUBSET Requests
BY EngineDistinct DEF Trusted

\* The same in the next state.
LEMMA TrustedCasesNext ==
    ASSUME NEW r \in Requests
    PROVE  /\ engine' = MustRelease(r) => Trusted' = Requests \ {r}
           /\ engine' = Idle \/ engine' = MustPromote(r) => Trusted' = Requests
           /\ Trusted' \in SUBSET Requests
BY EngineDistinct DEF Trusted

\* A step of r that raises, after which the engine releases r.
LEMMA RaiseCovered ==
    ASSUME CoverInv, NEW r \in Requests, OthersUntouched(r), CacheInv', engine' = MustRelease(r),
           engine = Idle \/ engine = MustPromote(r), tables'[r].max = tables[r].max
    PROVE  CoverInv'
<1>1. Trusted = Requests /\ Trusted' = Requests \ {r}
  BY TrustedCases, TrustedCasesNext
<1>2. /\ SharedBy(Requests \ {r})' = SharedBy(Requests \ {r})
      /\ SlotsOf(Requests \ {r})' = SlotsOf(Requests \ {r})
  BY OthersProtect DEF CoverInv, CacheInv
<1>3. ProtectedBy(Trusted)' = ProtectedBy(Requests \ {r})
  <2>1. ProtectedBy(Trusted)' = ProtectedBy(Requests \ {r})'
    BY <1>1 DEF ProtectedBy, SharedBy, SlotsOf
  <2> QED
    BY <1>2, <2>1 DEF ProtectedBy
<1>4. ProtectedBy(Requests \ {r}) <= ProtectedBy(Requests) /\ ProtectedBy(Requests \ {r}) \in Nat
      /\ ProtectedBy(Requests) \in Nat
  BY ProtectionType DEF SumsUp
<1>5. ProtectedBy(Requests) <= NumBlocks
  BY <1>1 DEF CoverInv
<1>6. MaximaFit'
  BY DEF CoverInv, MaximaFit, OthersUntouched, Untouched
<1> QED
  BY <1>3, <1>4, <1>5, <1>6, PoolAssumption DEF CoverInv

\* A step of r that protects at most m more: its blocks in X are new to what
\* the tables share, its reservation changes accordingly.
LEMMA GrowthCovered ==
    ASSUME CoverInv, NEW r \in Requests, OthersUntouched(r), CacheInv', MaximaFit',
           NEW X, IsFiniteSet(X), SharedOf(r)' \subseteq SharedBy(Requests) \cup X,
           NEW m \in Int, Cardinality(X) + tables'[r].reserved <= tables[r].reserved + m,
           Trusted = Requests, Protected + m <= NumBlocks, Trusted' = Requests
    PROVE  CoverInv'
<1>1. /\ SharedBy(Requests \ {r})' = SharedBy(Requests \ {r})
      /\ SlotsOf(Requests \ {r})' = SlotsOf(Requests \ {r})
  BY OthersProtect DEF CoverInv, CacheInv
<1>2. SharedBy(Requests)' \in SUBSET (SharedBy(Requests) \cup X)
  <2>1. SharedBy(Requests)' \subseteq SharedBy(Requests \ {r})' \cup SharedOf(r)'
    BY DEF SharedBy, SharedOf
  <2>2. SharedBy(Requests \ {r}) \subseteq SharedBy(Requests)
    BY DEF SharedBy
  <2> QED
    BY <1>1, <2>1, <2>2
<1>3. Cardinality(SharedBy(Requests)') <= Cardinality(SharedBy(Requests)) + Cardinality(X)
  <2>1. IsFiniteSet(SharedBy(Requests)) /\ Cardinality(SharedBy(Requests)) \in Nat
        /\ Cardinality(X) \in Nat
    BY ProtectionFinite, FS_CardinalityType
  <2>2. /\ IsFiniteSet(SharedBy(Requests) \cup X)
        /\ Cardinality(SharedBy(Requests) \cup X) =
              Cardinality(SharedBy(Requests)) + Cardinality(X) - Cardinality(SharedBy(Requests) \cap X)
    BY <2>1, FS_Union
  <2>3. IsFiniteSet(SharedBy(Requests) \cap X)
    BY <2>1, FS_Intersection
  <2>4. Cardinality(SharedBy(Requests) \cap X) \in Nat
    BY <2>3, FS_CardinalityType
  <2>5. /\ Cardinality(SharedBy(Requests)') <= Cardinality(SharedBy(Requests) \cup X)
        /\ IsFiniteSet(SharedBy(Requests)')
    BY <1>2, <2>2, FS_Subset
  <2>6. Cardinality(SharedBy(Requests)') \in Nat
    BY <2>5, FS_CardinalityType
  <2> QED
    BY <2>1, <2>2, <2>4, <2>5, <2>6
<1>4. /\ tables[r].reserved \in Int /\ tables'[r].reserved \in Int
      /\ Cardinality(SlotsOf(Requests)) =
            Cardinality(SlotsOf(Requests \ {r})) + tables[r].reserved
      /\ Cardinality(SlotsOf(Requests)') =
            Cardinality(SlotsOf(Requests \ {r})) + tables'[r].reserved
  <2>1. tables[r].reserved \in 0 .. NumBlocks /\ tables'[r].reserved \in 0 .. NumBlocks
    BY ReservedInPool, ReservedInPoolNext DEF CoverInv, WithinPool
  <2> QED
    BY <1>1, <2>1, SlotsOfOne, SlotsOfOneNext DEF SlotsAdd
<1>5. /\ Cardinality(SharedBy(Requests)) \in Nat /\ Cardinality(SharedBy(Requests)') \in Nat
      /\ Cardinality(SlotsOf(Requests \ {r})) \in Nat /\ Cardinality(X) \in Nat
  BY ProtectionType, ProtectionTypeNext, FS_CardinalityType DEF SumsUp
<1>6. Cardinality(SharedBy(Requests)) + Cardinality(SlotsOf(Requests)) + m <= NumBlocks
  BY ActiveIsShared DEF CoverInv, CacheInv, ProtectedBy
<1>7. Cardinality(SharedBy(Requests)') + Cardinality(SlotsOf(Requests)') <= NumBlocks
  <2> DEFINE a == Cardinality(SharedBy(Requests))
             a2 == Cardinality(SharedBy(Requests)')
             c == Cardinality(SlotsOf(Requests \ {r}))
             x == Cardinality(X)
             t == tables[r].reserved
             t2 == tables'[r].reserved
  <2>1. a \in Nat /\ a2 \in Nat /\ c \in Nat /\ x \in Nat /\ t \in Int /\ t2 \in Int
    BY <1>4, <1>5
  <2>2. a2 <= a + x /\ x + t2 <= t + m /\ a + (c + t) + m <= NumBlocks /\ NumBlocks \in Nat
    BY <1>3, <1>4, <1>6, PoolAssumption
  <2>3. Cardinality(SlotsOf(Requests)') = c + t2
    BY <1>4
  <2> HIDE DEF a, a2, c, x, t, t2
  <2>4. a2 + (c + t2) <= NumBlocks
    BY <2>1, <2>2
  <2> QED
    BY <2>3, <2>4 DEF a2
<1>8. ProtectedBy(Trusted)' = Cardinality(SharedBy(Requests)') + Cardinality(SlotsOf(Requests)')
  BY DEF ProtectedBy, SharedBy, SlotsOf
<1> QED
  BY <1>7, <1>8 DEF CoverInv

\* A step of r that leaves what r shares and has reserved.
LEMMA SameBudgetCovered ==
    ASSUME CoverInv, NEW r \in Requests, OthersUntouched(r), CacheInv', SameBudget(r),
           engine = Idle \/ engine = MustPromote(r),
           engine' \in {Idle, MustPromote(r), MustRelease(r)}
    PROVE  CoverInv'
<1>1. tables'[r].max = tables[r].max
  BY DEF SameBudget
<1>2. CASE engine' = MustRelease(r)
  BY <1>1, <1>2, RaiseCovered
<1>3. CASE engine' # MustRelease(r)
  <2>1. Trusted = Requests /\ Trusted' = Requests
    BY <1>3, TrustedCases, TrustedCasesNext
  <2>2. MaximaFit'
    BY <1>1 DEF CoverInv, MaximaFit, OthersUntouched, Untouched
  <2>3. SharedOf(r)' \subseteq SharedBy(Requests) \cup {}
    <3>1. SharedOf(r) \subseteq SharedBy(Requests)
      BY SharingTypes DEF SharedOf, SharedBy, CoverInv, CacheInv, SharingInv
    <3> QED
      BY <3>1 DEF SameBudget
  <2>4. tables[r].reserved \in Int
    BY ReservedInPool DEF CoverInv, WithinPool
  <2>5. IsFiniteSet({}) /\ Cardinality({}) + tables'[r].reserved <= tables[r].reserved + 0
    BY <2>4, FS_EmptySet DEF SameBudget
  <2>6. Protected + 0 <= NumBlocks
    <3>1. Protected = ProtectedBy(Requests) /\ ProtectedBy(Requests) \in Nat
      BY ActiveIsShared, ProtectionType DEF CoverInv, CacheInv, SumsUp
    <3> QED
      BY <2>1, <3>1 DEF CoverInv
  <2> QED
    BY <2>1, <2>2, <2>3, <2>5, <2>6, GrowthCovered
<1> QED
  BY <1>2, <1>3

\* An idle engine has pending calls for nobody.
LEMMA AllTrusted ==
    ASSUME CoverInv, engine = Idle
    PROVE  Trusted = Requests /\ Protected \in Nat
<1>1. Trusted = Requests
  BY EngineDistinct DEF Trusted
<1>2. Protected \in Nat
  BY ActiveIsShared, ProtectionType DEF CoverInv, CacheInv, SumsUp
<1> QED
  BY <1>1, <1>2

-----------------------------------------------------------------------------
(* Each operation keeps what was promised.                                  *)

\* A private reservation protects what it asked for.
LEMMA ReserveCovered ==
    ASSUME CoverInv, NEW r \in Requests, NEW tokens \in 1 .. Window, Reserve(r, tokens)
    PROVE  CoverInv'
<1>1. CacheInv' /\ SharingInv /\ SharingInv' /\ OthersUntouched(r)
  BY ReserveCache, ReserveSharing DEF CoverInv, CacheInv
<1>2. /\ engine = Idle /\ engine' = Idle /\ r \notin Held
      /\ LifetimeBlocks(r) <= NumBlocks /\ CanProtect(AdmissionBlocks(r, tokens))
      /\ tables'[r].ids = << >> /\ tables'[r].max = LifetimeBlocks(r)
      /\ tables'[r].reserved = AdmissionBlocks(r, tokens)
  BY <1>1 DEF Reserve, SharingInv, TypeInv, TypeOK, TableType, Held, NoTable
<1>3. tables[r].reserved = 0
  <2>1. tables[r] = NoTable
    BY <1>1, <1>2 DEF SharingInv, TableInOrder
  <2> QED
    BY <2>1 DEF NoTable
<1>4. Trusted = Requests /\ Trusted' = Requests
  BY <1>2, TrustedCases, TrustedCasesNext
<1>5. MaximaFit'
  BY <1>1, <1>2 DEF CoverInv, MaximaFit, OthersUntouched, Untouched
<1>6. SharedOf(r)' \subseteq SharedBy(Requests) \cup {}
  BY <1>2 DEF SharedOf, BlocksOf
<1>7. AdmissionBlocks(r, tokens) \in Int
  <2>1. tokens \in Nat
    BY PoolAssumption
  <2> QED
    BY <2>1, DemandType
<1>8. IsFiniteSet({})
      /\ Cardinality({}) + tables'[r].reserved <= tables[r].reserved + AdmissionBlocks(r, tokens)
  BY <1>2, <1>3, <1>7, FS_EmptySet
<1>9. Protected + AdmissionBlocks(r, tokens) <= NumBlocks
  BY <1>2 DEF CanProtect
<1> QED
  BY <1>1, <1>4, <1>5, <1>6, <1>7, <1>8, <1>9, GrowthCovered

\* Growing a reservation protects what it asked for.
LEMMA GrowReservationCovered ==
    ASSUME CoverInv, NEW r \in Requests, NEW target \in 1 .. NumBlocks, GrowReservation(r, target)
    PROVE  CoverInv'
<1> DEFINE m == target - CurrentTotal(r)
<1>1. CacheInv' /\ SharingInv /\ SharingInv' /\ OthersUntouched(r)
  BY GrowReservationCache, GrowReservationSharing DEF CoverInv, CacheInv
<1>2. /\ engine = Idle /\ engine' = Idle /\ blocks' = blocks /\ CanProtect(m)
      /\ tables'[r].ids = tables[r].ids /\ tables'[r].max = tables[r].max
      /\ tables'[r].reserved = tables[r].reserved + target - CurrentTotal(r)
  BY <1>1 DEF GrowReservation, SharingInv, TypeInv, TypeOK, TableType
<1>3. Trusted = Requests /\ Trusted' = Requests
  BY <1>2, TrustedCases, TrustedCasesNext
<1>4. MaximaFit'
  BY <1>1, <1>2 DEF CoverInv, MaximaFit, OthersUntouched, Untouched
<1>5. SharedOf(r)' \subseteq SharedBy(Requests) \cup {}
  <2>1. BlocksOf(r) \in SUBSET Blocks
    BY <1>1, SharingTypes DEF SharingInv
  <2> QED
    BY <1>2, <2>1 DEF SharedOf, SharedBy, BlocksOf
<1>6. m \in Int /\ tables[r].reserved \in Int /\ tables'[r].reserved = tables[r].reserved + m
  <2>1. CurrentTotal(r) \in Int /\ tables[r].reserved \in Int /\ target \in Int
    BY <1>1, TableCounts DEF Counted
  <2> QED
    BY <1>2, <2>1
<1> HIDE DEF m
<1>7. IsFiniteSet({}) /\ Cardinality({}) + tables'[r].reserved <= tables[r].reserved + m
  BY <1>6, FS_EmptySet
<1>8. Protected + m <= NumBlocks
  BY <1>2 DEF CanProtect
<1> QED
  BY <1>1, <1>3, <1>4, <1>5, <1>6, <1>7, <1>8, GrowthCovered

\* Attaching a prefix protects the blocks of it that nobody used, and the rest.
LEMMA ReserveWithPrefixCovered ==
    ASSUME CoverInv, NEW r \in Requests, ReserveWithPrefix(r)
    PROVE  CoverInv'
<1>1. CacheInv' /\ SharingInv /\ SharingInv' /\ OthersUntouched(r)
  BY ReserveWithPrefixCache, ReserveWithPrefixSharing DEF CoverInv, CacheInv
<1>2. PICK k \in 0 .. Len(Chain[r]) :
         LET hit == [i \in 1 .. k |-> prefixIndex[Chain[r][i]]]
             private == AdmissionBlocks(r, PromptLen[r]) - k
         IN  /\ LongestPrefix(r, k)
             /\ private >= 0
             /\ CanProtect(Cardinality(NewlyActive(hit)) + private)
             /\ tables' = [tables EXCEPT ![r] =
                   [ids |-> hit, length |-> k * BlockTokens,
                    reserved |-> private, max |-> LifetimeBlocks(r)]]
  BY DEF ReserveWithPrefix
<1> DEFINE hit == [i \in 1 .. k |-> prefixIndex[Chain[r][i]]]
           private == AdmissionBlocks(r, PromptLen[r]) - k
           new == NewlyActive(hit)
           X == {hit[i] : i \in new}
<1>3. /\ engine = Idle /\ engine' = Idle /\ r \notin Held /\ LifetimeBlocks(r) <= NumBlocks
      /\ tables'[r].ids = hit /\ tables'[r].max = LifetimeBlocks(r)
      /\ tables'[r].reserved = private
      /\ CanProtect(Cardinality(new) + private)
      /\ \A i \in 1 .. k : hit[i] # NoBlock
  <2>1. tables \in [Requests -> TableType]
    BY <1>1 DEF SharingInv, TypeInv, TypeOK
  <2>2. /\ CanProtect(Cardinality(new) + private)
        /\ tables' = [tables EXCEPT ![r] =
                   [ids |-> hit, length |-> k * BlockTokens,
                    reserved |-> private, max |-> LifetimeBlocks(r)]]
        /\ \A i \in 1 .. k : hit[i] # NoBlock
    BY <1>2 DEF LongestPrefix
  <2>3. engine = Idle /\ engine' = Idle /\ r \notin Held /\ LifetimeBlocks(r) <= NumBlocks
    BY DEF ReserveWithPrefix, Held
  <2> HIDE DEF hit, private, new
  <2> QED
    BY <2>1, <2>2, <2>3
<1>4. k \in Nat /\ private \in Int
  <2>1. PromptLen[r] \in Nat
    BY PoolAssumption
  <2> QED
    BY <2>1, ChainType, DemandType
<1>5. Len(hit) = k /\ new \in SUBSET (1 .. k)
  BY <1>4 DEF NewlyActive
<1>6. ASSUME NEW i \in 1 .. k
      PROVE  /\ hit[i] \in Blocks /\ blocks[hit[i]].state = "shared"
             /\ i \notin new => hit[i] \in SharedBy(Requests)
  <2>1. Chain[r][i] \in Hashes
    BY ChainType
  <2>2. hit[i] = prefixIndex[Chain[r][i]] /\ hit[i] # NoBlock
    BY <1>3
  <2>3. hit[i] \in Blocks
    BY <1>1, <2>1, <2>2 DEF SharingInv, TypeInv, TypeOK
  <2>4. blocks[hit[i]].state = "shared"
    BY <1>1, <2>1, <2>2, CoherentViews DEF CanonicalIndex
  <2>5. blocks[hit[i]].refs \in Nat
    <3>1. blocks[hit[i]].refs = Cardinality(References(hit[i]))
      BY <1>1, <2>3, <2>4, CoherentViews DEF RefcountsMatchTables
    <3>2. References(hit[i]) \in SUBSET Requests
      BY DEF References
    <3> QED
      BY <3>1, <3>2, PoolAssumption, FS_Subset, FS_CardinalityType
  <2>6. ASSUME i \notin new PROVE hit[i] \in SharedBy(Requests)
    <3>1. blocks[hit[i]].refs # 0
      BY <1>5, <2>6 DEF NewlyActive
    <3>2. hit[i] \in ActiveShared
      BY <2>3, <2>4, <2>5, <3>1 DEF ActiveShared
    <3> QED
      BY <1>1, <3>2, ActiveIsShared
  <2> QED
    BY <2>3, <2>4, <2>6
<1>7. IsFiniteSet(new)
  <2>1. IsFiniteSet(1 .. k)
    BY <1>4, FS_Interval
  <2> HIDE DEF new
  <2> QED
    BY <1>5, <2>1, FS_Subset
<1> HIDE DEF hit, private, new
<1>8. IsFiniteSet(X) /\ Cardinality(X) = Cardinality(new)
  <2>1. \A i, j \in 1 .. Len(hit) : hit[i] = hit[j] => i = j
    BY <1>1, <1>3 DEF SharingInv, TableInOrder, IdsDistinct
  <2>2. \A i, j \in new : hit[i] = hit[j] => i = j
    BY <1>5, <2>1
  <2> QED
    BY <1>7, <2>2, ImageCardinality
<1>9. SharedOf(r)' \subseteq SharedBy(Requests) \cup X
  <2>1. BlocksOf(r)' = {hit[i] : i \in 1 .. k}
    BY <1>3, <1>5 DEF BlocksOf
  <2> QED
    BY <1>6, <2>1 DEF SharedOf
<1>10. tables[r].reserved = 0
  <2>1. tables[r] = NoTable
    BY <1>1, <1>3 DEF SharingInv, TableInOrder
  <2> QED
    BY <2>1 DEF NoTable
<1>11. Trusted = Requests /\ Trusted' = Requests
  BY <1>3, TrustedCases, TrustedCasesNext
<1>12. MaximaFit'
  BY <1>1, <1>3 DEF CoverInv, MaximaFit, OthersUntouched, Untouched
<1>13. Cardinality(new) \in Nat
  BY <1>7, FS_CardinalityType
<1> DEFINE m == Cardinality(new) + private
<1>14. m \in Int /\ Cardinality(X) + tables'[r].reserved <= tables[r].reserved + m
  BY <1>3, <1>4, <1>8, <1>10, <1>13
<1>15. Protected + m <= NumBlocks
  BY <1>3 DEF CanProtect
<1> HIDE DEF m, X
<1> QED
  BY <1>1, <1>8, <1>9, <1>11, <1>12, <1>14, <1>15, GrowthCovered

\* Promotion shares what was reserved, one for one.
LEMMA PromoteCovered ==
    ASSUME CoverInv, NEW r \in Requests, Promote(r)
    PROVE  CoverInv'
<1> DEFINE ids == tables[r].ids
           ids2 == tables'[r].ids
           computed == prefixHit[r] + 1 .. Len(Chain[r])
           X == {ids2[i] : i \in computed}
<1>1. CacheInv' /\ SharingInv /\ SharingInv' /\ OthersUntouched(r)
  BY PromoteCache, PromoteSharing DEF CoverInv, CacheInv
<1>2. /\ Len(ids2) = Len(ids) /\ computed \subseteq 1 .. Len(ids)
      /\ PrivateOf(r)' = PrivateOf(r) \ {ids[i] : i \in computed}
  BY <1>1, PromoteSharing
<1>3. /\ engine = MustPromote(r) /\ engine' = Idle
      /\ tables'[r].reserved = tables[r].reserved - Cardinality(computed)
      /\ tables'[r].max = tables[r].max
      /\ \A i \in 1 .. Len(ids) : i \notin computed => ids2[i] = ids[i]
  <2> DEFINE dup == computed \ {i \in computed : prefixIndex[Chain[r][i]] = NoBlock}
             swapped == [i \in 1 .. Len(ids) |->
                           IF i \in dup THEN prefixIndex[Chain[r][i]] ELSE ids[i]]
  <2>1. /\ engine = MustPromote(r) /\ engine' = Idle
        /\ tables' = [tables EXCEPT ![r].ids = swapped, ![r].reserved = @ - Cardinality(computed)]
    BY DEF Promote
  <2>2. tables \in [Requests -> TableType]
    BY <1>1 DEF SharingInv, TypeInv, TypeOK
  <2>3. \A i \in 1 .. Len(ids) : i \notin computed => swapped[i] = ids[i]
    OBVIOUS
  <2> HIDE DEF swapped, computed
  <2>4. ids2 = swapped
    BY <2>1, <2>2 DEF TableType
  <2> QED
    BY <2>1, <2>2, <2>3, <2>4 DEF TableType
<1>4. IsFiniteSet(computed) /\ Cardinality(computed) \in Nat
  <2>1. prefixHit[r] + 1 \in Int /\ Len(Chain[r]) \in Int
    BY <1>1, ChainType DEF SharingInv, TypeInv, TypeOK
  <2> QED
    BY <2>1, FS_Interval, FS_CardinalityType
<1>5. \A i, j \in 1 .. Len(ids) : ids[i] = ids[j] => i = j
  BY <1>1 DEF SharingInv, TableInOrder, IdsDistinct
<1>6. \A i, j \in 1 .. Len(ids) : ids2[i] = ids2[j] => i = j
  BY <1>1, <1>2 DEF SharingInv, TableInOrder, IdsDistinct
<1>7. /\ BlocksOf(r)' = {ids2[i] : i \in 1 .. Len(ids)}
      /\ \A i \in 1 .. Len(ids) : ids[i] \in BlocksOf(r) /\ ids[i] \in Blocks
  BY <1>1, <1>2, SharingTypes DEF BlocksOf, SharingInv
<1> HIDE DEF ids, ids2, computed
<1>8. IsFiniteSet(X) /\ Cardinality(X) = Cardinality(computed)
  <2>1. \A i, j \in computed : ids2[i] = ids2[j] => i = j
    BY <1>2, <1>6
  <2> QED
    BY <1>4, <2>1, ImageCardinality
<1>9. SharedOf(r)' \subseteq SharedBy(Requests) \cup X
  <2>1. SUFFICES ASSUME NEW b \in SharedOf(r)', b \notin X PROVE b \in SharedBy(Requests)
    OBVIOUS
  <2>2. b \in BlocksOf(r)' /\ blocks'[b].state = "shared"
    BY DEF SharedOf
  <2>3. PICK i \in 1 .. Len(ids) : b = ids2[i]
    BY <1>7, <2>2
  <2>4. i \notin computed /\ b = ids[i] /\ b \in BlocksOf(r) /\ b \in Blocks
    BY <1>3, <1>7, <2>1, <2>3
  <2>5. b \notin {ids[j] : j \in computed}
    BY <1>2, <1>5, <2>4
  <2>6. blocks[b].state # "private"
    <3>1. b \notin PrivateOf(r)'
      BY <2>2 DEF PrivateOf
    <3> QED
      BY <1>2, <2>4, <2>5, <3>1 DEF PrivateOf
  <2>7. blocks[b].state = "shared"
    BY <1>1, <2>4, <2>6, BlockInTable
  <2> QED
    BY <2>4, <2>7 DEF SharedBy
<1>10. Trusted = Requests /\ Trusted' = Requests
  BY <1>3, TrustedCases, TrustedCasesNext
<1>11. MaximaFit'
  BY <1>1, <1>3 DEF CoverInv, MaximaFit, OthersUntouched, Untouched
<1>12. Cardinality(X) + tables'[r].reserved <= tables[r].reserved + 0
  <2>1. tables[r].reserved \in Int
    BY ReservedInPool DEF CoverInv, WithinPool
  <2> QED
    BY <1>3, <1>4, <1>8, <2>1
<1>13. Protected + 0 <= NumBlocks
  <2>1. Protected = ProtectedBy(Requests) /\ ProtectedBy(Requests) \in Nat
    BY <1>1, ActiveIsShared, ProtectionType DEF SumsUp
  <2> QED
    BY <1>10, <2>1 DEF CoverInv
<1> HIDE DEF X
<1> QED
  BY <1>1, <1>8, <1>9, <1>10, <1>11, <1>12, <1>13, GrowthCovered

\* Dropping a table gives back what it protected.
LEMMA ReleaseCovered ==
    ASSUME CoverInv, NEW r \in Requests, Release(r)
    PROVE  CoverInv'
<1>1. CacheInv' /\ SharingInv /\ SharingInv' /\ OthersUntouched(r)
  BY ReleaseCache, ReleaseSharing DEF CoverInv, CacheInv
<1>2. /\ engine \in {Idle, MustRelease(r)} /\ engine' = Idle /\ tables'[r] = NoTable
  BY <1>1 DEF Release, SharingInv, TypeInv, TypeOK
<1>3. MaximaFit'
  <2>1. tables'[r].max = 0 /\ 0 <= NumBlocks
    BY <1>2, PoolAssumption DEF NoTable
  <2> QED
    BY <1>1, <2>1 DEF CoverInv, MaximaFit, OthersUntouched, Untouched
<1>4. Trusted' = Requests /\ Requests \ {r} \subseteq Trusted
  BY <1>2, TrustedCases, TrustedCasesNext
<1>5. SharedBy(Requests)' = SharedBy(Requests \ {r}) /\ SlotsOf(Requests)' = SlotsOf(Requests \ {r})
  <2>1. /\ SharedBy(Requests \ {r})' = SharedBy(Requests \ {r})
        /\ SlotsOf(Requests \ {r})' = SlotsOf(Requests \ {r})
    BY <1>1, OthersProtect
  <2>2. BlocksOf(r)' = {} /\ tables'[r].reserved = 0
    BY <1>2 DEF BlocksOf, NoTable
  <2>3. SharedBy(Requests)' = SharedBy(Requests \ {r})'
    BY <2>2 DEF SharedBy
  <2>4. SlotsOf(Requests)' = SlotsOf(Requests \ {r})'
    BY <2>2 DEF SlotsOf, ReservedSlots
  <2> QED
    BY <2>1, <2>3, <2>4
<1>6. ProtectedBy(Trusted)' = ProtectedBy(Requests \ {r})
  <2>1. ProtectedBy(Trusted)' = Cardinality(SharedBy(Requests)') + Cardinality(SlotsOf(Requests)')
    BY <1>4 DEF ProtectedBy, SharedBy, SlotsOf
  <2> QED
    BY <1>5, <2>1 DEF ProtectedBy
<1>7. /\ ProtectedBy(Requests \ {r}) \in Nat /\ ProtectedBy(Trusted) \in Nat
      /\ ProtectedBy(Requests \ {r}) <= ProtectedBy(Trusted)
  BY <1>4, ProtectionType DEF SumsUp
<1> QED
  BY <1>1, <1>3, <1>6, <1>7, PoolAssumption DEF CoverInv

\* After a shutdown nothing is protected.
LEMMA ReleaseAllCovered ==
    ASSUME CoverInv, ReleaseAll
    PROVE  CoverInv'
<1>1. CacheInv'
  BY ReleaseAllCache DEF CoverInv
<1>2. \A r \in Requests : tables'[r] = NoTable
  BY DEF ReleaseAll
<1>3. \A r \in Requests : BlocksOf(r)' = {} /\ tables'[r].reserved = 0 /\ tables'[r].max = 0
  BY <1>2 DEF BlocksOf, NoTable
<1>4. MaximaFit'
  BY <1>3, PoolAssumption DEF MaximaFit
<1>5. SharedBy(Trusted)' = {} /\ SlotsOf(Trusted)' = {}
  BY <1>3 DEF SharedBy, SlotsOf, ReservedSlots, Trusted
<1>6. ProtectedBy(Trusted)' = 0
  BY <1>5, FS_EmptySet DEF ProtectedBy
<1> QED
  BY <1>1, <1>4, <1>6, PoolAssumption DEF CoverInv

\* A rebuild that leaves r served has just found the protected blocks to fit.
LEMMA RebuildDetachedCovered ==
    ASSUME CoverInv, NEW r \in Requests, NEW n \in RebuildLengths, RebuildDetached(r, n)
    PROVE  CoverInv'
<1>1. /\ CacheInv' /\ SharingInv /\ SharingInv' /\ OthersUntouched(r)
      /\ Untouched(r) \/ Rebuilt(r, n, CurrentTotal(r))
  BY RebuildDetachedCache, RebuildDetachedSharing DEF CoverInv, CacheInv
<1>2. engine = Idle /\ (engine' = MustRelease(r) \/ (engine' = Idle /\ Protected' <= NumBlocks))
  BY DEF RebuildDetached
<1>3. tables'[r].max = tables[r].max
  BY <1>1 DEF Untouched, Rebuilt
<1>4. CASE engine' = MustRelease(r)
  BY <1>1, <1>2, <1>3, <1>4, RaiseCovered
<1>5. CASE engine' = Idle /\ Protected' <= NumBlocks
  <2>1. MaximaFit'
    BY <1>1, <1>3 DEF CoverInv, MaximaFit, OthersUntouched, Untouched
  <2>2. Trusted' = Requests
    BY <1>5, TrustedCasesNext
  <2>3. Protected' = ProtectedBy(Requests)'
    BY <1>1, ActiveIsSharedNext
  <2>4. ProtectedBy(Trusted)' = ProtectedBy(Requests)'
    BY <2>2 DEF ProtectedBy, SharedBy, SlotsOf
  <2> QED
    BY <1>1, <1>5, <2>1, <2>3, <2>4 DEF CoverInv
<1> QED
  BY <1>2, <1>4, <1>5

\* A rebuild in place keeps the reservation, and shares nothing before or after.
LEMMA RebuildInPlaceCovered ==
    ASSUME CoverInv, NEW r \in Requests, NEW n \in RebuildLengths, RebuildInPlace(r, n)
    PROVE  CoverInv'
<1>1. /\ CacheInv' /\ SharingInv /\ SharingInv' /\ OthersUntouched(r)
      /\ Untouched(r) \/ Rebuilt(r, n, tables[r].reserved)
  BY RebuildInPlaceCache, RebuildInPlaceSharing DEF CoverInv, CacheInv
<1>2. engine = Idle /\ engine' \in {Idle, MustRelease(r)} /\ ~PrefixEnabled
  BY DEF RebuildInPlace
<1>3. SharedOf(r) = {} /\ SharedOf(r)' = {}
  <2>1. SharedOf(r) = {}
    BY <1>1, <1>2, SharingTypes DEF SharedOf, SharingInv, NothingShared
  <2>2. ASSUME Untouched(r) PROVE SharedOf(r)' = SharedOf(r)
    BY <2>2 DEF Untouched, SharedOf, BlocksOf
  <2>3. ASSUME Rebuilt(r, n, tables[r].reserved) PROVE SharedOf(r)' = {}
    BY <2>3, ResetFields DEF Rebuilt, SharedOf, BlocksOf
  <2> QED
    BY <1>1, <2>1, <2>2, <2>3
<1>4. SameBudget(r)
  BY <1>1, <1>3 DEF SameBudget, Untouched, Rebuilt
<1> QED
  BY <1>1, <1>2, <1>4, SameBudgetCovered

\* The calls that write keep what is reserved.
LEMMA WritesCovered ==
    ASSUME CoverInv, NEW r \in Requests,
           \/ \E n \in 1 .. Window : WritePrefill(r, n)
           \/ \E n \in 0 .. Window : WritePrefillSuffix(r, n)
           \/ AppendNewBlock(r)
    PROVE  CoverInv'
<1>1. /\ CacheInv' /\ SameBudget(r) /\ OthersUntouched(r)
  BY WritePrefillCache, WritePrefillSharing, WritePrefillSuffixCache, WritePrefillSuffixSharing,
     AppendNewBlockCache, AppendNewBlockSharing DEF CoverInv, CacheInv
<1>2. engine = Idle /\ engine' \in {Idle, MustPromote(r), MustRelease(r)}
  <2>1. ASSUME NEW n \in 1 .. Window, WritePrefill(r, n)
        PROVE  engine = Idle /\ engine' \in {Idle, MustRelease(r)}
    BY <2>1 DEF WritePrefill, WriteNewBlocks, Outcomes
  <2>2. ASSUME NEW n \in 0 .. Window, WritePrefillSuffix(r, n)
        PROVE  engine = Idle /\ engine' \in {Idle, MustPromote(r), MustRelease(r)}
    <3>1. \E next \in {Idle, MustPromote(r), MustRelease(r)} : engine' = next
      BY <2>2 DEF WritePrefillSuffix, WriteNewBlocks, Outcomes
    <3> QED
      BY <2>2, <3>1 DEF WritePrefillSuffix
  <2>3. ASSUME AppendNewBlock(r)
        PROVE  engine = Idle /\ engine' \in {Idle, MustRelease(r)}
    BY <2>3 DEF AppendNewBlock, WriteNewBlocks, Outcomes
  <2> QED
    BY <2>1, <2>2, <2>3
<1> QED
  BY <1>1, <1>2, SameBudgetCovered

\* So do those that change no table but its length.
LEMMA TouchesCovered ==
    ASSUME CoverInv, NEW r \in Requests,
           AppendTail(r) \/ ReadBoundaryLogits(r) \/ PromoteRaises(r)
    PROVE  CoverInv'
<1>1. CacheInv' /\ SharingInv /\ SharingInv' /\ OthersUntouched(r)
  BY AppendTailCache, AppendTailSharing, ReadBoundaryLogitsCache, ReadBoundaryLogitsSharing,
     PromoteRaisesSharing DEF CoverInv, CacheInv
<1>2. \/ blocks' = blocks /\ tables'[r].ids = tables[r].ids
         /\ tables'[r].max = tables[r].max /\ tables'[r].reserved = tables[r].reserved
      \/ Untouched(r)
  <2>1. CASE AppendTail(r)
    BY <1>1, <2>1 DEF AppendTail, SharingInv, TypeInv, TypeOK, TableType
  <2>2. CASE ReadBoundaryLogits(r) \/ PromoteRaises(r)
    BY <1>1, <2>2, ReadBoundaryLogitsSharing, PromoteRaisesSharing
  <2> QED
    BY <2>1, <2>2
<1>3. SameBudget(r)
  BY <1>2 DEF SameBudget, SharedOf, BlocksOf, Untouched
<1>4. /\ engine = Idle \/ engine = MustPromote(r)
      /\ engine' \in {Idle, MustPromote(r), MustRelease(r)}
  BY DEF AppendTail, ReadBoundaryLogits, PromoteRaises
<1> QED
  BY <1>1, <1>3, <1>4, SameBudgetCovered

-----------------------------------------------------------------------------
(* All of them.                                                             *)

\* An empty pool has promised nothing.
LEMMA CoverInvInit == Init => CoverInv
<1> SUFFICES ASSUME Init PROVE CoverInv
  OBVIOUS
<1>1. CacheInv
  BY CacheInvInit
<1>2. \A r \in Requests : tables[r] = NoTable
  BY DEF Init
<1>3. \A r \in Requests : BlocksOf(r) = {} /\ tables[r].reserved = 0 /\ tables[r].max = 0
  BY <1>2 DEF BlocksOf, NoTable
<1>4. MaximaFit
  BY <1>3, PoolAssumption DEF MaximaFit
<1>5. SharedBy(Trusted) = {} /\ SlotsOf(Trusted) = {}
  BY <1>3 DEF SharedBy, SlotsOf, ReservedSlots, Trusted
<1>6. ProtectedBy(Trusted) = 0
  BY <1>5, FS_EmptySet DEF ProtectedBy
<1> QED
  BY <1>1, <1>4, <1>6, PoolAssumption DEF CoverInv

\* Every step keeps the promises.
LEMMA CoverInvNext == CoverInv /\ [Next]_vars => CoverInv'
<1> SUFFICES ASSUME CoverInv, [Next]_vars PROVE CoverInv'
  OBVIOUS
<1>1. ASSUME NEW r \in Requests, NEW tokens \in 1 .. Window, Reserve(r, tokens) PROVE CoverInv'
  BY <1>1, ReserveCovered
<1>2. ASSUME NEW r \in Requests, ReserveWithPrefix(r) PROVE CoverInv'
  BY <1>2, ReserveWithPrefixCovered
<1>3. ASSUME NEW r \in Requests, NEW target \in 1 .. NumBlocks, GrowReservation(r, target)
      PROVE  CoverInv'
  BY <1>3, GrowReservationCovered
<1>4. ASSUME NEW r \in Requests,
             \/ \E n \in 1 .. Window : WritePrefill(r, n)
             \/ \E n \in 0 .. Window : WritePrefillSuffix(r, n)
             \/ AppendNewBlock(r)
      PROVE  CoverInv'
  BY <1>4, WritesCovered
<1>5. ASSUME NEW r \in Requests, AppendTail(r) \/ ReadBoundaryLogits(r) \/ PromoteRaises(r)
      PROVE  CoverInv'
  BY <1>5, TouchesCovered
<1>6. ASSUME NEW r \in Requests, Promote(r) PROVE CoverInv'
  BY <1>6, PromoteCovered
<1>7. ASSUME NEW r \in Requests, NEW n \in RebuildLengths, RebuildInPlace(r, n) PROVE CoverInv'
  BY <1>7, RebuildInPlaceCovered
<1>8. ASSUME NEW r \in Requests, NEW n \in RebuildLengths, RebuildDetached(r, n) PROVE CoverInv'
  BY <1>8, RebuildDetachedCovered
<1>9. ASSUME NEW r \in Requests, Release(r) PROVE CoverInv'
  BY <1>9, ReleaseCovered
<1>10. ASSUME ReleaseAll PROVE CoverInv'
  BY <1>10, ReleaseAllCovered
<1>11. ASSUME UNCHANGED vars PROVE CoverInv'
  <2>1. CacheInv'
    BY <1>11, CacheInvNext DEF CoverInv
  <2> QED
    BY <1>11, <2>1
    DEF CoverInv, MaximaFit, ProtectedBy, SharedBy, SlotsOf, ReservedSlots, Trusted, BlocksOf, vars
<1> QED
  BY <1>1, <1>2, <1>3, <1>4, <1>5, <1>6, <1>7, <1>8, <1>9, <1>10, <1>11 DEF Next

\* The promises hold in every reachable state.
LEMMA CoverAlways == Spec => []CoverInv
<1> QED
  BY CoverInvInit, CoverInvNext, PTL DEF Spec

\* What is not protected is free or can be evicted.
LEMMA BlocksPartition ==
    ASSUME SharingInv
    PROVE  /\ Cardinality(free) \in Nat /\ Cardinality(EvictableIn(blocks)) \in Nat
           /\ Cardinality(ActiveShared) \in Nat
           /\ Cardinality({b \in Blocks : blocks[b].state = "private"}) \in Nat
           /\ Cardinality(free) + Cardinality(EvictableIn(blocks)) + Cardinality(ActiveShared)
                + Cardinality({b \in Blocks : blocks[b].state = "private"}) = NumBlocks
<1> DEFINE private == {b \in Blocks : blocks[b].state = "private"}
           evictable == EvictableIn(blocks)
           shared == {b \in Blocks : blocks[b].state = "shared"}
<1>1. free = {b \in Blocks : blocks[b].state = "free"}
  BY CoherentViews DEF BlockOwnership
<1>2. \A b \in Blocks : blocks[b].state \in {"free", "private", "shared"}
  BY DEF SharingInv, TypeInv, TypeOK, BlockType
<1>3. ASSUME NEW b \in shared PROVE blocks[b].refs \in Nat
  <2>1. blocks[b].refs = Cardinality(References(b))
    BY CoherentViews DEF RefcountsMatchTables
  <2>2. References(b) \in SUBSET Requests
    BY DEF References
  <2> QED
    BY <2>1, <2>2, PoolAssumption, FS_Subset, FS_CardinalityType
<1>4. /\ free \in SUBSET Blocks /\ private \in SUBSET Blocks /\ evictable \in SUBSET Blocks
      /\ ActiveShared \in SUBSET Blocks
      /\ shared = evictable \cup ActiveShared /\ evictable \cap ActiveShared = {}
      /\ (free \cup private) \cap shared = {} /\ free \cap private = {}
      /\ (free \cup private) \cup shared = Blocks
  BY <1>1, <1>2, <1>3 DEF EvictableIn, ActiveShared
<1>5. /\ IsFiniteSet(free) /\ IsFiniteSet(private) /\ IsFiniteSet(evictable)
      /\ IsFiniteSet(ActiveShared)
      /\ Cardinality(free) \in Nat /\ Cardinality(private) \in Nat
      /\ Cardinality(evictable) \in Nat /\ Cardinality(ActiveShared) \in Nat
  BY <1>4, BlockSetCardinality
<1> HIDE DEF private, evictable, shared
<1>6. IsFiniteSet(free \cup private)
      /\ Cardinality(free \cup private) = Cardinality(free) + Cardinality(private)
  <2>1. Cardinality(free \cap private) = 0
    BY <1>4, FS_EmptySet
  <2>2. /\ IsFiniteSet(free \cup private)
        /\ Cardinality(free \cup private) =
              Cardinality(free) + Cardinality(private) - Cardinality(free \cap private)
    BY <1>5, FS_Union
  <2> QED
    BY <1>5, <2>1, <2>2
<1>7. IsFiniteSet(shared) /\ Cardinality(shared) = Cardinality(evictable) + Cardinality(ActiveShared)
  <2>1. Cardinality(evictable \cap ActiveShared) = 0
    BY <1>4, FS_EmptySet
  <2>2. /\ IsFiniteSet(evictable \cup ActiveShared)
        /\ Cardinality(evictable \cup ActiveShared) =
              Cardinality(evictable) + Cardinality(ActiveShared) - Cardinality(evictable \cap ActiveShared)
    BY <1>5, FS_Union
  <2> QED
    BY <1>4, <1>5, <2>1, <2>2
<1>8. Cardinality(Blocks) = Cardinality(free \cup private) + Cardinality(shared)
  <2>1. Cardinality((free \cup private) \cap shared) = 0
    BY <1>4, FS_EmptySet
  <2>2. Cardinality((free \cup private) \cup shared) =
           Cardinality(free \cup private) + Cardinality(shared)
             - Cardinality((free \cup private) \cap shared)
    BY <1>6, <1>7, FS_Union
  <2>3. Cardinality(free \cup private) \in Nat /\ Cardinality(shared) \in Nat
    BY <1>5, <1>6, <1>7
  <2> QED
    BY <1>4, <2>1, <2>2, <2>3
<1>9. Cardinality(Blocks) = NumBlocks
  <2>1. NumBlocks \in Nat \ {0} /\ 0 \in Int /\ NumBlocks - 1 \in Int
    BY PoolAssumption
  <2>2. Cardinality(0 .. NumBlocks - 1) = IF 0 > NumBlocks - 1 THEN 0 ELSE NumBlocks - 1 - 0 + 1
    BY <2>1, FS_Interval
  <2> QED
    BY <2>1, <2>2 DEF Blocks
<1>10. Cardinality(free) + Cardinality(evictable) + Cardinality(ActiveShared)
          + Cardinality(private) = NumBlocks
  BY <1>5, <1>6, <1>7, <1>8, <1>9
<1> QED
  BY <1>5, <1>10 DEF private, evictable

\* What was promised at admission can be had, in every reachable state and for
\* every pool: when the engine may call next, the blocks that tables share and
\* those still reserved fit in the pool together (can_reserve), and what is
\* reserved and not yet used is free or evictable, so that _acquire_blocks
\* finds it.
THEOREM ReservationsHold == Spec => []ReservationsCovered
<1>1. CoverInv => ReservationsCovered
  <2> SUFFICES ASSUME CoverInv PROVE ReservationsCovered
    OBVIOUS
  <2>1. ASSUME engine = Idle PROVE Protected <= NumBlocks
    <3>1. Trusted = Requests
      BY <2>1, AllTrusted
    <3> QED
      BY <3>1, ActiveIsShared DEF CoverInv, CacheInv
  <2>2. ASSUME engine = Idle
        PROVE  Cardinality(free) + Cardinality(EvictableIn(blocks)) >=
                 Cardinality(ReservedSlots)
                   - Cardinality({b \in Blocks : blocks[b].state = "private"})
    <3>1. Cardinality(ActiveShared) + Cardinality(ReservedSlots) <= NumBlocks
      BY <2>1, <2>2 DEF Protected
    <3>2. Cardinality(ReservedSlots) \in Nat
      <4>1. SlotsOf(Requests) = ReservedSlots
        BY DEF SlotsOf, ReservedSlots
      <4> QED
        BY <4>1, ProtectionFinite
    <3>3. SharingInv /\ NumBlocks \in Nat
      BY PoolAssumption DEF CoverInv, CacheInv
    <3> QED
      BY <3>1, <3>2, <3>3, BlocksPartition
  <2> QED
    BY <2>1, <2>2 DEF ReservationsCovered, ProtectedWithinPool, ReservationsHonoured
<1> QED
  BY <1>1, CoverAlways, PTL
=============================================================================
