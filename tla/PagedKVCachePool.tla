-------------------------- MODULE PagedKVCachePool --------------------------
(***************************************************************************)
(* The paged KV-cache pool of miniGPT (src/minigpt/paged_kv_cache.py): a    *)
(* fixed set of physical K/V blocks, one block table and one reservation    *)
(* per admitted request, and the automatic prefix cache, which shares       *)
(* complete prompt blocks between requests and evicts unreferenced ones in  *)
(* least-recently-used order.                                               *)
(*                                                                          *)
(* The pool is owned by one thread, so each public method is one atomic     *)
(* action.  The hard part is not interleaving but accounting: reservations, *)
(* reference counts, the prefix index and the free heap are four views of   *)
(* the same blocks, updated by long methods that can raise half way.        *)
(*                                                                          *)
(* K/V tensors are abstracted to a tag: which data a block holds.  A prefix *)
(* hash is taken to be collision free, so it stands for the token block,    *)
(* its fingerprint, and its boundary logits at once.                        *)
(***************************************************************************)
EXTENDS Integers, Sequences, FiniteSets

CONSTANTS
    Requests,       \* request ids; a released id stands for a later request
    NumBlocks,      \* PagedKVCacheConfig.num_blocks
    BlockTokens,    \* PagedKVCacheConfig.block_tokens
    Window,         \* the model's block_size: no cache is longer
    Hashes,         \* prefix hashes
    PromptLen,      \* PromptLen[r]: tokens of the prompt
    Lifetime,       \* Lifetime[r]: the most cache tokens r ever needs
    Chain,          \* Chain[r]: hash chain of the complete prompt blocks
    PrefixEnabled,  \* a PrefixCacheNamespace is configured
    Lazy,           \* lazy_kv_reservation
    RebuildLengths, \* lengths of an overflow window that is written back
    NoRequest, NoHash

Blocks == 0 .. NumBlocks - 1
NoBlock == -1
Tags == Hashes \cup Requests \cup {NoHash}

(***************************************************************************)
(* prefix_hash_chain binds each block to all history before it: a hash      *)
(* occurs at one position only, and determines the hashes before it.        *)
(***************************************************************************)
PrefixTree ==
    \A r, s \in Requests :
        \A i \in 1 .. Len(Chain[r]), j \in 1 .. Len(Chain[s]) :
            Chain[r][i] = Chain[s][j] =>
                i = j /\ \A k \in 1 .. i : Chain[r][k] = Chain[s][k]

ASSUME PoolAssumption ==
    /\ NumBlocks \in Nat \ {0} /\ BlockTokens \in Nat \ {0} /\ Window \in Nat \ {0}
    /\ IsFiniteSet(Requests)
    /\ PromptLen \in [Requests -> 1 .. Window]
    /\ Lifetime \in [Requests -> 1 .. Window]
    /\ \A r \in Requests : PromptLen[r] <= Lifetime[r]
    /\ Chain \in [Requests -> Seq(Hashes)]
    /\ \A r \in Requests : Len(Chain[r]) = PromptLen[r] \div BlockTokens
    /\ PrefixTree
    /\ PrefixEnabled \in BOOLEAN /\ Lazy \in BOOLEAN
    /\ RebuildLengths \subseteq 1 .. Window
    /\ NoRequest \notin Requests /\ NoHash \notin Requests
    /\ (Requests \cup {NoHash}) \cap Hashes = {}

VARIABLES
    blocks,          \* _blocks: metadata of each physical block
    free,            \* _free_blocks: the min-heap, as a set
    tables,          \* _tables: one block table per request
    prefixIndex,     \* _prefix_index: the canonical block of a hash
    clock,           \* _logical_clock
    recentEvictions, \* _recent_evictions, not yet drained into events
    evictionCount,   \* _prefix_cache_evictions
    content,         \* key_blocks, value_blocks: the data a block holds
    phase,           \* where the engine is with each request
    prefixHit,       \* the engine's RequestState.prefix_hit_blocks
    engine           \* the call the engine thread must make next

vars == <<blocks, free, tables, prefixIndex, clock, recentEvictions, evictionCount,
          content, phase, prefixHit, engine>>

-----------------------------------------------------------------------------
(* Blocks, tables and what they add up to.                                 *)

FreeBlock == [state |-> "free", owner |-> NoRequest, hash |-> NoHash,
              refs |-> 0, lastUsed |-> 0]
PrivateBlock(r) == [FreeBlock EXCEPT !.state = "private", !.owner = r]

NoTable == [ids |-> << >>, length |-> 0, reserved |-> 0, max |-> 0]

\* The requests that have a table.
Held == {r \in Requests : phase[r] \in {"prefill", "resume", "decode"}}

\* Where an element stands in a sequence without duplicates.
Position(s, e) == CHOOSE i \in 1 .. Len(s) : s[i] = e

BlocksOf(r) == {tables[r].ids[i] : i \in 1 .. Len(tables[r].ids)}

RequiredBlocks(n) == (n + BlockTokens - 1) \div BlockTokens

PrivateOf(r) == {b \in BlocksOf(r) : blocks[b].state = "private"}
SharedOf(r) == {b \in BlocksOf(r) : blocks[b].state = "shared"}

\* _shared_count plus the private reservation: what the request may occupy.
CurrentTotal(r) == tables[r].reserved + Cardinality(SharedOf(r))

ActiveShared == {b \in Blocks : blocks[b].state = "shared" /\ blocks[b].refs > 0}

\* Mutant: eviction forgets the reference count.
EvictableInUse(bl) == {b \in Blocks : bl[b].state = "shared"}
\* Mutant: a private block, which has no references either, is evictable.
EvictableUnreferenced(bl) == {b \in Blocks : bl[b].state # "free" /\ bl[b].refs = 0}

\* Resident prefix blocks that no table refers to, in the metadata bl.
EvictableIn(bl) == {b \in Blocks : bl[b].state = "shared" /\ bl[b].refs = 0}

References(b) == {r \in Requests : b \in BlocksOf(r)}

\* Reserved slots as a set of pairs: its cardinality is the sum of the
\* reservations.
ReservedSlots == {s \in Requests \X (1 .. NumBlocks) : s[2] <= tables[s[1]].reserved}
Protected == Cardinality(ActiveShared) + Cardinality(ReservedSlots)

\* can_reserve(): n more protected blocks fit.
CanProtect(n) == Protected + n <= NumBlocks

\* Eviction order: (last_used, block_id).
Older(bl, b, c) == \/ bl[b].lastUsed < bl[c].lastUsed
                   \/ bl[b].lastUsed = bl[c].lastUsed /\ b < c

\* The block i of r's prompt holds the data its hash names, an incomplete or
\* generated one holds data of r alone.
PromptData(r, i) == IF i <= Len(Chain[r]) THEN Chain[r][i] ELSE r

\* What the scheduler asks for at admission (_reservation_limits).
LifetimeBlocks(r) == RequiredBlocks(Lifetime[r])
AdmissionBlocks(r, tokens) == IF Lazy THEN RequiredBlocks(tokens) ELSE LifetimeBlocks(r)

Idle == [op |-> "any", req |-> NoRequest]
MustPromote(r) == [op |-> "promote", req |-> r]
\* The call raised: the engine fails the request and releases its table.
MustRelease(r) == [op |-> "release", req |-> r]

-----------------------------------------------------------------------------
Init ==
    /\ blocks = [b \in Blocks |-> FreeBlock]
    /\ free = Blocks
    /\ tables = [r \in Requests |-> NoTable]
    /\ prefixIndex = [h \in Hashes |-> NoBlock]
    /\ clock = 0
    /\ recentEvictions = {}
    /\ evictionCount = 0
    /\ content = [b \in Blocks |-> NoHash]
    /\ phase = [r \in Requests |-> "absent"]
    /\ prefixHit = [r \in Requests |-> 0]
    /\ engine = Idle

-----------------------------------------------------------------------------
(* Reservation.                                                            *)

\* reserve(): a table without cached blocks, for a fresh prompt when there is
\* no prefix cache and for the recompute of a preempted request always.
Reserve(r, tokens) ==
    /\ engine = Idle
    /\ \/ phase[r] = "absent" /\ ~PrefixEnabled /\ tokens = PromptLen[r]
       \/ phase[r] = "preempted" /\ tokens \in PromptLen[r] .. Lifetime[r]
    /\ LifetimeBlocks(r) <= NumBlocks
    /\ CanProtect(AdmissionBlocks(r, tokens))
    /\ tables' = [tables EXCEPT ![r] =
          [NoTable EXCEPT !.reserved = AdmissionBlocks(r, tokens), !.max = LifetimeBlocks(r)]]
    /\ phase' = [phase EXCEPT ![r] = IF @ = "absent" THEN "prefill" ELSE "resume"]
    /\ UNCHANGED <<blocks, free, prefixIndex, clock, recentEvictions, evictionCount,
                   content, prefixHit, engine>>

\* _longest_prefix(): the first k blocks of r's prompt are resident, the next
\* is not.
LongestPrefix(r, k) ==
    /\ \A i \in 1 .. k : prefixIndex[Chain[r][i]] # NoBlock
    /\ k < Len(Chain[r]) => prefixIndex[Chain[r][k + 1]] = NoBlock

\* Mutant: attaching an unreferenced block is taken to protect nothing new.
NewlyActiveNone(hit) == {}

\* Attaching protects the blocks of the prefix that nobody references yet.
NewlyActive(hit) == {i \in 1 .. Len(hit) : blocks[hit[i]].refs = 0}

\* reserve_with_prefix(): attach the longest resident prefix, one reference
\* and one touch per block, and reserve the rest privately.
ReserveWithPrefix(r) ==
    /\ engine = Idle
    /\ PrefixEnabled /\ phase[r] = "absent"
    /\ LifetimeBlocks(r) <= NumBlocks
    /\ \E k \in 0 .. Len(Chain[r]) :
         LET hit == [i \in 1 .. k |-> prefixIndex[Chain[r][i]]]
             private == AdmissionBlocks(r, PromptLen[r]) - k
         IN  /\ LongestPrefix(r, k)
             /\ private >= 0
             /\ CanProtect(Cardinality(NewlyActive(hit)) + private)
             /\ blocks' = [b \in Blocks |->
                   IF \E i \in 1 .. k : hit[i] = b
                   THEN [blocks[b] EXCEPT !.refs = @ + 1,
                                          !.lastUsed = clock + Position(hit, b)]
                   ELSE blocks[b]]
             /\ clock' = clock + k
             /\ tables' = [tables EXCEPT ![r] =
                   [ids |-> hit, length |-> k * BlockTokens,
                    reserved |-> private, max |-> LifetimeBlocks(r)]]
             /\ prefixHit' = [prefixHit EXCEPT ![r] = k]
    /\ recentEvictions' = {}
    /\ phase' = [phase EXCEPT ![r] = "prefill"]
    /\ UNCHANGED <<free, prefixIndex, evictionCount, content, engine>>

\* grow_reservation(): protect more blocks, up to the lifetime maximum.
GrowReservation(r, target) ==
    /\ engine = Idle
    /\ Lazy /\ phase[r] \in {"decode", "resume"}
    /\ CurrentTotal(r) < target /\ target <= tables[r].max
    /\ CanProtect(target - CurrentTotal(r))
    /\ tables' = [tables EXCEPT ![r].reserved = @ + target - CurrentTotal(r)]
    /\ UNCHANGED <<blocks, free, prefixIndex, clock, recentEvictions, evictionCount,
                   content, phase, prefixHit, engine>>

-----------------------------------------------------------------------------
(* Allocation and writes.                                                  *)

\* _acquire_blocks(), from the metadata bl and the heap fr: evict the oldest
\* unreferenced blocks only as far as the heap falls short, then pop the
\* smallest ids, in order.
Allocates(bl, fr, count, evicted, new) ==
    LET avail == fr \cup evicted IN
    /\ evicted \subseteq EvictableIn(bl)
    /\ Cardinality(evicted) = IF count > Cardinality(fr) THEN count - Cardinality(fr) ELSE 0
    /\ \A e \in evicted, c \in EvictableIn(bl) \ evicted : Older(bl, e, c)
    /\ new \in [1 .. count -> avail]
    /\ \A i, j \in 1 .. count : i < j => new[i] < new[j]
    /\ \A b \in avail : (\A i \in 1 .. count : new[i] # b) => \A i \in 1 .. count : new[i] < b

\* The metadata once the evicted blocks are reset and r owns the new ones.
Allocated(bl, r, evicted, got) ==
    [b \in Blocks |-> IF b \in got THEN PrivateBlock(r)
                      ELSE IF b \in evicted THEN FreeBlock ELSE bl[b]]

\* The heap once the evicted blocks are pushed and the new ones popped.
HeapAfter(heap, evicted, got) == (heap \cup evicted) \ got

\* _evict_one(), once for each block of a set.
Unindexed(evicted) ==
    [h \in Hashes |-> IF prefixIndex[h] \in evicted THEN NoBlock ELSE prefixIndex[h]]
Notices(evicted) == recentEvictions \cup {blocks[b].hash : b \in evicted}

\* A write of new blocks at the end of r's table: allocate count blocks, copy
\* data[i] into the i-th, publish them.  When the copy raises, which is when
\* the engine must release r next, the new blocks are returned, the evictions
\* stay, and the table is as before.  A commit that leaves the engine idle
\* drains the eviction notices into events.
WriteNewBlocks(r, count, data, length, next) ==
    \E evicted \in SUBSET EvictableIn(blocks), new \in [1 .. count -> Blocks] :
        LET got == {new[i] : i \in 1 .. count}
            ok == next # MustRelease(r)
        IN
        /\ Allocates(blocks, free, count, evicted, new)
        /\ blocks' = Allocated(blocks, r, evicted, IF ok THEN got ELSE {})
        /\ free' = HeapAfter(free, evicted, IF ok THEN got ELSE {})
        /\ prefixIndex' = Unindexed(evicted)
        /\ recentEvictions' = IF next = Idle THEN {} ELSE Notices(evicted)
        /\ evictionCount' = evictionCount + Cardinality(evicted)
        /\ content' = [b \in Blocks |->
              IF b \in got THEN data[Position(new, b)] ELSE content[b]]
        /\ tables' = IF ok THEN [tables EXCEPT ![r].ids = @ \o new, ![r].length = length]
                           ELSE tables
        /\ engine' = next

Outcomes(r, success) == {success, MustRelease(r)}

\* write_prefill(): the whole compact cache of a prompt, or of a preempted
\* request's recomputed history, into an empty table.
WritePrefill(r, n) ==
    LET count == RequiredBlocks(n)
        data == [i \in 1 .. count |-> IF phase[r] = "resume" THEN r ELSE PromptData(r, i)]
    IN
    /\ engine = Idle
    /\ \/ phase[r] = "prefill" /\ ~PrefixEnabled /\ n = PromptLen[r]
       \/ phase[r] = "resume" /\ n \in PromptLen[r] .. Lifetime[r]
    /\ tables[r].ids = << >> /\ tables[r].length = 0
    /\ count <= tables[r].reserved
    /\ \E next \in Outcomes(r, Idle) :
          /\ WriteNewBlocks(r, count, data, n, next)
          /\ phase' = IF next = Idle THEN [phase EXCEPT ![r] = "decode"] ELSE phase
    /\ UNCHANGED <<clock, prefixHit>>

\* write_prefill_suffix(): one chunk of the prompt, from a block boundary.
\* Every chunk but the last is a whole number of blocks; after the last one
\* of a prefix-cached prompt the engine promotes, in the same commit.
\* An exact prefix hit leaves nothing to write (n = 0).
WritePrefillSuffix(r, n) ==
    LET length == tables[r].length + n
        count == RequiredBlocks(length) - Len(tables[r].ids)
        data == [i \in 1 .. count |-> PromptData(r, Len(tables[r].ids) + i)]
        last == length = PromptLen[r]
    IN
    /\ engine = Idle /\ phase[r] = "prefill"
    /\ tables[r].length % BlockTokens = 0
    /\ length <= PromptLen[r]
    /\ last \/ (n > 0 /\ length % BlockTokens = 0)
    /\ RequiredBlocks(length) - Cardinality(SharedOf(r)) <= tables[r].reserved
    /\ \E next \in Outcomes(r, IF last /\ PrefixEnabled THEN MustPromote(r) ELSE Idle) :
          /\ WriteNewBlocks(r, count, data, length, next)
          /\ phase' = IF last /\ next = Idle THEN [phase EXCEPT ![r] = "decode"] ELSE phase
    /\ UNCHANGED <<clock, prefixHit>>

\* Mutant: only the first token of a cache opens a block.
NeedsBlockOnce(length) == length = 0

\* A token at this position opens a block (needs_block).
NeedsBlock(length) == length % BlockTokens = 0

\* append(), append_delta() of a token that opens a block.
AppendNewBlock(r) ==
    /\ engine = Idle /\ phase[r] = "decode"
    /\ tables[r].length < Lifetime[r] /\ NeedsBlock(tables[r].length)
    /\ Cardinality(PrivateOf(r)) + 1 <= tables[r].reserved
    /\ \E next \in Outcomes(r, Idle) :
          WriteNewBlocks(r, 1, <<r>>, tables[r].length + 1, next)
    /\ UNCHANGED <<clock, phase, prefixHit>>

\* append(), append_delta() of a token that goes into the tail block.
AppendTail(r) ==
    LET tail == tables[r].ids[Len(tables[r].ids)] IN
    /\ engine = Idle /\ phase[r] = "decode"
    /\ tables[r].length < Lifetime[r] /\ ~NeedsBlock(tables[r].length)
    /\ content' = [content EXCEPT ![tail] = r]
    /\ \/ /\ tables' = [tables EXCEPT ![r].length = @ + 1]
          /\ recentEvictions' = {}
          /\ engine' = Idle
       \/ /\ engine' = MustRelease(r)
          /\ UNCHANGED <<tables, recentEvictions>>
    /\ UNCHANGED <<blocks, free, prefixIndex, clock, evictionCount, phase, prefixHit>>

-----------------------------------------------------------------------------
(* The prefix cache.                                                       *)

\* prefix_boundary_logits_for_request(): an exact hit samples its first token
\* from the last shared block, which counts as a use of it.
ReadBoundaryLogits(r) ==
    LET b == tables[r].ids[Len(tables[r].ids)] IN
    /\ engine = Idle /\ phase[r] = "prefill"
    /\ tables[r].length > 0 /\ tables[r].length = PromptLen[r]
    /\ tables[r].length % BlockTokens = 0
    /\ blocks[b].state = "shared"
    /\ blocks' = [blocks EXCEPT ![b].lastUsed = clock + 1]
    /\ clock' = clock + 1
    /\ UNCHANGED <<free, tables, prefixIndex, recentEvictions, evictionCount, content,
                   phase, prefixHit, engine>>

\* promote_prompt_blocks(): each complete prompt block past the prefix hit
\* either becomes the canonical block of its hash or, when another request
\* promoted that hash first, is replaced in the table by the canonical block
\* and freed.
Promote(r) ==
    LET chain == Chain[r]
        ids == tables[r].ids
        computed == prefixHit[r] + 1 .. Len(chain)
        fresh == {i \in computed : prefixIndex[chain[i]] = NoBlock}
        dup == computed \ fresh
        canonical == {prefixIndex[chain[i]] : i \in dup}
        promoted == {ids[i] : i \in fresh}
        dropped == {ids[i] : i \in dup}
        slot(b) == CHOOSE i \in fresh : ids[i] = b
        reader(b) == CHOOSE i \in dup : prefixIndex[chain[i]] = b
    IN
    /\ engine = MustPromote(r)
    /\ tables[r].length = PromptLen[r]
    /\ blocks' = [b \in Blocks |->
          IF b \in promoted
          THEN [state |-> "shared", owner |-> NoRequest, hash |-> chain[slot(b)],
                refs |-> 1, lastUsed |-> clock + slot(b)]
          ELSE IF b \in canonical
          THEN [blocks[b] EXCEPT !.refs = @ + 1, !.lastUsed = clock + reader(b)]
          ELSE IF b \in dropped THEN FreeBlock ELSE blocks[b]]
    /\ clock' = clock + Len(chain)
    /\ free' = free \cup dropped
    /\ prefixIndex' = [h \in Hashes |->
          IF \E i \in fresh : chain[i] = h THEN ids[Position(chain, h)] ELSE prefixIndex[h]]
    /\ tables' = [tables EXCEPT
          ![r].ids = [i \in 1 .. Len(ids) |-> IF i \in dup THEN prefixIndex[chain[i]] ELSE ids[i]],
          ![r].reserved = @ - Cardinality(computed)]
    /\ recentEvictions' = {}
    /\ phase' = [phase EXCEPT ![r] = "decode"]
    /\ engine' = Idle
    /\ UNCHANGED <<evictionCount, content, prefixHit>>

\* A promotion that raises restores every field it changed.
PromoteRaises(r) ==
    /\ engine = MustPromote(r)
    /\ engine' = MustRelease(r)
    /\ UNCHANGED <<blocks, free, tables, prefixIndex, clock, recentEvictions, evictionCount,
                   content, phase, prefixHit>>

-----------------------------------------------------------------------------
(* Overflow of the learned-position window.                                *)

\* _rebuild_private_cache(): overwrite the old blocks in place, allocate or
\* return the difference; without a prefix cache nothing is ever evicted.
\* The engine rebuilds whole windows; other users of the pool rebuild any length.
RebuildInPlace(r, n) ==
    LET ids == tables[r].ids
        count == RequiredBlocks(n)
        extra == IF count > Len(ids) THEN count - Len(ids) ELSE 0
    IN
    /\ engine = Idle /\ ~PrefixEnabled /\ phase[r] = "decode"
    /\ count <= tables[r].reserved
    /\ \E new \in [1 .. extra -> Blocks] :
         LET candidate == SubSeq(ids \o new, 1, count)
             kept == {candidate[i] : i \in 1 .. count}
             dropped == BlocksOf(r) \ kept
         IN
         /\ Allocates(blocks, free, extra, {}, new)
         /\ \/ /\ blocks' = [b \in Blocks |-> IF b \in kept THEN PrivateBlock(r)
                             ELSE IF b \in dropped THEN FreeBlock ELSE blocks[b]]
               /\ free' = (free \ kept) \cup dropped
               /\ content' = [b \in Blocks |-> IF b \in kept THEN r ELSE content[b]]
               /\ tables' = [tables EXCEPT ![r].ids = candidate, ![r].length = n]
               /\ engine' = Idle
            \/ /\ content' = [b \in Blocks |->
                     IF b \in kept \ BlocksOf(r) THEN r ELSE content[b]]
               /\ engine' = MustRelease(r)
               /\ UNCHANGED <<blocks, free, tables>>
    /\ UNCHANGED <<prefixIndex, clock, recentEvictions, evictionCount, phase, prefixHit>>

\* Mutant: a table that is dropped keeps its references.
DetachedReferenced(r) ==
    [b \in Blocks |-> IF b \in PrivateOf(r) THEN FreeBlock ELSE blocks[b]]

\* _release_table_blocks(): private blocks are freed, shared ones lose one
\* reference and are touched, in table order.
Detached(r) ==
    [b \in Blocks |->
        IF b \in PrivateOf(r) THEN FreeBlock
        ELSE IF b \in SharedOf(r)
        THEN [blocks[b] EXCEPT
                !.refs = @ - 1,
                !.lastUsed = clock + Position(tables[r].ids, b)]
        ELSE blocks[b]]

\* rebuild() with a prefix cache: detach every block, turn the same total into
\* a private reservation, and write the window into blocks allocated anew.
\* _acquire_blocks and the copy may raise, which restores the metadata, the
\* table, the heap, the index and the tensors, but not the clock, the counters
\* and _recent_evictions.  verify_invariants may raise too, after the commit.
RebuildDetached(r, n) ==
    LET count == RequiredBlocks(n)
        total == CurrentTotal(r)
        detached == Detached(r)
        heap == free \cup PrivateOf(r)
        Rollback(evicted) ==
            /\ recentEvictions' = Notices(evicted)
            /\ evictionCount' = evictionCount + Cardinality(evicted)
            /\ engine' = MustRelease(r)
            /\ UNCHANGED <<blocks, free, tables, prefixIndex, content>>
    IN
    /\ engine = Idle /\ PrefixEnabled /\ phase[r] = "decode"
    /\ tables[r].length = Window
    /\ count <= total
    /\ \/ \E evicted \in SUBSET EvictableIn(detached), new \in [1 .. count -> Blocks] :
            LET got == {new[i] : i \in 1 .. count} IN
            /\ Allocates(detached, heap, count, evicted, new)
            /\ \/ Rollback(evicted)
               \/ /\ blocks' = Allocated(detached, r, evicted, got)
                  /\ free' = HeapAfter(heap, evicted, got)
                  /\ prefixIndex' = Unindexed(evicted)
                  /\ evictionCount' = evictionCount + Cardinality(evicted)
                  /\ content' = [b \in Blocks |-> IF b \in got THEN r ELSE content[b]]
                  /\ tables' = [tables EXCEPT
                        ![r].ids = new, ![r].length = n, ![r].reserved = total]
                  /\ \/ /\ Protected' <= NumBlocks
                        /\ recentEvictions' = {}
                        /\ engine' = Idle
                     \/ /\ Protected' > NumBlocks
                        /\ recentEvictions' = Notices(evicted)
                        /\ engine' = MustRelease(r)
       \/ /\ count > Cardinality(heap) + Cardinality(EvictableIn(detached))
          /\ Rollback(EvictableIn(detached))
    /\ clock' = clock + Len(tables[r].ids)
    /\ UNCHANGED <<phase, prefixHit>>

-----------------------------------------------------------------------------
(* Release.                                                                *)

\* release(): drop the table of a finished, cancelled, failed (absent) or
\* preempted request.
Release(r) ==
    /\ r \in Held
    /\ \/ engine = Idle /\ phase[r] = "decode" /\ phase' = [phase EXCEPT ![r] = "preempted"]
       \/ engine \in {Idle, MustRelease(r)} /\ phase' = [phase EXCEPT ![r] = "absent"]
    /\ blocks' = Detached(r)
    /\ free' = free \cup PrivateOf(r)
    /\ clock' = clock + Len(tables[r].ids)
    /\ tables' = [tables EXCEPT ![r] = NoTable]
    /\ engine' = Idle
    /\ UNCHANGED <<prefixIndex, recentEvictions, evictionCount, content, prefixHit>>

\* release_all(): at shutdown, or when the worker has failed at any point,
\* release every table and evict the whole prefix cache.
ReleaseAll ==
    LET freed == UNION {PrivateOf(r) : r \in Requests}
        refsLeft(b) == blocks[b].refs - Cardinality(References(b))
        evicted == {b \in Blocks : blocks[b].state = "shared" /\ refsLeft(b) = 0}
    IN
    /\ blocks' = [b \in Blocks |->
          IF b \in freed \cup evicted THEN FreeBlock
          ELSE IF blocks[b].state = "shared" THEN [blocks[b] EXCEPT !.refs = refsLeft(b)]
          ELSE blocks[b]]
    /\ free' = free \cup freed \cup evicted
    /\ prefixIndex' = Unindexed(evicted)
    /\ recentEvictions' = Notices(evicted)
    /\ evictionCount' = evictionCount + Cardinality(evicted)
    /\ tables' = [r \in Requests |-> NoTable]
    /\ phase' = [r \in Requests |-> "absent"]
    /\ engine' = Idle
    /\ UNCHANGED <<clock, content, prefixHit>>

-----------------------------------------------------------------------------
Next ==
    \/ \E r \in Requests :
          \/ \E tokens \in 1 .. Window : Reserve(r, tokens)
          \/ ReserveWithPrefix(r)
          \/ \E target \in 1 .. NumBlocks : GrowReservation(r, target)
          \/ \E n \in 1 .. Window : WritePrefill(r, n)
          \/ \E n \in 0 .. Window : WritePrefillSuffix(r, n)
          \/ AppendNewBlock(r)
          \/ AppendTail(r)
          \/ ReadBoundaryLogits(r)
          \/ Promote(r)
          \/ PromoteRaises(r)
          \/ \E n \in RebuildLengths : RebuildInPlace(r, n)
          \/ \E n \in RebuildLengths : RebuildDetached(r, n)
          \/ Release(r)
    \/ ReleaseAll

Spec == Init /\ [][Next]_vars

-----------------------------------------------------------------------------
(* Properties.                                                             *)

BlockType ==
    [state : {"free", "private", "shared"}, owner : Requests \cup {NoRequest},
     hash : Hashes \cup {NoHash}, refs : Int, lastUsed : Nat]
TableType == [ids : Seq(Blocks), length : Nat, reserved : Int, max : Nat]
EngineType == {Idle} \cup {MustPromote(r) : r \in Requests} \cup {MustRelease(r) : r \in Requests}

\* The values each variable ranges over.
TypeOK ==
    /\ blocks \in [Blocks -> BlockType]
    /\ free \in SUBSET Blocks
    /\ tables \in [Requests -> TableType]
    /\ prefixIndex \in [Hashes -> Blocks \cup {NoBlock}]
    /\ clock \in Nat
    /\ recentEvictions \in SUBSET Hashes
    /\ evictionCount \in Nat
    /\ prefixHit \in [Requests -> Nat]
    /\ content \in [Blocks -> Tags]
    /\ phase \in [Requests -> {"absent", "prefill", "resume", "decode", "preempted"}]
    /\ engine \in EngineType

\* Every block is free XOR resident, a free one keeps no metadata, and a
\* private one is in the table of its owner and in no other table
\* (verify_invariants).
BlockOwnership ==
    /\ free = {b \in Blocks : blocks[b].state = "free"}
    /\ \A b \in free : blocks[b] = FreeBlock
    /\ \A b \in Blocks \ free : \A r \in References(b) :
          blocks[b].state = "private" => blocks[b].owner = r
    /\ \A b \in Blocks : blocks[b].state = "private" =>
          /\ blocks[b] = PrivateBlock(blocks[b].owner)
          /\ References(b) = {blocks[b].owner}
    /\ \A r \in Requests : BlocksOf(r) \cap free = {}

\* active_refcount of a shared block is the number of tables it is in: none is
\* evicted while a request reads it, none is pinned after its last reader left
\* through any of finish, cancel, failure, preemption, rebuild, duplicate
\* replacement or a rollback.
RefcountsMatchTables ==
    \A b \in Blocks : blocks[b].state = "shared" => blocks[b].refs = Cardinality(References(b))

\* Each hash has at most one canonical block, and each shared block is the
\* canonical block of its hash.
CanonicalIndex ==
    /\ \A h \in Hashes : prefixIndex[h] # NoBlock =>
          blocks[prefixIndex[h]].state = "shared" /\ blocks[prefixIndex[h]].hash = h
    /\ \A b \in Blocks : blocks[b].state = "shared" =>
          blocks[b].hash \in Hashes /\ prefixIndex[blocks[b].hash] = b

\* A table has exactly the blocks its length needs, no block twice, within
\* its reservation and its lifetime maximum, and a partly filled tail block is
\* never shared: the next append would write into every reader's cache.
TablesInOrder ==
    \A r \in Held :
        LET t == tables[r] IN
        /\ Len(t.ids) = RequiredBlocks(t.length)
        /\ Cardinality(BlocksOf(r)) = Len(t.ids)
        /\ Cardinality(PrivateOf(r)) <= t.reserved
        /\ CurrentTotal(r) <= t.max
        /\ t.length % BlockTokens # 0 => blocks[t.ids[Len(t.ids)]].state = "private"

\* The four views of the blocks, free heap, metadata, tables and prefix index,
\* agree after every operation, those that failed half way included.
PoolConsistent == BlockOwnership /\ RefcountsMatchTables /\ CanonicalIndex /\ TablesInOrder

\* Unique active shared blocks and private reservations fit in the pool
\* together whenever the engine may admit, grow or write.
ProtectedWithinPool == engine = Idle => Protected <= NumBlocks

\* A reservation is a promise: all requests can claim what is left of theirs
\* at once, because enough blocks are free or evictable.
ReservationsHonoured ==
    engine = Idle =>
        Cardinality(free) + Cardinality(EvictableIn(blocks)) >=
            Cardinality(ReservedSlots)
              - Cardinality({b \in Blocks : blocks[b].state = "private"})

\* What was promised at admission can be had: protection stays within the pool,
\* and free and evictable blocks are enough for what is reserved and not used.
ReservationsCovered == ProtectedWithinPool /\ ReservationsHonoured

\* A cached block holds the data its hash names, so that a later prefix hit
\* attends to the K/V of its own tokens.
SharedContentCanonical ==
    \A b \in Blocks : blocks[b].state = "shared" => content[b] = blocks[b].hash

\* Shutdown leaves a completely free pool.
ShutdownFreesPool == [][ReleaseAll => free' = Blocks]_vars

\* What a model reads through the pool: each request's cache as the list of
\* the data in its blocks.  The pool implements a store in which every request
\* has a cache of its own: sharing, duplicate replacement, eviction, reuse of
\* blocks and failed calls do not show.
Store == INSTANCE RequestCacheStore WITH
    cache <- [r \in Requests |->
                IF r \in Held
                THEN [i \in 1 .. Len(tables[r].ids) |-> content[tables[r].ids[i]]]
                ELSE <<NoHash>>],
    Closed <- <<NoHash>>

ImplementsPrivateCaches == Store!Spec

\* A rebuild that raises restores everything, counters included.
RebuildFailureRestores ==
    [][\A r \in Requests : \A n \in RebuildLengths :
          RebuildDetached(r, n) /\ tables' = tables =>
              UNCHANGED <<blocks, free, prefixIndex, content, evictionCount>>]_vars

\* Unique active shared occupancy and protected private capacity never exceed
\* the pool, an overflow rebuild included.
SharedPlusPrivateWithinPool == Protected <= NumBlocks
=============================================================================
