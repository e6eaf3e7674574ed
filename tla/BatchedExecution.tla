-------------------------- MODULE BatchedExecution --------------------------
(***************************************************************************)
(* The executors of miniGPT's engine (src/minigpt/serving.py) over the     *)
(* batched entry points of its model (model.py, layers.py): how requests   *)
(* of different lengths share one model call, and come out of it as if     *)
(* each had had the model for itself.                                      *)
(*                                                                         *)
(* Numbers are left out and what they are computed from is kept.  The K/V  *)
(* entry of a token is its position, the token and the entries it attended *)
(* to, in order; the logits of a position are its entry.  A token drawn    *)
(* from logits may be any, so that "drawn" keeps what it was drawn from.   *)
(* Layers and heads treat positions alike.  Right padding is the token 0   *)
(* in a prompt and an entry of zeros in a cache.                           *)
(*                                                                         *)
(* Who is scheduled when is ServingEngine, and PagedKVCachePool is where   *)
(* entries live: here a request's blocks are the entries they hold.  Any   *)
(* requests in the right status may share a call, in any order.            *)
(***************************************************************************)
EXTENDS Integers, Sequences, FiniteSets, FiniteSetsExt, SequencesExt, Subsequence

CONSTANTS
  Requests,
  Prompt,          \* Prompt[r]: the tokens of the prompt
  MaxNew,          \* MaxNew[r]: max_new_tokens
  Vocabulary,      \* the vocabulary
  Window,          \* the model's block_size
  BlockTokens,     \* of a physical block
  MaxBatchSize, MaxBatchTokens,
  PaddingPercent   \* max_padding_ratio, as a percentage

\* The executors, and the engines that use one over a pool of blocks.
Dense == {"reference", "continuous decode", "continuous"}
Prefixed == {"apc", "batched apc", "chunked apc"}
Chunked == {"chunked", "chunked apc"}
Kinds == Dense \cup Prefixed \cup Chunked \cup {"materialized", "paged"}

ASSUME ExecutionAssumption ==
  /\ IsFiniteSet(Requests)
  /\ Window \in Nat \ {0} /\ BlockTokens \in Nat \ {0}
  /\ MaxBatchSize \in Nat \ {0} /\ MaxBatchTokens \in Nat \ {0}
  /\ PaddingPercent \in 0 .. 100
  /\ 0 \in Vocabulary
  /\ Prompt \in [Requests -> Seq(Vocabulary)] /\ MaxNew \in [Requests -> Nat \ {0}]
  /\ \A r \in Requests : Len(Prompt[r]) \in 1 .. Window

VARIABLES
  kind,        \* the executor of this engine
  phase,       \* RequestState.status
  generated,   \* generated_tokens
  drawn,       \* the logits the last token was drawn from
  cache,       \* kv_cache, or what the blocks of the request hold
  shared,      \* how many of its first blocks are shared ones
  chunkLogits, \* prefill_logits_chunks
  index        \* the shared blocks and their boundary logits, by token prefix

vars == <<kind, phase, generated, drawn, cache, shared, chunkLogits, index>>

Nothing == <<>>       \* no logits, and no shared block
Zero == <<-1, 0, <<>> >>

-----------------------------------------------------------------------------
(* The model.  An entry is <<position, token, entries attended>>.          *)

\* Tokens from position start on, each of which sees past and the ones
\* before it.
Causal(past, start, tokens) ==
  LET entry[i \in DOMAIN tokens] ==
        <<start + i - 1, tokens[i], past \o [j \in 1 .. i - 1 |-> entry[j]]>>
  IN [i \in DOMAIN tokens |-> entry[i]]

Alone(tokens) == Causal(<<>>, 0, tokens)

\* One row of a batch of prompts padded to the same length.
PrefillRow(tokens, padded) ==
  LET dense == Alone(tokens \o [i \in 1 .. padded - Len(tokens) |-> 0]) IN
  [logits |-> dense[Len(tokens)], entries |-> SubSeq(dense, 1, Len(tokens)), rows |-> dense]

\* One row of a decode over caches padded to the same length: the new entry
\* lies behind the padding, which it does not see.
DecodeRow(past, token, padded) ==
  LET dense == past \o [i \in 1 .. padded - Len(past) |-> Zero]
      new == <<Len(past), token, SubSeq(dense, 1, Len(past))>>
      next == Append(dense, new)
  IN [logits |-> new, entries |-> Append(SubSeq(next, 1, Len(past)), Last(next))]

\* One row of a batch of segments, each after the blocks of its own past.
SegmentRow(past, tokens, padded) ==
  LET padding == [i \in 1 .. padded - Len(tokens) |-> <<0, 0, <<>> >>]
      dense == Causal(past, Len(past), tokens) \o padding
      valid == SubSeq(dense, 1, Len(tokens))
  IN [logits |-> dense[Len(tokens)], entries |-> valid, rows |-> valid]

-----------------------------------------------------------------------------
(* What a request has, and what it still has to run.                       *)

All(r) == Prompt[r] \o generated[r]
Cropped(tokens) == IF Len(tokens) <= Window THEN tokens
                   ELSE SubSeq(tokens, Len(tokens) - Window + 1, Len(tokens))
Suffix(r) == SubSeq(Prompt[r], Len(cache[r]) + 1, Len(Prompt[r]))
InPhase(p) == {r \in Requests : phase[r] = p}
Overflows(r) == Len(cache[r]) >= Window

FullBlocks(r) == Len(Prompt[r]) \div BlockTokens
PrefixOf(r, blocks) == SubSeq(Prompt[r], 1, blocks * BlockTokens)
PrefixesOf(r) == {PrefixOf(r, b) : b \in 1 .. FullBlocks(r)}
PromptPrefixes == UNION {PrefixesOf(r) : r \in Requests}

-----------------------------------------------------------------------------
(* Which requests share a call.                                            *)

Longest(rows, length) == Max({length[r] : r \in ToSet(rows)})

Fits(rows, length) ==
  LET padded == Len(rows) * Longest(rows, length)
      useful == MapThenSumSet(LAMBDA r : length[r], ToSet(rows))
  IN /\ Len(rows) <= MaxBatchSize
     /\ padded <= MaxBatchTokens
     /\ 100 * (padded - useful) <= PaddingPercent * padded

\* A row joins the last batch if it fits there.
Joined(done, r, length) ==
  IF done # <<>> /\ Fits(Append(Last(done), r), length)
  THEN Append(Front(done), Append(Last(done), r))
  ELSE Append(done, <<r>>)

\* All rows, in their order.
Batches(rows, length) ==
  LET batches[n \in 0 .. Len(rows)] ==
        IF n = 0 THEN <<>> ELSE Joined(batches[n - 1], rows[n], length)
  IN batches[Len(rows)]

Singles(rows) == [i \in DOMAIN rows |-> <<rows[i]>>]

\* The rows that are in S, in their order.
Those(rows, S) == Subsequence(rows, {i \in DOMAIN rows : rows[i] \in S})

PromptLength == [r \in Requests |-> Len(Prompt[r])]
SuffixLength == [r \in Requests |-> Len(Suffix(r))]
CacheLength == [r \in Requests |-> Len(cache[r])]

PrefillCalls(rows) ==
  CASE kind \in {"continuous", "materialized", "paged"} -> Batches(rows, PromptLength)
    [] kind = "batched apc" ->
         LET resident == {r \in Requests : Suffix(r) = <<>>} IN
         Batches(Those(rows, Requests \ resident), SuffixLength) \o Singles(Those(rows, resident))
    [] OTHER -> Singles(rows)

DecodeCalls(rows) ==
  LET overflowing == {r \in Requests : Overflows(r)}
      full == Those(rows, overflowing)
      others == Those(rows, Requests \ overflowing)
  IN Singles(full) \o IF kind = "reference" THEN Singles(others)
                      ELSE IF others = <<>> THEN <<>> ELSE <<others>>

\* Nothing fails; or drawing or committing fails for one row; or a call does,
\* before any token is drawn.  More than one fault in a step is left out.
Faults(calls) ==
  LET members == {ToSet(calls[i]) : i \in DOMAIN calls}
  IN {{}} \cup members \cup {{r} : r \in UNION members}

-----------------------------------------------------------------------------
(* The result of each row, given the rows of its call.                     *)

CallOf(r, calls) == LET i == CHOOSE i \in DOMAIN calls : r \in ToSet(calls[i]) IN calls[i]

PrefillResult(r, call) ==
  CASE kind \in {"reference", "continuous decode"} ->
         LET window == Cropped(All(r)) IN PrefillRow(window, Len(window))
    [] kind \in {"continuous", "materialized", "paged"} ->
         PrefillRow(Prompt[r], Longest(call, PromptLength))
    [] OTHER ->
         IF Suffix(r) = <<>>
         THEN [logits |-> index[Prompt[r]].logits, entries |-> <<>>, rows |-> <<>>]
         ELSE SegmentRow(cache[r], Suffix(r), Longest(call, SuffixLength))

DecodeResult(r, call) ==
  LET token == Last(generated[r])
      window == Cropped(All(r))
  IN CASE Overflows(r) -> PrefillRow(window, Len(window))
       [] ~Overflows(r) /\ kind = "reference" -> DecodeRow(cache[r], token, CacheLength[r])
       [] ~Overflows(r) /\ kind \in (Dense \cup {"materialized"}) \ {"reference"} ->
            DecodeRow(cache[r], token, Longest(call, CacheLength))
       [] OTHER -> SegmentRow(cache[r], <<token>>, 1)

-----------------------------------------------------------------------------
(* What the engine makes of the results.                                   *)

\* Mutant: the last logits of the prompt, not those at the end of the block.
BoundaryLast(r, logits, prefix) == Last(logits)

\* Logits exist for the tokens behind the shared blocks only.
Boundary(r, logits, prefix) == logits[Len(prefix) - shared[r] * BlockTokens]

\* The complete blocks of r's prompt become shared ones, or give way to those
\* that are.
Promoted(store, r, logits) ==
  LET own == store.cache[r]
      known == [p \in PromptPrefixes |->
        IF /\ store.index[p] = Nothing
           /\ p \in PrefixesOf(r) /\ Len(p) > shared[r] * BlockTokens
        THEN [block |-> SubSeq(own, Len(p) - BlockTokens + 1, Len(p)),
              logits |-> Boundary(r, logits, p)]
        ELSE store.index[p]]
      Canonical(i) == known[PrefixOf(r, 1 + ((i - 1) \div BlockTokens))].block
      entries == [i \in DOMAIN own |->
        IF i <= FullBlocks(r) * BlockTokens
        THEN Canonical(i)[1 + ((i - 1) % BlockTokens)] ELSE own[i]]
  IN [cache |-> [store.cache EXCEPT ![r] = entries], index |-> known]

\* One row's entries are written; if it is at the end of its prompt, which final
\* says, its blocks are promoted.
Written(store, r, final, result) ==
  LET written == [cache |-> [store.cache EXCEPT ![r] = @ \o result[r].entries],
                  index |-> store.index]
  IN
  IF kind \in Prefixed /\ r \in final
  THEN Promoted(written, r, chunkLogits[r] \o result[r].rows)
  ELSE written

\* The rows of a call are committed one after the other.
Committed(rows, final, result) ==
  LET store[n \in 0 .. Len(rows)] ==
        IF n = 0 THEN [cache |-> cache, index |-> index]
        ELSE Written(store[n - 1], rows[n], final, result)
  IN store[Len(rows)]

MoreToCome(r) == Len(generated[r]) + 1 < MaxNew[r]

\* Each row of final gets its token, and leaves with the last one; those that
\* failed leave at once.  Who leaves gives its cache up.
Apply(final, failed, result, token, store) ==
  LET drew == final \ failed
      gone == failed \cup {r \in drew : ~MoreToCome(r)}
  IN
  /\ generated' = [r \in Requests |->
       IF r \in drew THEN Append(generated[r], token[r]) ELSE generated[r]]
  /\ drawn' = [r \in Requests |-> IF r \in drew THEN result[r].logits ELSE drawn[r]]
  /\ phase' = [r \in Requests |->
       CASE r \in failed -> "failed"
         [] r \in drew -> IF MoreToCome(r) THEN "decoding" ELSE "finished"
         [] OTHER -> phase[r]]
  /\ cache' = [r \in Requests |-> IF r \in gone THEN <<>> ELSE store[r]]
  /\ UNCHANGED kind

\* Prefills are batched and committed in their order; that of a decode shows in
\* nothing.
Orders(S) == UNION {SetToSeqs(T) : T \in SUBSET S \ {{}}}

-----------------------------------------------------------------------------
Init ==
  /\ kind \in Kinds
  /\ phase = [r \in Requests |-> "waiting"]
  /\ generated = [r \in Requests |-> <<>>]
  /\ drawn = [r \in Requests |-> Nothing]
  /\ cache = [r \in Requests |-> <<>>]
  /\ shared = [r \in Requests |-> 0]
  /\ chunkLogits = [r \in Requests |-> <<>>]
  /\ index = [p \in PromptPrefixes |-> Nothing]

\* The longest chain of shared blocks of the prompt is attached.
Admit(r) ==
  LET Known(b) == index[PrefixOf(r, b)] # Nothing
      hits == Max({b \in 0 .. FullBlocks(r) : \A c \in 1 .. b : Known(c)})
  IN
  /\ phase[r] = "waiting"
  /\ phase' = [phase EXCEPT ![r] = "prefilling"]
  /\ shared' = [shared EXCEPT ![r] = hits]
  /\ cache' = [cache EXCEPT ![r] =
       FlattenSeq([b \in 1 .. hits |-> index[PrefixOf(r, b)].block])]
  /\ UNCHANGED <<kind, generated, drawn, chunkLogits, index>>

\* Which blocks of a request are shared after a prefill.
SharedAfter(final, failed) == [r \in Requests |->
  IF r \in failed \/ (r \in final /\ ~MoreToCome(r)) THEN 0
  ELSE IF r \in final /\ kind \in Prefixed THEN FullBlocks(r) ELSE shared[r]]

\* Whole prompts.  With chunks these are the ones found complete in the cache.
Prefill(rows) ==
  LET calls == PrefillCalls(rows)
      final == ToSet(rows)
  IN
  /\ kind \in Chunked => \A r \in final : Suffix(r) = <<>>
  /\ \E failed \in Faults(calls), token \in [final -> Vocabulary] :
       LET result == [r \in final |-> PrefillResult(r, CallOf(r, calls))]
           done == Those(rows, Requests \ failed)
           store == Committed(done, final, result)
       IN
       /\ Apply(final, failed, result, token, store.cache)
       /\ index' = store.index
       /\ shared' = SharedAfter(final, failed)
       /\ UNCHANGED chunkLogits

\* A chunk ends with the prompt or with a block.
ChunkLengths(r) ==
  {n \in 1 .. SuffixLength[r] :
     n = SuffixLength[r] \/ (CacheLength[r] + n) % BlockTokens = 0}

PrefillChunks(rows) ==
  LET all == ToSet(rows) IN
  /\ kind \in Chunked /\ \A r \in all : Suffix(r) # <<>>
  /\ \E length \in [all -> 1 .. Window] : \E failed \in Faults(<<rows>>), token \in [all -> Vocabulary] :
       LET final == {r \in all : length[r] = SuffixLength[r]}
           Segment(r) == SubSeq(Suffix(r), 1, length[r])
           result == [r \in all |-> SegmentRow(cache[r], Segment(r), Longest(rows, length))]
           done == Those(rows, Requests \ failed)
           store == Committed(done, final, result)
       IN
       /\ \A r \in all : length[r] \in ChunkLengths(r)
       /\ Apply(final, failed, result, token, store.cache)
       /\ index' = store.index
       /\ shared' = SharedAfter(final, failed)
       /\ chunkLogits' = [r \in Requests |->
            CASE r \in final \cup failed -> <<>>
              [] r \in all \ (final \cup failed) /\ kind \in Prefixed ->
                   chunkLogits[r] \o result[r].rows
              [] OTHER -> chunkLogits[r]]

\* Dense results are whole caches, of which a pool takes the last entry unless
\* the window was rebuilt; block-aware attention returns the new entry.
DecodeStored(r, result) ==
  CASE Overflows(r) \/ kind \in Dense -> result.entries
    [] OTHER -> Append(cache[r], Last(result.entries))

Decode(rows) ==
  LET calls == DecodeCalls(rows)
      all == ToSet(rows)
  IN
  \E failed \in Faults(calls), token \in [all -> Vocabulary] :
     LET result == [r \in all |-> DecodeResult(r, CallOf(r, calls))]
         store == [r \in Requests |->
           IF r \in all THEN DecodeStored(r, result[r]) ELSE cache[r]]
     IN
     /\ Apply(all, failed, result, token, store)
     /\ shared' = [r \in Requests |->
          IF r \in all /\ (r \in failed \/ ~MoreToCome(r) \/ Overflows(r)) THEN 0 ELSE shared[r]]
     /\ UNCHANGED <<chunkLogits, index>>

\* Another request needs the blocks.
Preempt(r) ==
  /\ kind \in Chunked /\ phase[r] = "decoding"
  /\ phase' = [phase EXCEPT ![r] = "preempted"]
  /\ cache' = [cache EXCEPT ![r] = <<>>]
  /\ shared' = [shared EXCEPT ![r] = 0]
  /\ UNCHANGED <<kind, generated, drawn, chunkLogits, index>>

History(r) == Cropped(Front(All(r)))

\* The history is run again, and nothing is drawn.
Recompute(r) ==
  /\ phase[r] = "preempted"
  /\ \/ /\ phase' = [phase EXCEPT ![r] = "decoding"]
        /\ cache' = [cache EXCEPT ![r] = Alone(History(r))]
     \/ phase' = [phase EXCEPT ![r] = "failed"] /\ UNCHANGED cache
  /\ UNCHANGED <<kind, generated, drawn, shared, chunkLogits, index>>

\* A shared block that nobody uses makes room.
Evict(p) ==
  /\ index[p] # Nothing
  /\ \A r \in Requests : p \in PrefixesOf(r) => Len(p) > shared[r] * BlockTokens
  /\ index' = [index EXCEPT ![p] = Nothing]
  /\ UNCHANGED <<kind, phase, generated, drawn, cache, shared, chunkLogits>>

Next ==
  \/ \E r \in Requests : Admit(r) \/ Preempt(r) \/ Recompute(r)
  \/ \E rows \in Orders(InPhase("prefilling")) : Prefill(rows) \/ PrefillChunks(rows)
  \/ \E rows \in {SetToSeq(S) : S \in SUBSET InPhase("decoding") \ {{}}} : Decode(rows)
  \/ \E p \in PromptPrefixes : Evict(p)

Spec == Init /\ [][Next]_vars

-----------------------------------------------------------------------------
\* Every token is drawn from what uncached generation (GPT.generate) would have
\* drawn it from: the model alone over the last window of its own tokens.
TokensExact ==
  \A r \in Requests : generated[r] # <<>> => drawn[r] = Last(Alone(History(r)))

\* Between calls a cache holds what the model alone computes for the tokens run
\* so far: of the prompt, or all but the last one, cropped to the window.
CachesExact ==
  \A r \in Requests :
    /\ phase[r] = "prefilling" =>
         cache[r] = Alone(SubSeq(Prompt[r], 1, Len(cache[r])))
    /\ phase[r] = "decoding" => cache[r] = Alone(History(r))

\* A shared block holds what the model alone computes for its prefix, whoever
\* shared it and in whichever batch or chunk it was computed.
IndexExact ==
  \A p \in PromptPrefixes : index[p] # Nothing =>
    /\ index[p].logits = Last(Alone(p))
    /\ index[p].block = SubSeq(Alone(p), Len(p) - BlockTokens + 1, Len(p))

\* Batches of prompts keep their order, stay within the limits unless they are a
\* single request, and none is cut short: the next request would not fit.
BatchesWithinLimits ==
  \A rows \in Orders(InPhase("prefilling")) :
    LET batches == Batches(rows, SuffixLength) IN
    /\ FlattenSeq(batches) = rows
    /\ \A i \in DOMAIN batches :
         /\ Len(batches[i]) = 1 \/ Fits(batches[i], SuffixLength)
         /\ i < Len(batches) => ~Fits(Append(batches[i], batches[i + 1][1]), SuffixLength)

BatchingInvisible == TokensExact /\ CachesExact /\ IndexExact /\ BatchesWithinLimits
=============================================================================
