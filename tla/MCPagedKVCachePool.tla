------------------------ MODULE MCPagedKVCachePool ------------------------
(***************************************************************************)
(* Instances of PagedKVCachePool for TLC.  Prompts "a" and "b" share their *)
(* first block, "a" has a second complete one and "b" an incomplete one;   *)
(* the whole prompt of "c" is the shared block.                            *)
(*                                                                         *)
(* The variants are the configurations of a pool: with a prefix cache and  *)
(* reservations for the lifetime, as in the .cfg; with reservations that   *)
(* grow; and without a prefix cache, so that overflow windows are rebuilt  *)
(* in place.  A behaviour is one of a single variant.                      *)
(***************************************************************************)
EXTENDS PagedKVCachePool, TLC

VARIABLE variant

Growing == INSTANCE PagedKVCachePool WITH Lazy <- TRUE
Private == INSTANCE PagedKVCachePool WITH PrefixEnabled <- FALSE, RebuildLengths <- {2, 3, 4}

MCChain ==
    [r \in Requests |-> CASE r = "a" -> <<"h1", "h2">>
                          [] r = "b" -> <<"h1">>
                          [] r = "c" -> <<"h1">>]
MCHashes == {"h1", "h2"}
MCPromptLen == [r \in Requests |-> CASE r = "a" -> 4 [] r = "b" -> 3 [] r = "c" -> 2]
MCLifetime == [r \in Requests |-> 4]

\* The clock only orders the shared blocks, nothing reads a free block before
\* it is written again, and the prefix hit is used until the promotion: states
\* that differ in nothing else are the same.
Recency(b) ==
    IF blocks[b].state = "shared"
    THEN Cardinality({c \in DOMAIN blocks : blocks[c].state = "shared" /\ Older(blocks, c, b)})
    ELSE 0
View == <<variant, [b \in Blocks |-> [blocks[b] EXCEPT !.lastUsed = Recency(b)]],
          [b \in Blocks |-> IF b \in free THEN NoHash ELSE content[b]],
          [r \in Requests |-> IF phase[r] = "prefill" THEN prefixHit[r] ELSE 0],
          free, tables, prefixIndex, recentEvictions, phase, engine>>

SharingStep == variant = "sharing" /\ Next /\ UNCHANGED variant
GrowingStep == variant = "growing" /\ Growing!Next /\ UNCHANGED variant
PrivateStep == variant = "private" /\ Private!Next /\ UNCHANGED variant

VariantsInit == Init /\ variant \in {"sharing", "growing", "private"}
SharingInit == Init /\ variant = "sharing"

VariantsSpec ==
  /\ VariantsInit
  /\ [][SharingStep \/ GrowingStep \/ PrivateStep]_<<vars, variant>>

SharingSpec == SharingInit /\ [][SharingStep]_<<vars, variant>>
=============================================================================
