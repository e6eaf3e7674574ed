--------------------------- MODULE ServingEngine ---------------------------
(***************************************************************************)
(* The scheduler of miniGPT's ServingEngine (src/minigpt/serving.py): a     *)
(* FIFO waiting queue, an active list, and a tick that cancels, admits,     *)
(* runs model work and, in the preemptive configurations, takes the cache   *)
(* of one request away for another.  One module covers its configurations:  *)
(* monolithic prefill (Chunk = 0), token-budget scheduling with chunked     *)
(* prefill, preemption with recompute, and lazy cache reservations.         *)
(*                                                                          *)
(* One thread owns the engine.  A tick is a sequence of small steps here,   *)
(* each the treatment of one request, and tick.stage says how far it is;    *)
(* callers submit and cancel between ticks only.                            *)
(*                                                                          *)
(* Tokens are counted, not named.  A model call may fail at any time, and   *)
(* any token may be the end of sequence.  Physical blocks follow from the   *)
(* protected tokens: what the pool does with them is PagedKVCachePool, with *)
(* its prefix cache, which is off here.  Every tick has a later time than   *)
(* the one before.                                                          *)
(***************************************************************************)
EXTENDS Integers, Sequences, FiniteSets, Subsequence

CONSTANTS
    Requests,     \* request ids
    Cancelling,   \* those whose client may cancel
    Prompt,       \* Prompt[r]: tokens of the prompt
    MaxNew,       \* MaxNew[r]: max_new_tokens
    Window,       \* the model's block_size
    MaxActive,    \* max_active_requests
    MaxCached,    \* max_cached_tokens
    LifetimeCap,  \* floor(max_cached_tokens * kv_overcommit_ratio)
    NumBlocks, BlockTokens,  \* PagedKVCacheConfig
    Chunk,        \* the longest prefill chunk; 0 is monolithic prefill
    Budget,       \* max_scheduled_tokens
    Preemption,   \* kv_preemption
    Lazy,         \* lazy_kv_reservation
    NoRequest

(***************************************************************************)
(* SchedulerConfig and _validate_chunked_engine.  A longer prompt than the  *)
(* window is turned away by the paged executors before any of this.         *)
(***************************************************************************)
ASSUME ConfigAssumption ==
    /\ Window \in Nat \ {0} /\ MaxActive \in Nat \ {0} /\ MaxCached \in Nat \ {0}
    /\ NumBlocks \in Nat \ {0} /\ BlockTokens \in Nat \ {0}
    /\ Chunk \in Nat /\ Budget \in Nat /\ LifetimeCap \in Nat
    /\ Preemption \in BOOLEAN /\ Lazy \in BOOLEAN
    /\ Chunk > 0 => /\ Chunk \in BlockTokens .. Window
                    /\ Budget >= Window /\ Budget >= MaxActive - 1 + BlockTokens
    /\ Preemption => Chunk > 0
    /\ Lazy => Preemption /\ LifetimeCap >= MaxCached
ASSUME RequestAssumption ==
    /\ IsFiniteSet(Requests) /\ NoRequest \notin Requests
    /\ Cancelling \subseteq Requests
    /\ Prompt \in [Requests -> 1 .. Window] /\ MaxNew \in [Requests -> Nat]

VARIABLES
    status,     \* RequestState.status, "absent" before submit
    generated,  \* len(generated_tokens)
    cached,     \* cached_tokens
    reserved,   \* reserved_cache_tokens: the tokens protected for the request
    waiting,    \* _waiting
    active,     \* _active
    pending,    \* _pending_cancellations
    cursor,     \* _chunk_schedule_cursor
    resume,     \* _chunk_resume_decode
    blocked,    \* _growth_blocked_request_id
    decoded,    \* whose last_decode_tick is this tick
    recomputed, \* whose last_recompute_time is this tick
    tick        \* the locals of the tick under way

requestVars == <<status, generated, cached, reserved>>
queues == <<waiting, active>>
chunkVars == <<cursor, resume>>
workVars == <<decoded, recomputed>>
vars == <<requestVars, queues, pending, chunkVars, blocked, workVars, tick>>

Live == {"waiting", "prefilling", "decoding", "preempted", "recomputing"}
Terminal == {"finished", "cancelled", "failed"}
Stages == {"idle", "admit", "prefill first", "select", "decode", "prefill", "pressure"}
Chunked == Chunk > 0

Smaller(m, n) == IF m <= n THEN m ELSE n
Members(s) == {s[i] : i \in DOMAIN s}

\* Mutant: a request that leaves stays in its queue.
Kept(s, r) == s

\* A queue without its first r, or the queue itself if r is not in it.
Removed(s, r) ==
    IF r \in Members(s)
    THEN LET i == CHOOSE i \in DOMAIN s : s[i] = r
         IN SubSeq(s, 1, i - 1) \o SubSeq(s, i + 1, Len(s))
    ELSE s

\* The requests of a list in these statuses, in its order.
InStatus(s, statuses) ==
    Subsequence(s, {i \in DOMAIN s : status[s[i]] \in statuses})

-----------------------------------------------------------------------------
\* Cache demand.  A sum over requests is the size of a set of slots.

\* The cache the request needs before it finishes: its last token is not cached.
Lifetime(r) == IF MaxNew[r] = 0 THEN 0 ELSE Smaller(Window, Prompt[r] + MaxNew[r] - 1)

\* What the cache of a request with output holds, cropped to the window.
History(r) == Smaller(Window, Prompt[r] + generated[r] - 1)

\* What admission must protect now.
Current(r) == IF ~Lazy \/ MaxNew[r] = 0 THEN Lifetime(r)
              ELSE IF status[r] = "preempted" THEN History(r) ELSE Prompt[r]

Tokens(res) == Cardinality({s \in Requests \X (1 .. Window) : s[2] <= res[s[1]]})
BlocksOf(res) ==
    Cardinality({s \in Requests \X (1 .. Window) : (s[2] - 1) * BlockTokens < res[s[1]]})

\* The budget in tokens and the pool in blocks both have room for r to hold n.
\* Only resident requests hold a reservation.
Protectable(res, r, n) == /\ Tokens([res EXCEPT ![r] = n]) <= MaxCached
                          /\ BlocksOf([res EXCEPT ![r] = n]) <= NumBlocks

LifetimeDemand(S) == Tokens([r \in Requests |-> IF r \in S THEN Lifetime(r) ELSE 0])

\* Mutant: an impossible head is not told apart from one that has to wait.
ImpossibleNever(r) == FALSE

\* The request does not fit an empty cache: it can never be admitted.
Impossible(r) == \/ Lifetime(r) > MaxCached
                 \/ Lifetime(r) > NumBlocks * BlockTokens

\* Mutant: admission counts the prompt only.
CacheFitsPrompt(r) == Protectable(reserved, r, Prompt[r])
CacheFits(r) == /\ Protectable(reserved, r, Current(r))
                /\ Lazy => LifetimeDemand(Members(active) \cup {r}) <= LifetimeCap

Admissible(r) == Len(active) < MaxActive /\ CacheFits(r)

WaitingHeadNeedsCache ==
    waiting # <<>> /\ ~Impossible(Head(waiting)) /\ ~CacheFits(Head(waiting))

\* A decode rebuilds the whole window once the cache has filled it.
Rebuilds(r) == status[r] = "recomputing" \/ cached[r] >= Window
\* Mutant: the history includes the last token, which is not cached yet.
RebuiltWithLast(r) == Smaller(Window, Prompt[r] + generated[r])
Rebuilt(r) == IF status[r] = "recomputing" THEN History(r) ELSE Window

\* The model work of one decode or recompute, and the cache it leaves behind.
Work(r) == IF Rebuilds(r) THEN Rebuilt(r) ELSE 1
Target(r) == IF Rebuilds(r) THEN Rebuilt(r) ELSE cached[r] + 1

-----------------------------------------------------------------------------
\* How a request leaves the engine, and how a token reaches it.

ClearBlocked(r) == blocked' = IF blocked = r THEN NoRequest ELSE blocked

RemoveLive(r, outcome) ==
    /\ status' = [status EXCEPT ![r] = outcome]
    /\ cached' = [cached EXCEPT ![r] = 0]
    /\ reserved' = [reserved EXCEPT ![r] = 0]
    /\ waiting' = Removed(waiting, r)
    /\ active' = Removed(active, r)
    /\ ClearBlocked(r)

Fail(r) == RemoveLive(r, "failed") /\ UNCHANGED generated

\* Mutant: the maximum is noticed one token late.
MoreToComeLate(r) == generated[r] < MaxNew[r]
MoreToCome(r) == generated[r] + 1 < MaxNew[r]

\* A successful call that leaves a cache of n tokens: a result beyond the
\* reservation is refused.
Token(r, n) ==
    /\ n <= reserved[r]
    /\ generated' = [generated EXCEPT ![r] = @ + 1]
    /\ \/ RemoveLive(r, "finished")
       \/ /\ MoreToCome(r)
          /\ status' = [status EXCEPT ![r] = "decoding"]
          /\ cached' = [cached EXCEPT ![r] = n]
          /\ UNCHANGED <<reserved, queues, blocked>>

-----------------------------------------------------------------------------
Idle == [stage |-> "idle", prefills |-> <<>>, decodes |-> <<>>, selected |-> <<>>,
         deferred |-> NoRequest, budget |-> 0, batched |-> FALSE]

Init == /\ status = [r \in Requests |-> "absent"]
        /\ generated = [r \in Requests |-> 0]
        /\ cached = [r \in Requests |-> 0]
        /\ reserved = [r \in Requests |-> 0]
        /\ waiting = <<>> /\ active = <<>> /\ pending = {}
        /\ cursor = NoRequest /\ resume = NoRequest /\ blocked = NoRequest
        /\ decoded = {} /\ recomputed = {}
        /\ tick = Idle

\* Only the owner thread touches the engine, between two ticks.
\* Mutant: any thread does, at any time.
CallableAlways == TRUE
Callable == tick.stage = "idle"

Submit(r) ==
    /\ Callable /\ status[r] = "absent"
    /\ status' = [status EXCEPT ![r] = "waiting"]
    /\ waiting' = Append(waiting, r)
    /\ UNCHANGED <<generated, cached, reserved, active, pending, chunkVars, blocked,
                   workVars, tick>>

\* cancel, and a cancellation_time that passes before the next tick.
Cancel(r) ==
    /\ Callable /\ r \in Cancelling /\ status[r] \in Live /\ r \notin pending
    /\ pending' = pending \cup {r}
    /\ UNCHANGED <<requestVars, queues, chunkVars, blocked, workVars, tick>>

\* The tick looks at the active list before it applies the cancellations.
BeginTick ==
    /\ tick.stage = "idle" /\ waiting \o active # <<>>
    /\ tick' = [Idle EXCEPT !.stage = "admit", !.budget = Budget,
                    !.prefills = InStatus(active, {"prefilling"}),
                    !.decodes = InStatus(active, {"decoding", "recomputing"})]
    /\ blocked' = NoRequest /\ decoded' = {} /\ recomputed' = {}
    /\ UNCHANGED <<requestVars, queues, pending, chunkVars>>

\* Mutant: cancellations only reach requests that wait.
DoomedWaiting(r) == status[r] \in {"waiting", "preempted"}
Doomed(r) == status[r] \in Live

ApplyCancellation(r) ==
    /\ tick.stage = "admit" /\ r \in pending
    /\ pending' = pending \ {r}
    /\ IF Doomed(r) THEN RemoveLive(r, "cancelled")
       ELSE UNCHANGED <<status, cached, reserved, queues, blocked>>
    /\ UNCHANGED <<generated, chunkVars, workVars, tick>>

-----------------------------------------------------------------------------
\* _admit: strict FIFO, the head or nobody, once all cancellations are applied.
Admitting == tick.stage = "admit" /\ pending = {}

RejectHead ==
    /\ Admitting /\ waiting # <<>> /\ Impossible(Head(waiting))
    /\ status' = [status EXCEPT ![Head(waiting)] = "failed"]
    /\ waiting' = Tail(waiting)
    /\ UNCHANGED <<generated, cached, reserved, active, pending, chunkVars, blocked,
                   workVars, tick>>

\* A request without output is finished as it is admitted.
FinishHead ==
    LET r == Head(waiting) IN
    /\ Admitting /\ waiting # <<>> /\ ~Impossible(r) /\ Admissible(r)
    /\ MaxNew[r] = 0
    /\ status' = [status EXCEPT ![r] = "finished"]
    /\ waiting' = Tail(waiting)
    /\ UNCHANGED <<generated, cached, reserved, active, pending, chunkVars, blocked,
                   workVars, tick>>

AdmitHead ==
    LET r == Head(waiting) IN
    /\ Admitting /\ waiting # <<>> /\ ~Impossible(r) /\ Admissible(r)
    /\ MaxNew[r] > 0
    /\ reserved' = [reserved EXCEPT ![r] = Current(r)]
    /\ status' = [status EXCEPT
                    ![r] = IF @ = "preempted" THEN "recomputing" ELSE "prefilling"]
    /\ waiting' = Tail(waiting)
    /\ active' = Append(active, r)
    /\ UNCHANGED <<generated, cached, pending, chunkVars, blocked, workVars, tick>>

Rotate(s) ==
    IF cursor \in Members(s)
    THEN LET i == CHOOSE i \in DOMAIN s : s[i] = cursor
         IN SubSeq(s, i, Len(s)) \o SubSeq(s, 1, i - 1)
    ELSE s

\* Admission is over: what was active before, and still is, gets work.
ChooseWork ==
    LET prefills == InStatus(tick.prefills, {"prefilling"})
        decodes == InStatus(tick.decodes, {"decoding", "recomputing"})
        prefillFirst == cursor \in Members(prefills)
    IN
    /\ Admitting
    /\ waiting # <<>> => ~Impossible(Head(waiting)) /\ ~Admissible(Head(waiting))
    /\ \/ /\ ~Chunked
          /\ tick' = [tick EXCEPT !.stage = "prefill", !.prefills = prefills,
                                  !.decodes = <<>>, !.selected = decodes]
       \/ /\ Chunked /\ prefillFirst
          /\ tick' = [tick EXCEPT !.stage = "prefill first", !.prefills = Rotate(prefills),
                                  !.decodes = decodes]
       \/ /\ Chunked /\ ~prefillFirst
          /\ tick' = [tick EXCEPT !.stage = "select", !.prefills = prefills,
                                  !.decodes = Rotate(decodes)]
    /\ UNCHANGED <<requestVars, queues, pending, chunkVars, blocked, workVars>>

-----------------------------------------------------------------------------
\* Prefill: the whole prompt, or chunks in order until the budget is spent.

\* Mutant: a chunk may exceed what the decodes have left of the budget.
ChunkLengthFull(r) == IF Chunked THEN Smaller(Prompt[r] - cached[r], Chunk) ELSE Prompt[r]
ChunkLength(r) ==
    LET rest == Prompt[r] - cached[r]
        length == Smaller(rest, Smaller(Chunk, tick.budget))
    IN IF ~Chunked THEN Prompt[r]
       ELSE IF length < rest THEN length - (length % BlockTokens) ELSE length

PrefillStages == {"prefill", "prefill first"}

Prefill(r) ==
    LET n == ChunkLength(r) IN
    /\ tick.stage \in PrefillStages /\ tick.prefills # <<>> /\ r = Head(tick.prefills)
    /\ status[r] = "prefilling" /\ n > 0
    /\ \/ Fail(r)
       \/ /\ cached[r] + n < Prompt[r] /\ cached[r] + n <= reserved[r]
          /\ cached' = [cached EXCEPT ![r] = @ + n]
          /\ UNCHANGED <<status, generated, reserved, queues, blocked>>
       \/ cached[r] + n = Prompt[r] /\ Token(r, Prompt[r])
    /\ tick' = [tick EXCEPT !.prefills = Tail(@), !.batched = TRUE,
                            !.budget = IF Chunked THEN @ - n ELSE @]
    /\ UNCHANGED <<pending, chunkVars, workVars>>

\* The batch limits (rows, padded tokens, padding ratio) may end the batch
\* after any row but not before the first.
PrefillOver ==
    tick.prefills # <<>> => ChunkLength(Head(tick.prefills)) <= 0 \/ (Chunked /\ tick.batched)

FirstOf(s) == IF s = <<>> THEN NoRequest ELSE Head(s)

EndPrefill ==
    /\ tick.stage = "prefill" /\ PrefillOver
    /\ cursor' = FirstOf(tick.prefills)
    /\ tick' = [tick EXCEPT !.stage = IF Chunked THEN "pressure" ELSE "decode"]
    /\ UNCHANGED <<requestVars, queues, pending, resume, blocked, workVars>>

\* Decoding goes next, from the request that was deferred for this prefill.
EndPrefillFirst ==
    /\ tick.stage = "prefill first" /\ PrefillOver
    /\ cursor' = IF resume \in Members(tick.decodes) THEN resume
                 ELSE IF tick.decodes # <<>> THEN Head(tick.decodes)
                 ELSE FirstOf(tick.prefills)
    /\ resume' = NoRequest
    /\ tick' = [tick EXCEPT !.stage = "pressure"]
    /\ UNCHANGED <<requestVars, queues, pending, blocked, workVars>>

-----------------------------------------------------------------------------
\* Decode: select in order until one does not fit, then run what was selected.

\* Whether the work fits the budget, and whether its cache is, or can be, protected.
Affordable(r) == Work(r) <= tick.budget
Covered(r) == Lazy => Target(r) <= reserved[r] \/ Protectable(reserved, r, Target(r))

\* Mutant: the growth is checked but not made.
GrownNever(r) == reserved[r]
Grown(r) == IF Lazy /\ reserved[r] < Target(r) THEN Target(r) ELSE reserved[r]

SelectDecode ==
    LET r == Head(tick.decodes) IN
    /\ tick.stage = "select" /\ tick.decodes # <<>> /\ Affordable(r) /\ Covered(r)
    /\ reserved' = [reserved EXCEPT ![r] = Grown(r)]
    /\ ClearBlocked(r)
    /\ tick' = [tick EXCEPT !.decodes = Tail(@), !.selected = Append(@, r),
                            !.budget = @ - Work(r)]
    /\ UNCHANGED <<status, generated, cached, queues, pending, chunkVars, workVars>>

DeferDecode ==
    LET r == Head(tick.decodes) IN
    /\ tick.stage = "select" /\ tick.decodes # <<>> /\ ~(Affordable(r) /\ Covered(r))
    /\ blocked' = IF Affordable(r) THEN r ELSE blocked
    /\ tick' = [tick EXCEPT !.stage = "decode", !.deferred = r]
    /\ UNCHANGED <<requestVars, queues, pending, chunkVars, workVars>>

EndSelection ==
    /\ tick.stage = "select" /\ tick.decodes = <<>>
    /\ tick' = [tick EXCEPT !.stage = "decode"]
    /\ UNCHANGED <<requestVars, queues, pending, chunkVars, blocked, workVars>>

NextSelected(r) ==
    tick.stage = "decode" /\ tick.selected # <<>> /\ r = Head(tick.selected)

Decode(r) ==
    /\ NextSelected(r) /\ status[r] = "decoding"
    /\ \/ Fail(r) /\ UNCHANGED decoded
       \/ Token(r, Target(r)) /\ decoded' = decoded \cup {r}
    /\ tick' = [tick EXCEPT !.selected = Tail(@)]
    /\ UNCHANGED <<pending, chunkVars, recomputed>>

\* Rebuilding the cache samples nothing.
Recompute(r) ==
    /\ NextSelected(r) /\ status[r] = "recomputing"
    /\ \/ Fail(r) /\ UNCHANGED recomputed
       \/ /\ cached' = [cached EXCEPT ![r] = Rebuilt(r)]
          /\ status' = [status EXCEPT ![r] = "decoding"]
          /\ recomputed' = recomputed \cup {r}
          /\ UNCHANGED <<generated, reserved, queues, blocked>>
    /\ tick' = [tick EXCEPT !.selected = Tail(@)]
    /\ UNCHANGED <<pending, chunkVars, decoded>>

\* A deferred decode makes the next tick start with the prefills, if there are
\* any, and come back to it afterwards.
EndDecode ==
    /\ tick.stage = "decode" /\ tick.selected = <<>>
    /\ IF tick.deferred = NoRequest THEN UNCHANGED chunkVars
       ELSE IF tick.prefills = <<>> THEN cursor' = tick.deferred /\ UNCHANGED resume
       ELSE cursor' = Head(tick.prefills) /\ resume' = tick.deferred
    /\ tick' = [tick EXCEPT !.stage = IF Chunked /\ tick.deferred = NoRequest
                                      THEN "prefill" ELSE "pressure"]
    /\ UNCHANGED <<requestVars, queues, pending, blocked, workVars>>

-----------------------------------------------------------------------------
\* Preemption, after the work of the tick.  The victim is a decoding request
\* and keeps its tokens; its cache is computed again when it comes back.

Candidates(S) == {r \in S \cap Members(active) : status[r] = "decoding"}

\* The first of the set S of requests in the active list.
Before(r, q) == \E i, j \in DOMAIN active : i < j /\ active[i] = r /\ active[j] = q
FirstActive(r, S) == r \in S /\ \A q \in S \ {r} : Before(r, q)

\* Those that have not just spent the tick on computing their cache.
Settled == Requests \ recomputed

Preempt(r) ==
    /\ tick.stage = "pressure" /\ Preemption
    /\ status' = [status EXCEPT ![r] = "preempted"]
    /\ cached' = [cached EXCEPT ![r] = 0]
    /\ waiting' = Append(waiting, r)
    /\ active' = Removed(active, r)
    /\ cursor' = IF cursor = r THEN NoRequest ELSE cursor
    /\ resume' = IF resume = r THEN NoRequest ELSE resume
    /\ tick' = Idle
    /\ UNCHANGED <<generated, pending, workVars>>

\* For growth: one that has decoded in this tick, else any.
\* Mutant: a blocker may be its own victim.
GrowthVictimsSelf == Candidates(Settled)
\* Mutant: without the fallback.
GrowthVictimsDecoders == Candidates((Settled \ {blocked}) \cap decoded)
GrowthVictims == LET others == Settled \ {blocked}
                     decoders == Candidates(others \cap decoded)
                 IN IF decoders # {} THEN decoders ELSE Candidates(others)

\* The growth is tried again at once, before the victim can take the room back.
PreemptForGrowth(r) ==
    LET freed == [reserved EXCEPT ![r] = 0]
        fits == Protectable(freed, blocked, Target(blocked))
    IN
    /\ blocked # NoRequest /\ FirstActive(r, GrowthVictims)
    /\ Preempt(r)
    /\ reserved' = IF fits THEN [freed EXCEPT ![blocked] = Target(blocked)] ELSE freed
    /\ blocked' = IF fits THEN NoRequest ELSE blocked

\* For the waiting head: the first that has decoded in this tick.
\* Mutant: also one that has made no progress since it came back.
HeadVictimsAny == Candidates(Requests)
HeadVictims == Candidates(Settled \cap decoded)

PreemptForHead(r) ==
    /\ blocked = NoRequest /\ WaitingHeadNeedsCache /\ FirstActive(r, HeadVictims)
    /\ Preempt(r)
    /\ reserved' = [reserved EXCEPT ![r] = 0]
    /\ UNCHANGED blocked

EndTick ==
    /\ tick.stage = "pressure"
    /\ Preemption => IF blocked # NoRequest THEN GrowthVictims = {}
                     ELSE WaitingHeadNeedsCache => HeadVictims = {}
    /\ tick' = Idle
    /\ UNCHANGED <<requestVars, queues, pending, chunkVars, blocked, workVars>>

-----------------------------------------------------------------------------
TickStep ==
    \/ BeginTick
    \/ RejectHead \/ FinishHead \/ AdmitHead \/ ChooseWork
    \/ EndPrefill \/ EndPrefillFirst
    \/ SelectDecode \/ DeferDecode \/ EndSelection \/ EndDecode
    \/ \E r \in Requests : \/ ApplyCancellation(r)
                          \/ Prefill(r) \/ Decode(r) \/ Recompute(r)
                          \/ PreemptForGrowth(r) \/ PreemptForHead(r)
    \/ EndTick

Next == TickStep \/ \E r \in Requests : Submit(r) \/ Cancel(r)

\* The owner ticks as long as a request is waiting or active (run_until_idle,
\* the engine runner), and a tick ends.
Spec == Init /\ [][Next]_vars /\ WF_vars(TickStep)

-----------------------------------------------------------------------------
TickLocals ==
    [stage : Stages, prefills : Seq(Requests), decodes : Seq(Requests),
     selected : Seq(Requests), deferred : Requests \cup {NoRequest},
     budget : 0 .. Budget, batched : BOOLEAN]

\* Every field of the engine has the type its declaration gives it, and the
\* work of a tick never exceeds its token budget.
TypeOK ==
    /\ status \in [Requests -> Live \cup Terminal \cup {"absent"}]
    /\ generated \in [Requests -> Nat]
    /\ cached \in [Requests -> 0 .. Window] /\ reserved \in [Requests -> 0 .. Window]
    /\ waiting \in Seq(Requests) /\ active \in Seq(Requests)
    /\ pending \subseteq Requests /\ decoded \subseteq Requests
    /\ recomputed \subseteq Requests
    /\ {cursor, resume, blocked} \subseteq Requests \cup {NoRequest}
    /\ tick \in TickLocals

HasEachOnce(s, S) == Members(s) = S /\ Len(s) = Cardinality(S)
WithStatus(statuses) == {r \in Requests : status[r] \in statuses}
Residents == WithStatus({"prefilling", "decoding", "recomputing"})

\* The queues and the statuses are two views of the same thing, kept in step
\* by every handler: a request that is neither waiting nor active and not
\* terminal would be lost, one that is listed twice would run twice in a tick.
QueuesMatchStatus == /\ HasEachOnce(waiting, WithStatus({"waiting", "preempted"}))
                     /\ HasEachOnce(active, Residents)

\* What is protected never exceeds the token budget and the pool, whatever
\* mixture of admission, growth, preemption and failure led here, and the
\* demand of the residents never exceeds the overcommit cap.
CapacityRespected ==
    /\ Len(active) <= MaxActive
    /\ Tokens(reserved) <= MaxCached /\ BlocksOf(reserved) <= NumBlocks
    /\ Lazy => LifetimeDemand(Members(active)) <= LifetimeCap

\* The cache of a request holds exactly its history when it decodes, also after
\* a preemption, never exceeds what is protected for it, and is gone when it
\* is not resident.
CacheMatchesHistory ==
    \A r \in Requests :
        /\ cached[r] <= reserved[r] /\ reserved[r] <= Lifetime(r)
        /\ status[r] = "decoding" => cached[r] = History(r)
        /\ status[r] = "prefilling" => cached[r] < Prompt[r] /\ generated[r] = 0
        /\ r \notin Residents => reserved[r] = 0

\* What the engine keeps about its requests is consistent between any two steps
\* of a tick: queues, statuses, caches, reservations and capacity, and no tick
\* has spent more than its budget (TypeOK).
BookkeepingConsistent == TypeOK /\ QueuesMatchStatus /\ CapacityRespected /\ CacheMatchesHistory

\* "Every model operation has enough protected cache capacity before execution":
\* no selected decode or recompute can be refused for its reservation, although
\* other requests grow, finish and fail between its selection and its turn.
WorkIsCovered ==
    \A r \in Members(tick.selected) :
        /\ status[r] \in {"decoding", "recomputing"}
        /\ Target(r) <= reserved[r]

\* "No terminal request may retain growth pressure state": the growth blocker is
\* a resident decoder that still lacks its next reservation.
BlockerIsResident ==
    blocked # NoRequest => /\ status[blocked] = "decoding"
                           /\ Target(blocked) > reserved[blocked]

\* From the moment its cancellation is requested a request yields no token, and
\* the only way on is to be cancelled.
CancelIsFinal ==
    [][\A r \in pending : /\ generated'[r] = generated[r]
                          /\ status'[r] \in {status[r], "cancelled"}]_vars

\* The engine keeps the promise of RequestLifecycle: in particular preemption,
\* recompute and deferral neither lose nor repeat a token.
Lifecycle ==
    INSTANCE RequestLifecycle
    WITH outcome <- [r \in Requests |-> IF status[r] \in Live THEN "open" ELSE status[r]],
         tokens <- generated
ImplementsLifecycle == Lifecycle!Spec

\* "Finite mixed workloads complete without starvation."
WorkloadsComplete ==
    \A r \in Requests : status[r] = "waiting" ~> status[r] \in Terminal

\* The one way not to complete: a growth blocker whose only company is a
\* request that waits behind it to recompute, and so can never be a victim.
GrowthStall ==
    /\ blocked # NoRequest /\ GrowthVictims = {}
    /\ \E r \in Requests : status[r] = "recomputing" /\ reserved[r] > 0
CompletesUnlessStalled ==
    \A r \in Requests : status[r] = "waiting" ~> (status[r] \in Terminal \/ GrowthStall)

\* A cancellation is not lost, wherever it finds the request.
CancellationsApply ==
    \A r \in Requests : r \in pending ~> status[r] = "cancelled"
=============================================================================
