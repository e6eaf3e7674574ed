------------------------ MODULE ServingEngine_proofs ------------------------
(***************************************************************************)
(* Proofs about ServingEngine, for every configuration and workload: that   *)
(* it implements RequestLifecycle, that cancellation is final, and that its *)
(* bookkeeping is consistent, selected work covered and the growth blocker  *)
(* resident between any two steps of a tick.                                *)
(***************************************************************************)
EXTENDS ServingEngine, CollectionTheorems

\* No request is listed twice.
Distinct(s) == \A i, j \in DOMAIN s : s[i] = s[j] => i = j

\* Taking a request out of a queue leaves the others, once each.
LEMMA RemovedFacts ==
    ASSUME NEW T, NEW s \in Seq(T), NEW r, Distinct(s)
    PROVE  /\ Removed(s, r) \in Seq(T)
           /\ Distinct(Removed(s, r))
           /\ \A k \in DOMAIN Removed(s, r) :
                 /\ Removed(s, r)[k] # r
                 /\ \E i \in DOMAIN s : Removed(s, r)[k] = s[i]
<1>1. CASE r \notin Members(s)
    <2>1. Removed(s, r) = s
        BY <1>1 DEF Removed
    <2>2. QED
        BY <1>1, <2>1 DEF Members
<1>2. CASE r \in Members(s)
    <2> DEFINE i == CHOOSE i \in DOMAIN s : s[i] = r
               a == SubSeq(s, 1, i - 1)
               b == SubSeq(s, i + 1, Len(s))
               t == a \o b
    <2>1. i \in DOMAIN s /\ s[i] = r
        BY <1>2 DEF Members
    <2>2. Removed(s, r) = t
        BY <1>2 DEF Removed
    <2> HIDE DEF i
    <2>3. i \in 1 .. Len(s) /\ Len(s) \in Nat
        BY <2>1
    <2>4. /\ a \in Seq(T) /\ Len(a) = i - 1 /\ \A k \in 1 .. i - 1 : a[k] = s[k]
          /\ b \in Seq(T) /\ Len(b) = Len(s) - i
          /\ \A k \in 1 .. Len(s) - i : b[k] = s[i + k]
        BY <2>3
    <2> HIDE DEF a, b
    <2>5. t \in Seq(T) /\ Len(t) = Len(s) - 1
        <3>1. t \in Seq(T)
            BY <2>4
        <3>2. Len(t) = Len(a) + Len(b)
            BY <2>4, SMTT(30)
        <3>3. QED
            BY <2>3, <2>4, <3>1, <3>2
    <2>6. ASSUME NEW k \in 1 .. Len(s) - 1
          PROVE  t[k] = IF k < i THEN s[k] ELSE s[k + 1]
        <3>1. CASE k < i
            BY <2>3, <2>4, <3>1
        <3>2. CASE k >= i
            <4>1. t[k] = b[k - (i - 1)]
                BY <2>3, <2>4, <3>2
            <4>2. k - (i - 1) \in 1 .. Len(s) - i /\ i + (k - (i - 1)) = k + 1
                BY <2>3, <3>2
            <4>3. QED
                BY <2>3, <2>4, <3>2, <4>1, <4>2
        <3>3. k < i \/ k >= i
            BY <2>3
        <3>4. QED
            BY <3>1, <3>2, <3>3
    <2>7. DOMAIN t = 1 .. Len(s) - 1
        BY <2>5
    <2> HIDE DEF t
    <2>8. Distinct(t)
        BY <2>3, <2>6, <2>7 DEF Distinct
    <2>9. ASSUME NEW k \in DOMAIN t
          PROVE  t[k] # r /\ \E j \in DOMAIN s : t[k] = s[j]
        BY <2>1, <2>3, <2>6, <2>7 DEF Distinct
    <2>10. QED
        BY <2>2, <2>5, <2>8, <2>9
<1>3. QED
    BY <1>1, <1>2

-----------------------------------------------------------------------------
(***************************************************************************)
(* The invariant behind the refinement.  A token is produced, and a request *)
(* finishes without one, by what its status says, so the statuses must tell  *)
(* the truth about the tokens, and the queue about the statuses.             *)
(***************************************************************************)
Statuses == Live \cup Terminal \cup {"absent"}
Queued == {"waiting", "preempted"}
Resident == {"prefilling", "decoding", "recomputing"}

StatusTypes == /\ status \in [Requests -> Statuses]
               /\ generated \in [Requests -> Nat]
               /\ waiting \in Seq(Requests)
QueueTrue == /\ Distinct(waiting)
             /\ \A i \in DOMAIN waiting : status[waiting[i]] \in Queued
TokensTrue ==
    \A r \in Requests :
        /\ status[r] \in {"absent", "waiting"} => generated[r] = 0
        /\ status[r] \in Resident \cup {"preempted"} => generated[r] < MaxNew[r]
LifecycleInv == StatusTypes /\ QueueTrue /\ TokensTrue

\* What RequestLifecycle sees of the engine.
Outcome == [r \in Requests |-> IF status[r] \in Live THEN "open" ELSE status[r]]

\* A step that changes no status, token or queue is a stutter.
LEMMA Quiet ==
    ASSUME LifecycleInv, UNCHANGED <<status, generated, waiting>>
    PROVE  LifecycleInv' /\ UNCHANGED <<Outcome, generated>>
BY DEF LifecycleInv, StatusTypes, QueueTrue, TokensTrue, Outcome

\* Retiring a live request keeps the invariant and closes that request.
LEMMA Retires ==
    ASSUME LifecycleInv, NEW r \in Requests, status[r] \in Live,
           NEW o \in Terminal, RemoveLive(r, o),
           generated' \in [Requests -> Nat],
           \A q \in Requests \ {r} : generated'[q] = generated[q]
    PROVE  LifecycleInv' /\ Outcome' = [Outcome EXCEPT ![r] = o]
<1>1. status' = [status EXCEPT ![r] = o] /\ waiting' = Removed(waiting, r)
    BY DEF RemoveLive
<1>2. StatusTypes'
    <2>1. waiting' \in Seq(Requests)
        BY <1>1, RemovedFacts DEF LifecycleInv, StatusTypes, QueueTrue
    <2>2. QED
        BY <1>1, <2>1 DEF LifecycleInv, StatusTypes, Statuses
<1>3. QueueTrue'
    <2>1. Distinct(waiting')
        BY <1>1, RemovedFacts DEF LifecycleInv, StatusTypes, QueueTrue
    <2>2. ASSUME NEW k \in DOMAIN waiting'
          PROVE  status'[waiting'[k]] \in Queued
        <3>1. PICK i \in DOMAIN waiting : waiting'[k] = waiting[i] /\ waiting'[k] # r
            BY <1>1, RemovedFacts DEF LifecycleInv, StatusTypes, QueueTrue
        <3>2. waiting[i] \in Requests /\ status[waiting[i]] \in Queued
            BY DEF LifecycleInv, StatusTypes, QueueTrue
        <3>3. QED
            BY <1>1, <3>1, <3>2 DEF LifecycleInv, StatusTypes
    <2>3. QED
        BY <2>1, <2>2 DEF QueueTrue
<1>4. TokensTrue'
    BY <1>1 DEF LifecycleInv, StatusTypes, TokensTrue, Terminal, Resident
<1>5. Outcome' = [Outcome EXCEPT ![r] = o]
    BY <1>1 DEF LifecycleInv, StatusTypes, Outcome, Terminal, Live
<1>6. QED
    BY <1>2, <1>3, <1>4, <1>5 DEF LifecycleInv

\* A resident request that stays so, or changes from one resident status to
\* another, stays open.
LEMMA Stays ==
    ASSUME LifecycleInv, NEW r \in Requests, status[r] \in Resident,
           NEW st \in Resident, status' = [status EXCEPT ![r] = st],
           waiting' = waiting, generated' \in [Requests -> Nat],
           \A q \in Requests \ {r} : generated'[q] = generated[q],
           generated'[r] < MaxNew[r]
    PROVE  LifecycleInv' /\ Outcome' = Outcome
<1>1. StatusTypes'
    BY DEF LifecycleInv, StatusTypes, Statuses, Resident, Live
<1>2. QueueTrue'
    <2>1. ASSUME NEW k \in DOMAIN waiting
          PROVE  status'[waiting[k]] \in Queued
        <3>1. waiting[k] \in Requests /\ status[waiting[k]] \in Queued
            BY DEF LifecycleInv, StatusTypes, QueueTrue
        <3>2. waiting[k] # r
            BY <3>1 DEF Queued, Resident
        <3>3. QED
            BY <3>1, <3>2 DEF LifecycleInv, StatusTypes
    <2>2. QED
        BY <2>1 DEF LifecycleInv, QueueTrue, Distinct
<1>3. TokensTrue'
    BY DEF LifecycleInv, StatusTypes, TokensTrue, Resident
<1>4. Outcome' = Outcome
    BY DEF LifecycleInv, StatusTypes, Outcome, Resident, Live
<1>5. QED
    BY <1>1, <1>2, <1>3, <1>4 DEF LifecycleInv

\* A successful call yields one token, and closes the request if it is the last.
LEMMA Yields ==
    ASSUME LifecycleInv, NEW r \in Requests, NEW n, Token(r, n), status[r] \in Resident
    PROVE  LifecycleInv' /\ Lifecycle!Token(r)
<1>1. /\ generated' = [generated EXCEPT ![r] = generated[r] + 1]
      /\ generated' \in [Requests -> Nat]
      /\ \A q \in Requests \ {r} : generated'[q] = generated[q]
    BY DEF Token, LifecycleInv, StatusTypes
<1>2. Outcome[r] = "open" /\ generated[r] < MaxNew[r]
    BY DEF LifecycleInv, TokensTrue, Outcome, Resident, Live
<1>3. CASE RemoveLive(r, "finished")
    <2>1. LifecycleInv' /\ Outcome' = [Outcome EXCEPT ![r] = "finished"]
        BY <1>1, <1>3, Retires DEF Resident, Live, Terminal
    <2>2. QED
        BY <1>1, <1>2, <2>1 DEF Lifecycle!Token, Outcome
<1>4. CASE /\ MoreToCome(r)
           /\ status' = [status EXCEPT ![r] = "decoding"]
           /\ waiting' = waiting
    <2>1. generated'[r] < MaxNew[r]
        BY <1>1, <1>4 DEF MoreToCome, LifecycleInv, StatusTypes
    <2>2. LifecycleInv' /\ Outcome' = Outcome
        BY <1>1, <1>4, <2>1, Stays DEF Resident
    <2>3. QED
        BY <1>1, <1>2, <2>1, <2>2 DEF Lifecycle!Token, Outcome
<1>5. QED
    BY <1>3, <1>4 DEF Token, queues

\* A failing call closes the request and yields nothing.
LEMMA Fails ==
    ASSUME LifecycleInv, NEW r \in Requests, Fail(r), status[r] \in Resident
    PROVE  LifecycleInv' /\ Lifecycle!Fail(r)
<1>1. LifecycleInv' /\ Outcome' = [Outcome EXCEPT ![r] = "failed"] /\ generated' = generated
    BY Retires DEF Fail, Resident, Live, Terminal, LifecycleInv, StatusTypes
<1>2. Outcome[r] = "open"
    BY DEF Outcome, Resident, Live
<1>3. QED
    BY <1>1, <1>2 DEF Lifecycle!Fail, Outcome

\* The head of the queue is a queued request, and the rest are others.
LEMMA HeadFacts ==
    ASSUME LifecycleInv, waiting # <<>>
    PROVE  /\ Head(waiting) \in Requests /\ status[Head(waiting)] \in Queued
           /\ Tail(waiting) \in Seq(Requests) /\ Distinct(Tail(waiting))
           /\ \A k \in DOMAIN Tail(waiting) :
                 /\ Tail(waiting)[k] # Head(waiting)
                 /\ Tail(waiting)[k] \in Requests /\ status[Tail(waiting)[k]] \in Queued
<1>1. waiting \in Seq(Requests) /\ Len(waiting) \in Nat \ {0} /\ Head(waiting) = waiting[1]
    BY DEF LifecycleInv, StatusTypes
<1>2. /\ Tail(waiting) \in Seq(Requests) /\ DOMAIN Tail(waiting) = 1 .. Len(waiting) - 1
      /\ \A k \in 1 .. Len(waiting) - 1 : Tail(waiting)[k] = waiting[k + 1]
    BY <1>1
<1>3. QED
    BY <1>1, <1>2 DEF LifecycleInv, QueueTrue, Distinct

\* The head leaves the queue for a status that is not a queued one.
LEMMA HeadLeaves ==
    ASSUME LifecycleInv, waiting # <<>>, waiting' = Tail(waiting),
           NEW st \in Resident \cup Terminal,
           status' = [status EXCEPT ![Head(waiting)] = st], generated' = generated,
           st \in Resident => generated[Head(waiting)] < MaxNew[Head(waiting)]
    PROVE  /\ LifecycleInv'
           /\ Outcome' = [Outcome EXCEPT ![Head(waiting)] = IF st \in Live THEN "open" ELSE st]
<1> DEFINE r == Head(waiting)
<1>1. r \in Requests /\ status[r] \in Queued
    BY HeadFacts
<1>2. StatusTypes'
    BY <1>1, HeadFacts DEF LifecycleInv, StatusTypes, Statuses, Resident, Terminal, Live
<1>3. QueueTrue'
    BY <1>1, HeadFacts DEF LifecycleInv, StatusTypes, QueueTrue
<1>4. TokensTrue'
    BY <1>1 DEF LifecycleInv, StatusTypes, TokensTrue, Resident, Terminal
<1>5. Outcome' = [Outcome EXCEPT ![r] = IF st \in Live THEN "open" ELSE st]
    BY <1>1 DEF LifecycleInv, StatusTypes, Outcome
<1>6. QED
    BY <1>2, <1>3, <1>4, <1>5 DEF LifecycleInv

-----------------------------------------------------------------------------
\* The engine starts where the lifecycle does.
LEMMA LifecycleInit == Init => LifecycleInv /\ Lifecycle!Init
BY RequestAssumption
   DEF Init, LifecycleInv, StatusTypes, QueueTrue, TokensTrue, Statuses, Distinct,
       Lifecycle!Init, Live, Resident

\* Every step of the engine is a step of the lifecycle, or a stutter.
LEMMA LifecycleStep ==
    ASSUME LifecycleInv, [Next]_vars
    PROVE  LifecycleInv' /\ [Lifecycle!Next]_<<Outcome, generated>>
<1>1. ASSUME NEW r \in Requests, Submit(r)
      PROVE  LifecycleInv' /\ Lifecycle!Submit(r)
    <2>1. /\ status[r] = "absent" /\ status' = [status EXCEPT ![r] = "waiting"]
          /\ waiting' = Append(waiting, r) /\ generated' = generated
        BY <1>1 DEF Submit
    <2>2. StatusTypes'
        BY <2>1 DEF LifecycleInv, StatusTypes, Statuses, Live
    <2>3. \A k \in DOMAIN waiting : waiting[k] # r
        BY <2>1 DEF LifecycleInv, QueueTrue, Queued
    <2>4. QueueTrue'
        BY <2>1, <2>3 DEF LifecycleInv, StatusTypes, QueueTrue, Distinct, Queued
    <2>5. TokensTrue'
        BY <2>1 DEF LifecycleInv, StatusTypes, TokensTrue, Resident
    <2>6. Lifecycle!Submit(r)
        BY <2>1 DEF LifecycleInv, StatusTypes, Lifecycle!Submit, Live
    <2>7. QED
        BY <2>2, <2>4, <2>5, <2>6 DEF LifecycleInv
<1>2. ASSUME NEW r \in Requests, ApplyCancellation(r)
      PROVE  LifecycleInv' /\ (Lifecycle!Cancel(r) \/ UNCHANGED <<Outcome, generated>>)
    <2>1. generated' = generated /\ generated' \in [Requests -> Nat]
        BY <1>2 DEF ApplyCancellation, LifecycleInv, StatusTypes
    <2>2. CASE status[r] \in Live /\ RemoveLive(r, "cancelled")
        <3>1. LifecycleInv' /\ Outcome' = [Outcome EXCEPT ![r] = "cancelled"]
            BY <2>1, <2>2, Retires DEF Terminal
        <3>2. QED
            BY <2>1, <2>2, <3>1 DEF Lifecycle!Cancel, Outcome
    <2>3. CASE UNCHANGED <<status, waiting>>
        BY <2>1, <2>3, Quiet
    <2>4. QED
        BY <1>2, <2>2, <2>3 DEF ApplyCancellation, Doomed, queues
<1>3. ASSUME NEW r \in Requests, waiting # <<>>, r = Head(waiting), RejectHead
      PROVE  LifecycleInv' /\ Lifecycle!Fail(r)
    <2>1. /\ waiting' = Tail(waiting) /\ generated' = generated
          /\ status' = [status EXCEPT ![r] = "failed"]
        BY <1>3 DEF RejectHead
    <2>2. LifecycleInv' /\ Outcome' = [Outcome EXCEPT ![r] = "failed"]
        BY <1>3, <2>1, HeadLeaves DEF Resident, Terminal, Live
    <2>3. Outcome[r] = "open"
        BY <1>3, HeadFacts DEF Outcome, Queued, Live
    <2>4. QED
        BY <2>1, <2>2, <2>3 DEF Lifecycle!Fail, Outcome
<1>4. ASSUME NEW r \in Requests, waiting # <<>>, r = Head(waiting), FinishHead
      PROVE  LifecycleInv' /\ Lifecycle!FinishEmpty(r)
    <2>1. /\ waiting' = Tail(waiting) /\ generated' = generated
          /\ status' = [status EXCEPT ![r] = "finished"]
          /\ MaxNew[r] = 0
        BY <1>4 DEF FinishHead
    <2>2. LifecycleInv' /\ Outcome' = [Outcome EXCEPT ![r] = "finished"]
        BY <1>4, <2>1, HeadLeaves DEF Resident, Terminal, Live
    <2>3. Outcome[r] = "open"
        BY <1>4, HeadFacts DEF Outcome, Queued, Live
    <2>4. QED
        BY <2>1, <2>2, <2>3 DEF Lifecycle!FinishEmpty, Outcome
<1>5. CASE AdmitHead
    <2> DEFINE r == Head(waiting)
               st == IF status[r] = "preempted" THEN "recomputing" ELSE "prefilling"
    <2>1. waiting # <<>> /\ waiting' = Tail(waiting) /\ generated' = generated /\ MaxNew[r] > 0
        BY <1>5 DEF AdmitHead
    <2>2. r \in Requests /\ status[r] \in Queued
        BY <2>1, HeadFacts
    <2>3. status' = [status EXCEPT ![r] = st] /\ st \in Resident
        BY <1>5 DEF AdmitHead, Resident
    <2>4. generated[r] < MaxNew[r]
        BY <2>1, <2>2 DEF LifecycleInv, TokensTrue, Queued
    <2> HIDE DEF st
    <2>5. LifecycleInv' /\ Outcome' = [Outcome EXCEPT ![r] = IF st \in Live THEN "open" ELSE st]
        BY <2>1, <2>3, <2>4, HeadLeaves
    <2>6. st \in Live /\ Outcome[r] = "open"
        BY <2>2, <2>3 DEF Resident, Live, Queued, Outcome
    <2>7. Outcome' = Outcome
        BY <2>5, <2>6 DEF Outcome
    <2>8. QED
        BY <2>1, <2>5, <2>7
<1>6. ASSUME NEW r \in Requests, Prefill(r)
      PROVE  /\ LifecycleInv'
             /\ \/ Lifecycle!Token(r) \/ Lifecycle!Fail(r)
                \/ UNCHANGED <<Outcome, generated>>
    <2>1. status[r] \in Resident
        BY <1>6 DEF Prefill, Resident
    <2>2. CASE Fail(r)
        BY <2>1, <2>2, Fails
    <2>3. CASE UNCHANGED <<status, generated, waiting>>
        BY <2>3, Quiet
    <2>4. CASE Token(r, Prompt[r])
        BY <2>1, <2>4, Yields
    <2>5. QED
        BY <1>6, <2>2, <2>3, <2>4 DEF Prefill, queues
<1>7. ASSUME NEW r \in Requests, Decode(r)
      PROVE  LifecycleInv' /\ (Lifecycle!Token(r) \/ Lifecycle!Fail(r))
    <2>1. status[r] \in Resident
        BY <1>7 DEF Decode, Resident
    <2>2. CASE Fail(r)
        BY <2>1, <2>2, Fails
    <2>3. CASE Token(r, Target(r))
        BY <2>1, <2>3, Yields
    <2>4. QED
        BY <1>7, <2>2, <2>3 DEF Decode
<1>8. ASSUME NEW r \in Requests, Recompute(r)
      PROVE  LifecycleInv' /\ (Lifecycle!Fail(r) \/ UNCHANGED <<Outcome, generated>>)
    <2>1. status[r] \in Resident
        BY <1>8 DEF Recompute, Resident
    <2>2. CASE Fail(r)
        BY <2>1, <2>2, Fails
    <2>3. CASE status' = [status EXCEPT ![r] = "decoding"] /\ UNCHANGED <<generated, waiting>>
        <3>1. generated'[r] < MaxNew[r] /\ generated' \in [Requests -> Nat]
            BY <2>1, <2>3 DEF LifecycleInv, StatusTypes, TokensTrue
        <3>2. QED
            BY <2>1, <2>3, <3>1, Stays DEF Resident
    <2>4. QED
        BY <1>8, <2>2, <2>3 DEF Recompute, queues
<1>9. ASSUME NEW r \in Requests, Preempt(r), status[r] = "decoding"
      PROVE  LifecycleInv' /\ UNCHANGED <<Outcome, generated>>
    <2>1. /\ status' = [status EXCEPT ![r] = "preempted"] /\ generated' = generated
          /\ waiting' = Append(waiting, r)
        BY <1>9 DEF Preempt
    <2>2. StatusTypes'
        BY <2>1 DEF LifecycleInv, StatusTypes, Statuses, Live
    <2>3. \A k \in DOMAIN waiting : waiting[k] # r
        BY <1>9 DEF LifecycleInv, QueueTrue, Queued
    <2>4. QueueTrue'
        BY <2>1, <2>3 DEF LifecycleInv, StatusTypes, QueueTrue, Distinct, Queued
    <2>5. TokensTrue'
        BY <1>9, <2>1 DEF LifecycleInv, StatusTypes, TokensTrue, Resident
    <2>6. Outcome' = Outcome
        BY <1>9, <2>1 DEF LifecycleInv, StatusTypes, Outcome, Live
    <2>7. QED
        BY <2>1, <2>2, <2>4, <2>5, <2>6 DEF LifecycleInv
<1>10. ASSUME NEW r \in Requests, PreemptForGrowth(r) \/ PreemptForHead(r)
       PROVE  Preempt(r) /\ status[r] = "decoding"
    BY <1>10 DEF PreemptForGrowth, PreemptForHead, FirstActive, GrowthVictims, HeadVictims,
                 Candidates
<1>11. CASE \/ BeginTick \/ ChooseWork \/ EndPrefill \/ EndPrefillFirst
            \/ SelectDecode \/ DeferDecode \/ EndSelection \/ EndDecode \/ EndTick
            \/ (\E r \in Requests : Cancel(r))
            \/ UNCHANGED vars
    <2>1. UNCHANGED <<status, generated, waiting>>
        BY <1>11 DEF BeginTick, ChooseWork, EndPrefill, EndPrefillFirst, SelectDecode,
                     DeferDecode, EndSelection, EndDecode, EndTick, Cancel, vars,
                     requestVars, queues
    <2>2. QED
        BY <2>1, Quiet
<1>12. CASE \E r \in Requests : Submit(r) \/ ApplyCancellation(r) \/ Prefill(r)
                                \/ Decode(r) \/ Recompute(r)
    BY <1>1, <1>2, <1>6, <1>7, <1>8, <1>12 DEF Lifecycle!Next
<1>13. CASE \E r \in Requests : PreemptForGrowth(r) \/ PreemptForHead(r)
    BY <1>9, <1>10, <1>13
<1>14. CASE RejectHead \/ FinishHead
    <2>1. waiting # <<>> /\ \E r \in Requests : r = Head(waiting)
        BY <1>14, HeadFacts DEF RejectHead, FinishHead
    <2>2. QED
        BY <1>3, <1>4, <1>14, <2>1 DEF Lifecycle!Next
<1>15. QED
    BY <1>5, <1>11, <1>12, <1>13, <1>14 DEF Next, TickStep

\* ImplementsLifecycle, for any workload and configuration: the engine keeps the
\* promise of RequestLifecycle.  Preemption, recompute, deferral and failure
\* neither lose nor repeat a token, exceed a maximum, or reopen a request.
THEOREM LifecycleImplemented == Spec => ImplementsLifecycle
<1>1. LifecycleInv /\ [Next]_vars => LifecycleInv' /\ [Lifecycle!Next]_<<Outcome, generated>>
    BY LifecycleStep
<1>2. QED
    BY <1>1, LifecycleInit, PTL DEF Spec, ImplementsLifecycle, Lifecycle!Spec, Outcome

-----------------------------------------------------------------------------
(***************************************************************************)
(* Cancellation.  A request is pending only while it is live, and only until *)
(* the tick has applied the cancellations: model work meets no pending one.  *)
(***************************************************************************)
PendingInv ==
    /\ \A r \in pending : r \in Requests /\ status[r] \in Live
    /\ pending # {} => tick.stage \in {"idle", "admit"}

Untouched(r) == generated'[r] = generated[r] /\ status'[r] \in {status[r], "cancelled"}

\* No step lets a pending request yield a token or go anywhere but "cancelled".
LEMMA PendingStep ==
    ASSUME LifecycleInv, PendingInv, [Next]_vars
    PROVE  PendingInv' /\ \A r \in pending : Untouched(r)
<1>1. ASSUME NEW r \in Requests, Submit(r)
      PROVE  PendingInv' /\ \A q \in pending : Untouched(q)
    BY <1>1 DEF Submit, Callable, LifecycleInv, StatusTypes, PendingInv, Untouched, Live
<1>2. ASSUME NEW r \in Requests, Cancel(r)
      PROVE  PendingInv' /\ \A q \in pending : Untouched(q)
    BY <1>2 DEF Cancel, Callable, requestVars, PendingInv, Untouched
<1>3. CASE BeginTick
    <2>1. tick'.stage = "admit"
        BY <1>3 DEF BeginTick, Idle
    <2>2. UNCHANGED <<pending, status, generated>>
        BY <1>3 DEF BeginTick, requestVars
    <2>3. QED
        BY <2>1, <2>2 DEF PendingInv, Untouched
<1>4. ASSUME NEW r \in Requests, ApplyCancellation(r)
      PROVE  PendingInv' /\ \A q \in pending : Untouched(q)
    <2>1. /\ pending' = pending \ {r} /\ generated' = generated /\ tick' = tick
          /\ status' = [status EXCEPT ![r] = "cancelled"] \/ status' = status
        BY <1>4 DEF ApplyCancellation, RemoveLive
    <2>2. QED
        BY <2>1 DEF LifecycleInv, StatusTypes, PendingInv, Untouched
<1>5. CASE UNCHANGED vars
    BY <1>5 DEF vars, requestVars, PendingInv, Untouched
<1>6. CASE \/ RejectHead \/ FinishHead \/ AdmitHead \/ ChooseWork
           \/ EndPrefill \/ EndPrefillFirst
           \/ SelectDecode \/ DeferDecode \/ EndSelection \/ EndDecode \/ EndTick
    <2>1. pending = {} /\ pending' = {}
        BY <1>6 DEF RejectHead, FinishHead, AdmitHead, ChooseWork, Admitting, EndPrefill,
                    EndPrefillFirst, SelectDecode, DeferDecode, EndSelection, EndDecode,
                    EndTick, PendingInv
    <2>2. QED
        BY <2>1 DEF PendingInv
<1>7. ASSUME NEW r \in Requests,
             \/ Prefill(r) \/ Decode(r) \/ Recompute(r)
             \/ PreemptForGrowth(r) \/ PreemptForHead(r)
      PROVE  PendingInv' /\ \A q \in pending : Untouched(q)
    <2>1. pending = {} /\ pending' = {}
        BY <1>7 DEF Prefill, PrefillStages, Decode, Recompute, NextSelected, Preempt,
                    PreemptForGrowth, PreemptForHead, PendingInv
    <2>2. QED
        BY <2>1 DEF PendingInv
<1>8. QED
    BY <1>1, <1>2, <1>3, <1>4, <1>5, <1>6, <1>7 DEF Next, TickStep

\* CancelIsFinal, for any workload and configuration: once a cancellation is
\* requested no step of the engine yields a token of the request, or moves it
\* anywhere but to "cancelled".
THEOREM CancellationFinal == Spec => CancelIsFinal
<1>1. Init => LifecycleInv /\ PendingInv
    BY LifecycleInit DEF Init, PendingInv
<1>2. LifecycleInv /\ PendingInv /\ [Next]_vars
          => /\ LifecycleInv' /\ PendingInv'
             /\ \A r \in pending : Untouched(r)
    BY LifecycleStep, PendingStep
<1>3. (\A r \in pending : Untouched(r)) =>
          \A r \in pending : /\ generated'[r] = generated[r]
                             /\ status'[r] \in {status[r], "cancelled"}
    BY DEF Untouched
<1>4. QED
    BY <1>1, <1>2, <1>3, PTL DEF Spec, CancelIsFinal

-----------------------------------------------------------------------------
(***************************************************************************)
(* Lists of requests: what the operators of the queues and of a tick's      *)
(* lists return.                                                            *)
(***************************************************************************)
\* InStatus lists requests of the list that have one of the statuses, once each
\* if the list does: the ranks of the chosen positions are a bijection.
LEMMA InStatusFacts ==
    ASSUME NEW T, NEW s \in Seq(T), NEW statuses
    PROVE  /\ InStatus(s, statuses) \in Seq(T)
           /\ \A k \in DOMAIN InStatus(s, statuses) :
                 \E i \in DOMAIN s : /\ InStatus(s, statuses)[k] = s[i]
                                     /\ status[s[i]] \in statuses
           /\ Distinct(s) => Distinct(InStatus(s, statuses))
<1> DEFINE chosen == {i \in DOMAIN s : status[s[i]] \in statuses}
<1>1. InStatus(s, statuses) = Subsequence(s, chosen)
    BY DEF InStatus
<1>2. chosen \in SUBSET DOMAIN s /\ \A i \in chosen : status[s[i]] \in statuses
    OBVIOUS
<1> HIDE DEF chosen
<1>3. Distinct(s) => \A i, j \in chosen : s[i] = s[j] => i = j
    BY <1>2 DEF Distinct
<1> DEFINE t == Subsequence(s, chosen)
<1>4. /\ t \in Seq(T)
      /\ \A k \in DOMAIN t : \E i \in chosen : t[k] = s[i]
      /\ (\A i, j \in chosen : s[i] = s[j] => i = j)
         => \A j, k \in DOMAIN t : t[j] = t[k] => j = k
    BY <1>2, SubsequenceElements
<1> HIDE DEF t
<1>5. Distinct(s) => Distinct(t)
    BY <1>3, <1>4 DEF Distinct
<1>6. \A k \in DOMAIN t : \E i \in DOMAIN s : t[k] = s[i] /\ status[s[i]] \in statuses
    BY <1>2, <1>4
<1>7. QED
    BY <1>1, <1>4, <1>5, <1>6 DEF t

\* A list without repetitions is as long as its set of members.
LEMMA DistinctLength ==
    ASSUME NEW T, NEW s \in Seq(T), Distinct(s), IsFiniteSet(T)
    PROVE  Len(s) = Cardinality(Members(s))
<1>1. Len(s) \in Nat /\ DOMAIN s = 1 .. Len(s)
    OBVIOUS
<1>2. IsFiniteSet(1 .. Len(s)) /\ Cardinality(1 .. Len(s)) = Len(s)
    BY <1>1, FS_Interval
<1>3. s \in Bijection(1 .. Len(s), Members(s))
    <2>1. s \in [1 .. Len(s) -> Members(s)]
        BY DEF Members
    <2>2. \A i, j \in 1 .. Len(s) : s[i] = s[j] => i = j
        BY DEF Distinct
    <2>3. \A m \in Members(s) : \E i \in 1 .. Len(s) : s[i] = m
        BY DEF Members
    <2>4. QED
        BY <2>1, <2>2, <2>3 DEF Bijection, Injection, IsInjective, Surjection
<1>4. ExistsBijection(1 .. Len(s), Members(s))
    BY <1>3 DEF ExistsBijection
<1>5. QED
    BY <1>2, <1>4, FS_Bijection

\* Rotating a list keeps its members, once each.
LEMMA RotateFacts ==
    ASSUME NEW T, NEW s \in Seq(T)
    PROVE  /\ Rotate(s) \in Seq(T)
           /\ Distinct(s) => Distinct(Rotate(s))
           /\ \A k \in DOMAIN Rotate(s) : \E i \in DOMAIN s : Rotate(s)[k] = s[i]
<1>1. CASE cursor \notin Members(s)
    <2>1. Rotate(s) = s
        BY <1>1 DEF Rotate
    <2>2. QED
        BY <2>1
<1>2. CASE cursor \in Members(s)
    <2> DEFINE i == CHOOSE i \in DOMAIN s : s[i] = cursor
               a == SubSeq(s, i, Len(s))
               b == SubSeq(s, 1, i - 1)
               t == a \o b
    <2>1. i \in DOMAIN s
        BY <1>2 DEF Members
    <2>2. Rotate(s) = t
        BY <1>2 DEF Rotate
    <2> HIDE DEF i
    <2>3. i \in 1 .. Len(s) /\ Len(s) \in Nat
        BY <2>1
    <2> DEFINE m == Len(s) - i + 1
    <2>4. /\ a \in Seq(T) /\ Len(a) = m /\ \A k \in 1 .. m : a[k] = s[i + k - 1]
          /\ b \in Seq(T) /\ Len(b) = i - 1
          /\ \A k \in 1 .. i - 1 : b[k] = s[k]
        BY <2>3
    <2> HIDE DEF a, b
    <2>5. t \in Seq(T) /\ Len(t) = Len(s)
        <3>1. a \in Seq(T) /\ b \in Seq(T)
            BY <2>4
        <3>2. t \in Seq(T) /\ Len(t) = Len(a) + Len(b)
            BY <3>1
        <3>3. QED
            BY <2>3, <2>4, <3>2
    <2>6. ASSUME NEW k \in 1 .. Len(s)
          PROVE  t[k] = IF k <= m THEN s[i + k - 1] ELSE s[k - m]
        <3>1. CASE k <= m
            BY <2>3, <2>4, <3>1
        <3>2. CASE k > m
            <4>1. t[k] = b[k - m]
                BY <2>3, <2>4, <3>2
            <4>2. k - m \in 1 .. i - 1
                BY <2>3, <3>2
            <4>3. QED
                BY <2>3, <2>4, <3>2, <4>1, <4>2
        <3>3. k <= m \/ k > m
            BY <2>3
        <3>4. QED
            BY <3>1, <3>2, <3>3
    <2>7. DOMAIN t = 1 .. Len(s)
        BY <2>5
    <2> HIDE DEF t
    <2> DEFINE p(k) == IF k <= m THEN i + k - 1 ELSE k - m
    <2>8. \A k \in 1 .. Len(s) : p(k) \in DOMAIN s /\ t[k] = s[p(k)]
        BY <2>3, <2>6
    <2>9. \A k, l \in 1 .. Len(s) : p(k) = p(l) => k = l
        BY <2>3
    <2> HIDE DEF p
    <2>10. Distinct(s) => Distinct(t)
        BY <2>7, <2>8, <2>9 DEF Distinct
    <2>11. ASSUME NEW k \in DOMAIN t
           PROVE  \E j \in DOMAIN s : t[k] = s[j]
        BY <2>7, <2>8
    <2>12. QED
        BY <2>2, <2>5, <2>10, <2>11
<1>3. QED
    BY <1>1, <1>2

\* Taking out a request keeps all the others.
LEMMA RemovedMembers ==
    ASSUME NEW T, NEW s \in Seq(T), NEW r, Distinct(s)
    PROVE  /\ Members(Removed(s, r)) = Members(s) \ {r}
           /\ Removed(s, r) \in Seq(T)
           /\ Distinct(Removed(s, r))
<1>1. Members(Removed(s, r)) \subseteq Members(s) \ {r}
    BY RemovedFacts DEF Members
<1>2. ASSUME NEW q \in Members(s) \ {r}
      PROVE  q \in Members(Removed(s, r))
    <2>1. CASE r \notin Members(s)
        BY <2>1 DEF Removed
    <2>2. CASE r \in Members(s)
        <3> DEFINE i == CHOOSE i \in DOMAIN s : s[i] = r
                   a == SubSeq(s, 1, i - 1)
                   b == SubSeq(s, i + 1, Len(s))
        <3>1. i \in DOMAIN s /\ s[i] = r
            BY <2>2 DEF Members
        <3>2. Removed(s, r) = a \o b
            BY <2>2 DEF Removed
        <3> HIDE DEF i
        <3>3. i \in 1 .. Len(s) /\ Len(s) \in Nat
            BY <3>1
        <3>4. /\ a \in Seq(T) /\ Len(a) = i - 1 /\ \A k \in 1 .. i - 1 : a[k] = s[k]
              /\ b \in Seq(T) /\ Len(b) = Len(s) - i
              /\ \A k \in 1 .. Len(s) - i : b[k] = s[i + k]
            BY <3>3
        <3> HIDE DEF a, b
        <3>5. PICK j \in DOMAIN s : s[j] = q
            BY DEF Members
        <3>6. j \in 1 .. Len(s) /\ j # i
            BY <3>1, <3>5
        <3> DEFINE k == IF j < i THEN j ELSE j - 1
        <3>7. k \in 1 .. Len(s) - 1
            BY <3>3, <3>6
        <3>8. (a \o b)[k] = q
            <4>1. CASE j < i
                BY <3>3, <3>4, <3>5, <3>6, <4>1
            <4>2. CASE j > i
                <5>1. j - i \in 1 .. Len(s) - i /\ k = i - 1 + (j - i) /\ i + (j - i) = j
                    BY <3>3, <3>6, <4>2
                <5>2. (a \o b)[k] = b[j - i]
                    BY <3>3, <3>4, <3>6, <4>2
                <5>3. QED
                    BY <3>4, <3>5, <5>1, <5>2
            <4>3. j < i \/ j > i
                BY <3>3, <3>6
            <4>4. QED
                BY <4>1, <4>2, <4>3
        <3>9. DOMAIN (a \o b) = 1 .. Len(s) - 1
            <4>1. a \o b \in Seq(T) /\ Len(a \o b) = Len(a) + Len(b)
                <5>1. a \in Seq(T) /\ b \in Seq(T)
                    BY <3>4
                <5>2. QED
                    BY <5>1
            <4>2. Len(a) + Len(b) = Len(s) - 1
                BY <3>3, <3>4
            <4>3. QED
                BY <4>1, <4>2
        <3> HIDE DEF k
        <3>10. QED
            BY <3>2, <3>7, <3>8, <3>9 DEF Members
    <2>3. QED
        BY <2>1, <2>2
<1>3. QED
    BY <1>1, <1>2, RemovedFacts

\* Appending a request adds it.
LEMMA AppendMembers ==
    ASSUME NEW T, NEW s \in Seq(T), NEW r \in T, Distinct(s), r \notin Members(s)
    PROVE  /\ Members(Append(s, r)) = Members(s) \cup {r}
           /\ Append(s, r) \in Seq(T)
           /\ Distinct(Append(s, r))
<1> DEFINE t == Append(s, r)
           n == Len(s)
<1>1. /\ t \in Seq(T) /\ DOMAIN t = 1 .. n + 1 /\ n \in Nat /\ DOMAIN s = 1 .. n
      /\ t[n + 1] = r /\ \A i \in 1 .. n : t[i] = s[i]
    OBVIOUS
<1> HIDE DEF t, n
<1>2. \A i \in 1 .. n : s[i] # r
    BY <1>1 DEF Members
<1>3. Distinct(t)
    BY <1>1, <1>2 DEF Distinct
<1>4. Members(t) = Members(s) \cup {r}
    <2>1. \A i \in 1 .. n + 1 : i \in 1 .. n \/ i = n + 1
        BY <1>1
    <2>2. n + 1 \in 1 .. n + 1 /\ \A i \in 1 .. n : i \in 1 .. n + 1
        BY <1>1
    <2>3. QED
        BY <1>1, <2>1, <2>2 DEF Members
<1>5. QED
    BY <1>1, <1>3, <1>4 DEF t

\* Taking the head removes it.
LEMMA TailMembers ==
    ASSUME NEW T, NEW s \in Seq(T), s # <<>>, Distinct(s)
    PROVE  /\ Members(Tail(s)) = Members(s) \ {Head(s)}
           /\ Head(s) \in T /\ Head(s) \in Members(s)
           /\ Tail(s) \in Seq(T)
           /\ Distinct(Tail(s))
<1> DEFINE t == Tail(s)
           n == Len(s)
<1>1. /\ t \in Seq(T) /\ n \in Nat \ {0} /\ DOMAIN s = 1 .. n /\ DOMAIN t = 1 .. n - 1
      /\ Head(s) = s[1] /\ s[1] \in T
      /\ \A i \in 1 .. n - 1 : t[i] = s[i + 1]
    OBVIOUS
<1> HIDE DEF t, n
<1>2. Distinct(t)
    <2>1. ASSUME NEW k \in 1 .. n - 1, NEW l \in 1 .. n - 1, t[k] = t[l]
          PROVE  k = l
        <3>1. s[k + 1] = s[l + 1] /\ k + 1 \in DOMAIN s /\ l + 1 \in DOMAIN s
            BY <1>1, <2>1
        <3>2. k + 1 = l + 1
            BY <3>1 DEF Distinct
        <3>3. QED
            BY <3>2
    <2>2. QED
        BY <1>1, <2>1 DEF Distinct
<1>3. Members(t) \subseteq Members(s) \ {s[1]}
    BY <1>1, SMTT(30) DEF Members, Distinct
<1>4. ASSUME NEW q \in Members(s), q # s[1]
      PROVE  q \in Members(t)
    <2>1. PICK i \in 1 .. n : s[i] = q
        BY <1>1 DEF Members
    <2>2. i - 1 \in 1 .. n - 1 /\ i - 1 + 1 = i
        BY <1>1, <1>4, <2>1
    <2>3. QED
        BY <1>1, <2>1, <2>2 DEF Members
<1>5. 1 \in 1 .. n
    BY <1>1
<1>6. QED
    BY <1>1, <1>2, <1>3, <1>4, <1>5 DEF t, Members

-----------------------------------------------------------------------------
(***************************************************************************)
(* Capacity.  A sum of tokens or blocks is the size of a set of slots, and  *)
(* grows with what is protected for each request.                           *)
(***************************************************************************)
Amounts == [Requests -> 0 .. Window]
TokenSlots(res) == {s \in Requests \X (1 .. Window) : s[2] <= res[s[1]]}
BlockSlots(res) == {s \in Requests \X (1 .. Window) : (s[2] - 1) * BlockTokens < res[s[1]]}

\* Protecting less for every request takes no more tokens and no more blocks.
LEMMA DemandMonotone ==
    ASSUME NEW f \in Amounts, NEW g \in Amounts, \A q \in Requests : f[q] <= g[q]
    PROVE  /\ Tokens(f) \in Nat /\ Tokens(g) \in Nat /\ Tokens(f) <= Tokens(g)
           /\ BlocksOf(f) \in Nat /\ BlocksOf(g) \in Nat /\ BlocksOf(f) <= BlocksOf(g)
<1> DEFINE slots == Requests \X (1 .. Window)
<1>1. IsFiniteSet(slots)
    <2>1. IsFiniteSet(1 .. Window)
        BY ConfigAssumption, FS_Interval
    <2>2. QED
        BY <2>1, RequestAssumption, FS_Product
<1>2. TokenSlots(g) \in SUBSET slots /\ BlockSlots(g) \in SUBSET slots
    BY DEF TokenSlots, BlockSlots
<1>3. TokenSlots(f) \in SUBSET TokenSlots(g)
    <2>1. ASSUME NEW q \in Requests, NEW k \in 1 .. Window, k <= f[q]
          PROVE  k <= g[q]
        BY <2>1, ConfigAssumption DEF Amounts
    <2>2. QED
        BY <2>1 DEF TokenSlots
<1>4. BlockSlots(f) \in SUBSET BlockSlots(g)
    <2>1. ASSUME NEW q \in Requests, NEW k \in 1 .. Window, (k - 1) * BlockTokens < f[q]
          PROVE  (k - 1) * BlockTokens < g[q]
        <3>1. (k - 1) * BlockTokens \in Int
            BY ConfigAssumption
        <3>2. f[q] \in Int /\ g[q] \in Int /\ f[q] <= g[q]
            BY ConfigAssumption DEF Amounts
        <3>3. QED
            BY <2>1, <3>1, <3>2
    <2>2. QED
        BY <2>1 DEF BlockSlots
<1> HIDE DEF slots
<1>5. IsFiniteSet(TokenSlots(g)) /\ IsFiniteSet(BlockSlots(g))
    BY <1>1, <1>2, FS_Subset
<1>6. /\ Cardinality(TokenSlots(f)) \in Nat /\ Cardinality(TokenSlots(g)) \in Nat
      /\ Cardinality(TokenSlots(f)) <= Cardinality(TokenSlots(g))
    BY <1>3, <1>5, FS_Subset, FS_CardinalityType
<1>7. /\ Cardinality(BlockSlots(f)) \in Nat /\ Cardinality(BlockSlots(g)) \in Nat
      /\ Cardinality(BlockSlots(f)) <= Cardinality(BlockSlots(g))
    BY <1>4, <1>5, FS_Subset, FS_CardinalityType
<1>8. /\ Tokens(f) = Cardinality(TokenSlots(f)) /\ Tokens(g) = Cardinality(TokenSlots(g))
      /\ BlocksOf(f) = Cardinality(BlockSlots(f)) /\ BlocksOf(g) = Cardinality(BlockSlots(g))
    BY DEF Tokens, BlocksOf, TokenSlots, BlockSlots
<1>9. QED
    BY <1>6, <1>7, <1>8

\* Lifetimes fit the window.
LEMMA LifetimeFits ==
    \A r \in Requests : Lifetime(r) \in 0 .. Window
BY ConfigAssumption, RequestAssumption DEF Lifetime, Smaller

\* Fewer residents have less lifetime demand.
LEMMA LifetimeMonotone ==
    ASSUME NEW S, NEW U, S \subseteq U
    PROVE  LifetimeDemand(S) \in Nat /\ LifetimeDemand(U) \in Nat
           /\ LifetimeDemand(S) <= LifetimeDemand(U)
<1> DEFINE f == [r \in Requests |-> IF r \in S THEN Lifetime(r) ELSE 0]
           g == [r \in Requests |-> IF r \in U THEN Lifetime(r) ELSE 0]
<1>1. f \in Amounts /\ g \in Amounts
    BY LifetimeFits, ConfigAssumption DEF Amounts
<1>2. \A q \in Requests : f[q] <= g[q]
    BY LifetimeFits, ConfigAssumption
<1>3. LifetimeDemand(S) = Tokens(f) /\ LifetimeDemand(U) = Tokens(g)
    BY DEF LifetimeDemand
<1> HIDE DEF f, g
<1>4. QED
    BY <1>1, <1>2, <1>3, DemandMonotone

-----------------------------------------------------------------------------
(***************************************************************************)
(* The invariant behind BookkeepingConsistent, WorkIsCovered and            *)
(* BlockerIsResident, which need each other: work that is covered when it   *)
(* is selected keeps caches within reservations, caches that match their    *)
(* history bound the next target by the lifetime, and the blocker differs   *)
(* from everything selected because its work is not covered.                *)
(***************************************************************************)
RequestTypes ==
    /\ status \in [Requests -> Statuses] /\ generated \in [Requests -> Nat]
    /\ cached \in Amounts /\ reserved \in Amounts
    /\ waiting \in Seq(Requests) /\ active \in Seq(Requests)
    /\ blocked \in Requests \cup {NoRequest}
QueuesTrue ==
    /\ Distinct(waiting) /\ Members(waiting) = WithStatus(Queued)
    /\ Distinct(active) /\ Members(active) = WithStatus(Resident)

\* What holds of one request between any two steps.
CacheOf(r) ==
    /\ cached[r] <= reserved[r] /\ reserved[r] <= Lifetime(r)
    /\ status[r] = "decoding" => cached[r] = History(r)
    /\ status[r] = "prefilling" => cached[r] < Prompt[r] /\ generated[r] = 0
    /\ status[r] = "recomputing" => History(r) <= reserved[r]
    /\ status[r] \notin Resident => reserved[r] = 0
    /\ status[r] \in Resident /\ ~Lazy => reserved[r] = Lifetime(r)
    /\ status[r] \in {"absent", "waiting"} => generated[r] = 0
    /\ status[r] \in Resident \cup {"preempted"} => generated[r] < MaxNew[r]
RequestsTrue ==
    /\ RequestTypes /\ QueuesTrue /\ CapacityRespected
    /\ \A r \in Requests : CacheOf(r)
    /\ BlockerIsResident

\* A step leaves the other requests alone.
Others(r) == \A q \in Requests \ {r} : /\ status'[q] = status[q]
                                       /\ generated'[q] = generated[q]
                                       /\ cached'[q] = cached[q]
                                       /\ reserved'[q] = reserved[q]

\* What holds of a request keeps holding while a step leaves it alone.
LEMMA CachesStay ==
    ASSUME NEW r \in Requests, Others(r), \A q \in Requests : CacheOf(q), CacheOf(r)'
    PROVE  \A q \in Requests : CacheOf(q)'
<1>1. ASSUME NEW q \in Requests \ {r}
      PROVE  CacheOf(q)'
    BY DEF Others, CacheOf, History, Lifetime
<1>2. QED
    BY <1>1

\* So does its next target.
LEMMA TargetStays ==
    ASSUME NEW r \in Requests, Others(r)
    PROVE  \A q \in Requests \ {r} : Target(q)' = Target(q)
BY DEF Others, Target, Rebuilds, Rebuilt, History

\* The blocker keeps blocking while a step leaves it alone.
LEMMA BlockerStays ==
    ASSUME NEW r \in Requests, Others(r), BlockerIsResident,
           blocked \in Requests \cup {NoRequest},
           blocked' # NoRequest => blocked' = blocked /\ blocked # r
    PROVE  BlockerIsResident'
<1> SUFFICES ASSUME blocked' # NoRequest
             PROVE  status'[blocked'] = "decoding" /\ Target(blocked)' > reserved'[blocked']
    BY DEF BlockerIsResident
<1>1. blocked' = blocked /\ blocked \in Requests \ {r}
    OBVIOUS
<1>2. Target(blocked)' = Target(blocked)
    <2>1. ASSUME NEW q \in Requests \ {r}, blocked = q, blocked' = q
          PROVE  Target(blocked)' = Target(blocked)
        BY <2>1 DEF Others, Target, Rebuilds, Rebuilt, History
    <2>2. QED
        BY <1>1, <2>1
<1>3. QED
    BY <1>1, <1>2 DEF Others, BlockerIsResident

\* The requests of a status, after one request has changed its own.
LEMMA StatusSets ==
    ASSUME NEW r \in Requests, NEW o, status \in [Requests -> Statuses],
           status' = [status EXCEPT ![r] = o], NEW X
    PROVE  WithStatus(X)' = IF o \in X THEN WithStatus(X) \cup {r} ELSE WithStatus(X) \ {r}
BY DEF WithStatus

\* Without an admission the residents do not become more, nor their lifetimes.
LEMMA ActiveShrinks ==
    ASSUME CapacityRespected, RequestTypes, QueuesTrue, QueuesTrue',
           active' \in Seq(Requests), Members(active') \subseteq Members(active)
    PROVE  /\ Len(active') <= MaxActive
           /\ Lazy => LifetimeDemand(Members(active')) <= LifetimeCap
<1>1. Lazy => LifetimeDemand(Members(active')) <= LifetimeCap
    <2> DEFINE a == LifetimeDemand(Members(active))
               b == LifetimeDemand(Members(active'))
    <2>1. a \in Nat /\ b \in Nat /\ b <= a
        BY LifetimeMonotone
    <2>2. Lazy => a <= LifetimeCap
        BY DEF CapacityRespected
    <2> HIDE DEF a, b
    <2>3. Lazy => b <= LifetimeCap
        BY <2>1, <2>2, ConfigAssumption
    <2>4. QED
        BY <2>3 DEF b
<1>2. Len(active') <= MaxActive
    <2> DEFINE m == Cardinality(Members(active))
               n == Cardinality(Members(active'))
    <2>1. Len(active) = m
        BY DistinctLength, RequestAssumption DEF RequestTypes, QueuesTrue
    <2>2. Len(active') = n
        BY DistinctLength, RequestAssumption DEF QueuesTrue
    <2>3. IsFiniteSet(Members(active))
        <3>1. Members(active) \in SUBSET Requests
            BY DEF QueuesTrue, WithStatus
        <3>2. QED
            BY <3>1, RequestAssumption, FS_Subset
    <2>4. m \in Nat /\ n \in Nat /\ n <= m
        BY <2>3, FS_Subset, FS_CardinalityType
    <2> HIDE DEF m, n
    <2>5. m <= MaxActive
        BY <2>1 DEF CapacityRespected
    <2>6. n <= MaxActive
        BY <2>4, <2>5, ConfigAssumption
    <2>7. QED
        BY <2>2, <2>6
<1>3. QED
    BY <1>1, <1>2

\* Capacity is respected by any step that admits nobody and protects nothing more.
LEMMA CapacityKept ==
    ASSUME CapacityRespected, RequestTypes, QueuesTrue, QueuesTrue',
           active' \in Seq(Requests), Members(active') \subseteq Members(active),
           reserved' \in Amounts, \A q \in Requests : reserved'[q] <= reserved[q]
    PROVE  CapacityRespected'
<1>1. Tokens(reserved') <= MaxCached /\ BlocksOf(reserved') <= NumBlocks
    <2> DEFINE a == Tokens(reserved)  b == Tokens(reserved')
               c == BlocksOf(reserved)  d == BlocksOf(reserved')
    <2>1. a \in Nat /\ b \in Nat /\ b <= a /\ c \in Nat /\ d \in Nat /\ d <= c
        BY DemandMonotone DEF RequestTypes
    <2>2. a <= MaxCached /\ c <= NumBlocks
        BY DEF CapacityRespected
    <2> HIDE DEF a, b, c, d
    <2>3. b <= MaxCached /\ d <= NumBlocks
        BY <2>1, <2>2, ConfigAssumption
    <2>4. QED
        BY <2>3 DEF b, d
<1>2. QED
    BY <1>1, ActiveShrinks DEF CapacityRespected

\* A live request leaves the engine.
LEMMA Leaves ==
    ASSUME RequestsTrue, NEW r \in Requests, status[r] \in Live, NEW o \in Terminal,
           RemoveLive(r, o), generated' \in [Requests -> Nat],
           \A q \in Requests \ {r} : generated'[q] = generated[q]
    PROVE  RequestsTrue' /\ Others(r) /\ status'[r] = o
<1>1. /\ status' = [status EXCEPT ![r] = o]
      /\ cached' = [cached EXCEPT ![r] = 0]
      /\ reserved' = [reserved EXCEPT ![r] = 0]
      /\ waiting' = Removed(waiting, r) /\ active' = Removed(active, r)
      /\ blocked' = IF blocked = r THEN NoRequest ELSE blocked
    BY DEF RemoveLive, ClearBlocked
<1>2. Others(r) /\ status'[r] = o /\ cached'[r] = 0 /\ reserved'[r] = 0
    BY <1>1 DEF Others, RequestsTrue, RequestTypes, Amounts
<1>3. /\ Members(waiting') = Members(waiting) \ {r}
      /\ waiting' \in Seq(Requests) /\ Distinct(waiting')
      /\ Members(active') = Members(active) \ {r}
      /\ active' \in Seq(Requests) /\ Distinct(active')
    BY <1>1, RemovedMembers DEF RequestsTrue, RequestTypes, QueuesTrue
<1>4. o \notin Queued /\ o \notin Resident
    BY DEF Terminal, Queued, Resident
<1>5. QueuesTrue'
    <2>1. /\ WithStatus(Queued)' = WithStatus(Queued) \ {r}
          /\ WithStatus(Resident)' = WithStatus(Resident) \ {r}
        BY <1>1, <1>4, StatusSets DEF RequestsTrue, RequestTypes
    <2>2. QED
        BY <1>3, <2>1 DEF RequestsTrue, QueuesTrue
<1>6. RequestTypes'
    BY <1>1, <1>3, ConfigAssumption DEF RequestsTrue, RequestTypes, Amounts, Statuses
<1>7. CapacityRespected'
    <2>1. \A q \in Requests : reserved'[q] <= reserved[q]
        <3>1. reserved[r] \in Nat /\ \A q \in Requests : reserved[q] \in Int
            BY ConfigAssumption DEF RequestsTrue, RequestTypes, Amounts
        <3>2. QED
            BY <1>2, <3>1 DEF Others
    <2>2. Members(active') \subseteq Members(active)
        BY <1>3
    <2>3. QED
        BY <1>5, <1>6, <2>1, <2>2, CapacityKept DEF RequestsTrue, RequestTypes
<1>8. CacheOf(r)'
    <2>1. Lifetime(r) \in Nat
        BY LifetimeFits, ConfigAssumption
    <2>2. o \notin {"decoding", "prefilling", "recomputing", "absent", "waiting", "preempted"}
        BY DEF Terminal
    <2>3. QED
        BY <1>2, <1>4, <2>1, <2>2 DEF CacheOf, Lifetime, Resident
<1>9. BlockerIsResident'
    BY <1>1, <1>2, BlockerStays DEF RequestsTrue, RequestTypes
<1>10. \A q \in Requests : CacheOf(q)'
    BY <1>2, <1>8, CachesStay DEF RequestsTrue
<1>11. QED
    BY <1>2, <1>5, <1>6, <1>7, <1>9, <1>10 DEF RequestsTrue

\* The types of what a request is computed from.
LEMMA RequestFacts ==
    ASSUME RequestTypes, NEW r \in Requests
    PROVE  /\ Window \in Nat \ {0} /\ Prompt[r] \in 1 .. Window /\ MaxNew[r] \in Nat
           /\ generated[r] \in Nat /\ cached[r] \in 0 .. Window /\ reserved[r] \in 0 .. Window
           /\ Lifetime(r) \in 0 .. Window
BY ConfigAssumption, RequestAssumption, LifetimeFits DEF RequestTypes, Amounts

\* A decode or recompute never needs more than the lifetime maximum, and a
\* decode leaves the history that includes its token.
LEMMA TargetFits ==
    ASSUME RequestTypes, NEW r \in Requests, CacheOf(r),
           status[r] \in {"decoding", "recomputing"}
    PROVE  /\ Target(r) \in 0 .. Window /\ Target(r) <= Lifetime(r) /\ Work(r) \in Nat
           /\ status[r] = "recomputing" => Target(r) = History(r)
           /\ status[r] = "decoding" =>
                 Target(r) = Smaller(Window, Prompt[r] + generated[r])
<1> DEFINE w == Window  p == Prompt[r]  g == generated[r]  m == MaxNew[r]
<1>1. w \in Nat \ {0} /\ p \in 1 .. w /\ g \in Nat /\ m \in Nat /\ g < m
    BY RequestFacts DEF CacheOf, Resident
<1>2. Lifetime(r) = IF w <= p + m - 1 THEN w ELSE p + m - 1
    BY <1>1 DEF Lifetime, Smaller
<1>3. History(r) = IF w <= p + g - 1 THEN w ELSE p + g - 1
    BY DEF History, Smaller
<1>4. CASE status[r] = "recomputing"
    <2>1. Target(r) = History(r) /\ Work(r) = History(r)
        BY <1>4 DEF Target, Work, Rebuilds, Rebuilt
    <2>2. QED
        BY <1>1, <1>2, <1>3, <1>4, <2>1
<1>5. CASE status[r] = "decoding"
    <2>1. cached[r] = History(r)
        BY <1>5 DEF CacheOf
    <2>2. /\ Target(r) = IF cached[r] >= w THEN w ELSE cached[r] + 1
          /\ Work(r) = IF cached[r] >= w THEN w ELSE 1
        BY <1>5 DEF Target, Work, Rebuilds, Rebuilt
    <2>3. Smaller(Window, Prompt[r] + generated[r]) = IF w <= p + g THEN w ELSE p + g
        BY DEF Smaller
    <2>4. QED
        BY <1>1, <1>2, <1>3, <1>5, <2>1, <2>2, <2>3
<1>6. QED
    BY <1>4, <1>5

\* A resident request stays, with the reservation it has.
LEMMA Resides ==
    ASSUME RequestsTrue, NEW r \in Requests, status[r] \in Resident, blocked # r,
           NEW st \in Resident, status' = [status EXCEPT ![r] = st],
           UNCHANGED <<reserved, queues, blocked>>,
           cached' \in Amounts, generated' \in [Requests -> Nat],
           \A q \in Requests \ {r} : cached'[q] = cached[q] /\ generated'[q] = generated[q],
           CacheOf(r)'
    PROVE  RequestsTrue' /\ Others(r) /\ status'[r] = st
<1>1. UNCHANGED <<reserved, waiting, active, blocked>>
    BY DEF queues
<1>2. Others(r) /\ status'[r] = st
    BY <1>1 DEF Others, RequestsTrue, RequestTypes
<1>3. RequestTypes'
    BY <1>1 DEF RequestsTrue, RequestTypes, Resident, Statuses, Live
<1>4. QueuesTrue'
    <2>1. st \notin Queued /\ r \notin WithStatus(Queued) /\ r \in WithStatus(Resident)
        BY DEF Queued, Resident, WithStatus
    <2>2. /\ WithStatus(Queued)' = WithStatus(Queued) \ {r}
          /\ WithStatus(Resident)' = WithStatus(Resident) \cup {r}
        BY <2>1, StatusSets DEF RequestsTrue, RequestTypes
    <2>3. WithStatus(Queued)' = WithStatus(Queued) /\ WithStatus(Resident)' = WithStatus(Resident)
        BY <2>1, <2>2
    <2>4. QED
        BY <1>1, <2>3 DEF RequestsTrue, QueuesTrue
<1>5. CapacityRespected'
    BY <1>1 DEF RequestsTrue, CapacityRespected
<1>6. BlockerIsResident'
    BY <1>1, <1>2, BlockerStays DEF RequestsTrue, RequestTypes
<1>7. \A q \in Requests : CacheOf(q)'
    BY <1>2, CachesStay DEF RequestsTrue
<1>8. QED
    BY <1>2, <1>3, <1>4, <1>5, <1>6, <1>7 DEF RequestsTrue

\* A token: the cache it leaves is the history that includes it.
LEMMA Decodes ==
    ASSUME RequestsTrue, NEW r \in Requests, status[r] \in {"prefilling", "decoding"},
           blocked # r, NEW n, Token(r, n), n = Smaller(Window, Prompt[r] + generated[r])
    PROVE  RequestsTrue' /\ Others(r) /\ status'[r] \in Terminal \cup Resident
<1>1. /\ n <= reserved[r] /\ generated' = [generated EXCEPT ![r] = generated[r] + 1]
      /\ generated' \in [Requests -> Nat] /\ generated'[r] = generated[r] + 1
      /\ \A q \in Requests \ {r} : generated'[q] = generated[q]
    BY DEF Token, RequestsTrue, RequestTypes
<1>2. CASE RemoveLive(r, "finished")
    BY <1>1, <1>2, Leaves DEF Terminal, Live
<1>3. CASE /\ MoreToCome(r) /\ status' = [status EXCEPT ![r] = "decoding"]
           /\ cached' = [cached EXCEPT ![r] = n]
           /\ UNCHANGED <<reserved, queues, blocked>>
    <2>1. n \in 0 .. Window
        BY RequestFacts DEF RequestsTrue, Smaller
    <2>2. cached' \in Amounts /\ cached'[r] = n /\ \A q \in Requests \ {r} : cached'[q] = cached[q]
        BY <1>3, <2>1 DEF RequestsTrue, RequestTypes, Amounts
    <2>3. CacheOf(r)'
        <3>1. status'[r] = "decoding" /\ reserved'[r] = reserved[r]
            BY <1>3 DEF RequestsTrue, RequestTypes
        <3>2. n = Smaller(Window, Prompt[r] + generated'[r] - 1)
            BY <1>1, RequestFacts DEF RequestsTrue
        <3>3. generated'[r] < MaxNew[r]
            BY <1>1, <1>3 DEF MoreToCome
        <3>4. /\ reserved[r] <= Lifetime(r)
              /\ ~Lazy => reserved[r] = Lifetime(r)
            BY DEF RequestsTrue, CacheOf, Resident
        <3>5. QED
            BY <1>1, <2>2, <3>1, <3>2, <3>3, <3>4 DEF CacheOf, History, Lifetime, Resident
    <2>4. status[r] \in Resident /\ "decoding" \in Resident
        BY DEF Resident
    <2>5. QED
        BY <1>1, <1>3, <2>2, <2>3, <2>4, Resides
<1>4. QED
    BY <1>2, <1>3 DEF Token

\* What is protected changes for one resident request, with room for it.
LEMMA Protects ==
    ASSUME RequestsTrue, NEW r \in Requests, NEW n \in 0 .. Window,
           reserved' = [reserved EXCEPT ![r] = n],
           Protectable(reserved, r, n) \/ n = reserved[r],
           UNCHANGED <<active, queues>>
    PROVE  CapacityRespected'
BY DEF RequestsTrue, RequestTypes, CapacityRespected, Protectable, Amounts

-----------------------------------------------------------------------------
\* The types of what is not of one request.
OtherTypes ==
    /\ pending \subseteq Requests /\ decoded \subseteq Requests /\ recomputed \subseteq Requests
    /\ {cursor, resume} \subseteq Requests \cup {NoRequest}
    /\ tick \in TickLocals

\* What a tick has selected is listed once, and is gone when its stage is over.
TickTrue ==
    /\ \/ tick.stage \in {"select", "decode"}
       \/ tick.stage = "prefill" /\ ~Chunked
       \/ tick.selected = <<>>
    /\ Distinct(tick.decodes) /\ Distinct(tick.selected)
    /\ tick.stage = "select" =>
          \A q \in Members(tick.decodes) :
              status[q] \in {"decoding", "recomputing"} /\ q \notin Members(tick.selected)
EngineInv == RequestsTrue /\ OtherTypes /\ TickTrue /\ WorkIsCovered

\* A step that touches no request keeps what holds of them.
LEMMA RequestsQuiet ==
    ASSUME RequestsTrue, UNCHANGED <<status, generated, cached, reserved, waiting, active>>,
           blocked' \in {blocked, NoRequest}
    PROVE  RequestsTrue'
<1>1. RequestTypes' /\ QueuesTrue' /\ CapacityRespected'
    BY DEF RequestsTrue, RequestTypes, QueuesTrue, WithStatus, CapacityRespected
<1>2. \A q \in Requests : CacheOf(q)'
    BY DEF RequestsTrue, CacheOf, History, Lifetime
<1>3. BlockerIsResident'
    BY DEF RequestsTrue, BlockerIsResident, Target, Rebuilds, Rebuilt, History
<1>4. QED
    BY <1>1, <1>2, <1>3 DEF RequestsTrue

\* Selected work stays covered while a step leaves it alone.
LEMMA WorkStays ==
    ASSUME tick \in TickLocals, WorkIsCovered, NEW r \in Requests, Others(r),
           Members(tick'.selected) \subseteq Members(tick.selected) \ {r}
    PROVE  WorkIsCovered'
<1>1. Members(tick.selected) \subseteq Requests
    <2>1. tick.selected \in Seq(Requests)
        BY DEF TickLocals
    <2>2. QED
        BY <2>1 DEF Members
<1>2. ASSUME NEW q \in Members(tick'.selected)
      PROVE  status'[q] \in {"decoding", "recomputing"} /\ Target(q)' <= reserved'[q]
    <2>1. q \in Requests \ {r} /\ q \in Members(tick.selected)
        BY <1>1
    <2>2. Target(q)' = Target(q)
        BY <2>1, TargetStays
    <2>3. QED
        BY <2>1, <2>2 DEF Others, WorkIsCovered
<1>3. QED
    BY <1>2 DEF WorkIsCovered

\* And while no request changes.
LEMMA WorkQuiet ==
    ASSUME WorkIsCovered, UNCHANGED <<status, generated, cached, reserved>>,
           Members(tick'.selected) \subseteq Members(tick.selected)
    PROVE  WorkIsCovered'
BY DEF WorkIsCovered, Target, Rebuilds, Rebuilt, History

\* Nothing is selected, so nothing has to be covered.
LEMMA NoWork ==
    ASSUME tick'.selected = <<>>
    PROVE  WorkIsCovered'
BY DEF WorkIsCovered, Members

\* The engine starts consistent.
LEMMA EngineInit == Init => EngineInv
<1> SUFFICES ASSUME Init
             PROVE  EngineInv
    OBVIOUS
<1>1. RequestTypes
    BY ConfigAssumption DEF Init, RequestTypes, Amounts, Statuses
<1>2. QueuesTrue
    BY DEF Init, QueuesTrue, Distinct, Members, WithStatus, Queued, Resident
<1>3. \A r \in Requests : CacheOf(r)
    BY LifetimeFits, ConfigAssumption DEF Init, CacheOf, Resident
<1>4. BlockerIsResident
    BY DEF Init, BlockerIsResident
<1>5. CapacityRespected
    <2>1. Tokens(reserved) = 0
        <3>1. {s \in Requests \X (1 .. Window) : s[2] <= reserved[s[1]]} = {}
            BY ConfigAssumption DEF Init
        <3>2. QED
            BY <3>1, FS_EmptySet DEF Tokens
    <2>2. BlocksOf(reserved) = 0
        <3>1. {s \in Requests \X (1 .. Window) : (s[2] - 1) * BlockTokens < reserved[s[1]]} = {}
            <4>1. ASSUME NEW k \in 1 .. Window
                  PROVE  ~((k - 1) * BlockTokens < 0)
                BY ConfigAssumption
            <4>2. QED
                BY <4>1 DEF Init
        <3>2. QED
            BY <3>1, FS_EmptySet DEF BlocksOf
    <2>3. LifetimeDemand(Members(active)) = 0
        <3> DEFINE f == [r \in Requests |-> IF r \in Members(active) THEN Lifetime(r) ELSE 0]
        <3>1. \A q \in Requests : f[q] = 0
            BY DEF Init, Members
        <3> HIDE DEF f
        <3>2. {s \in Requests \X (1 .. Window) : s[2] <= f[s[1]]} = {}
            BY <3>1, ConfigAssumption
        <3>3. Tokens(f) = 0
            BY <3>2, FS_EmptySet DEF Tokens
        <3>4. QED
            BY <3>3 DEF LifetimeDemand, f
    <2>4. Len(active) = 0
        BY DEF Init
    <2>5. QED
        BY <2>1, <2>2, <2>3, <2>4, ConfigAssumption DEF CapacityRespected
<1>6. OtherTypes /\ TickTrue /\ WorkIsCovered
    BY ConfigAssumption DEF Init, OtherTypes, TickTrue, WorkIsCovered, TickLocals, Idle, Stages,
                            Distinct, Members
<1>7. QED
    BY <1>1, <1>2, <1>3, <1>4, <1>5, <1>6 DEF EngineInv, RequestsTrue

\* A request enters the engine.
LEMMA SubmitKeeps ==
    ASSUME EngineInv, NEW r \in Requests, Submit(r)
    PROVE  EngineInv'
<1>1. /\ status[r] = "absent" /\ status' = [status EXCEPT ![r] = "waiting"]
      /\ waiting' = Append(waiting, r)
      /\ UNCHANGED <<generated, cached, reserved, active, pending, cursor, resume, blocked,
                     decoded, recomputed, tick>>
      /\ tick.stage = "idle"
    BY DEF Submit, Callable, chunkVars, workVars
<1>2. RequestTypes
    BY DEF EngineInv, RequestsTrue
<1>3. Others(r) /\ status'[r] = "waiting"
    BY <1>1, <1>2 DEF Others, RequestTypes
<1>4. QueuesTrue'
    <2>1. r \notin WithStatus(Queued) /\ r \notin WithStatus(Resident)
        BY <1>1 DEF WithStatus, Queued, Resident
    <2>2. /\ WithStatus(Queued)' = WithStatus(Queued) \cup {r}
          /\ WithStatus(Resident)' = WithStatus(Resident) \ {r}
        <3>1. "waiting" \in Queued /\ "waiting" \notin Resident
            BY DEF Queued, Resident
        <3>2. QED
            BY <1>1, <1>2, <3>1, StatusSets DEF RequestTypes
    <2>3. Members(waiting') = Members(waiting) \cup {r} /\ Distinct(waiting')
        BY <1>1, <2>1, AppendMembers DEF EngineInv, RequestsTrue, RequestTypes, QueuesTrue
    <2>4. QED
        BY <1>1, <2>1, <2>2, <2>3 DEF EngineInv, RequestsTrue, QueuesTrue
<1>5. RequestTypes'
    BY <1>1, <1>2 DEF RequestTypes, Statuses, Live
<1>6. CacheOf(r)'
    BY <1>1, <1>3 DEF EngineInv, RequestsTrue, CacheOf, Lifetime, Resident
<1>7. CapacityRespected' /\ BlockerIsResident'
    <2>1. blocked # r
        BY <1>1, RequestAssumption DEF EngineInv, RequestsTrue, BlockerIsResident
    <2>2. BlockerIsResident'
        BY <1>1, <1>2, <1>3, <2>1, BlockerStays DEF EngineInv, RequestsTrue, RequestTypes
    <2>3. QED
        BY <1>1, <2>2 DEF EngineInv, RequestsTrue, CapacityRespected
<1>8. RequestsTrue'
    BY <1>3, <1>4, <1>5, <1>6, <1>7, CachesStay DEF EngineInv, RequestsTrue
<1>9. tick.selected = <<>> /\ tick'.selected = <<>>
    BY <1>1 DEF EngineInv, TickTrue
<1>10. OtherTypes' /\ TickTrue'
    BY <1>1 DEF EngineInv, OtherTypes, TickTrue
<1>11. QED
    BY <1>8, <1>9, <1>10, NoWork DEF EngineInv

\* A cancellation is applied.
LEMMA CancellationKeeps ==
    ASSUME EngineInv, NEW r \in Requests, ApplyCancellation(r)
    PROVE  EngineInv'
<1>1. /\ tick.stage = "admit" /\ pending' = pending \ {r}
      /\ UNCHANGED <<generated, cursor, resume, decoded, recomputed, tick>>
    BY DEF ApplyCancellation, chunkVars, workVars
<1>2. RequestsTrue'
    <2>1. CASE status[r] \in Live /\ RemoveLive(r, "cancelled")
        BY <1>1, <2>1, Leaves DEF EngineInv, RequestsTrue, RequestTypes, Terminal
    <2>2. CASE UNCHANGED <<status, cached, reserved, queues, blocked>>
        BY <1>1, <2>2, RequestsQuiet DEF EngineInv, queues
    <2>3. QED
        BY <2>1, <2>2 DEF ApplyCancellation, Doomed
<1>3. tick'.selected = <<>>
    BY <1>1 DEF EngineInv, TickTrue
<1>4. OtherTypes' /\ TickTrue'
    BY <1>1 DEF EngineInv, OtherTypes, TickTrue
<1>5. QED
    BY <1>2, <1>3, <1>4, NoWork DEF EngineInv

\* The head of the queue is rejected, or finished without output.
LEMMA HeadGoneKeeps ==
    ASSUME EngineInv, NEW r, r = Head(waiting), RejectHead \/ FinishHead
    PROVE  EngineInv'
<1>1. PICK o \in Terminal :
          /\ tick.stage = "admit" /\ waiting # <<>>
          /\ status' = [status EXCEPT ![r] = o] /\ waiting' = Tail(waiting)
          /\ UNCHANGED <<generated, cached, reserved, active, pending, cursor, resume, blocked,
                         decoded, recomputed, tick>>
    <2>1. CASE RejectHead
        BY <2>1 DEF RejectHead, Admitting, chunkVars, workVars, Terminal
    <2>2. CASE FinishHead
        BY <2>2 DEF FinishHead, Admitting, chunkVars, workVars, Terminal
    <2>3. QED
        BY <2>1, <2>2
<1>2. RequestTypes
    BY DEF EngineInv, RequestsTrue
<1>3. /\ Members(waiting') = Members(waiting) \ {r} /\ waiting' \in Seq(Requests)
      /\ Distinct(waiting') /\ r \in Requests /\ r \in Members(waiting)
    BY <1>1, TailMembers DEF EngineInv, RequestsTrue, RequestTypes, QueuesTrue
<1>4. status[r] \in Queued
    BY <1>3 DEF EngineInv, RequestsTrue, QueuesTrue, WithStatus
<1>5. Others(r) /\ status'[r] = o
    BY <1>1, <1>2, <1>3 DEF Others, RequestTypes
<1>6. QueuesTrue'
    <2>1. /\ WithStatus(Queued)' = WithStatus(Queued) \ {r}
          /\ WithStatus(Resident)' = WithStatus(Resident) \ {r}
        <3>1. o \notin Queued /\ o \notin Resident
            BY DEF Queued, Resident, Terminal
        <3>2. QED
            BY <1>1, <1>2, <1>3, <3>1, StatusSets DEF RequestTypes
    <2>2. r \notin WithStatus(Resident)
        BY <1>4 DEF WithStatus, Queued, Resident
    <2>3. QED
        BY <1>1, <1>3, <2>1, <2>2 DEF EngineInv, RequestsTrue, QueuesTrue
<1>7. RequestTypes'
    BY <1>1, <1>2, <1>3 DEF RequestTypes, Statuses
<1>8. CacheOf(r)'
    <2>1. /\ cached[r] <= reserved[r] /\ reserved[r] <= Lifetime(r)
          /\ reserved[r] = 0
        BY <1>3, <1>4 DEF EngineInv, RequestsTrue, CacheOf, Resident, Queued
    <2>2. status'[r] \notin Resident \cup {"absent", "waiting", "preempted"}
        BY <1>5 DEF Resident, Terminal
    <2>3. cached'[r] = cached[r] /\ reserved'[r] = reserved[r]
        BY <1>1
    <2>4. QED
        BY <2>1, <2>2, <2>3 DEF CacheOf, Lifetime, Resident
<1>9. CapacityRespected' /\ BlockerIsResident'
    <2>1. blocked # r
        BY <1>3, <1>4, RequestAssumption DEF EngineInv, RequestsTrue, BlockerIsResident, Queued
    <2>2. BlockerIsResident'
        BY <1>1, <1>2, <1>3, <1>5, <2>1, BlockerStays DEF EngineInv, RequestsTrue, RequestTypes
    <2>3. QED
        BY <1>1, <2>2 DEF EngineInv, RequestsTrue, CapacityRespected
<1>10. RequestsTrue'
    <2>1. \A q \in Requests : CacheOf(q)'
        BY <1>3, <1>5, <1>8, CachesStay DEF EngineInv, RequestsTrue
    <2>2. QED
        BY <1>6, <1>7, <1>9, <2>1 DEF RequestsTrue
<1>11. tick'.selected = <<>>
    BY <1>1 DEF EngineInv, TickTrue
<1>12. OtherTypes' /\ TickTrue'
    BY <1>1 DEF EngineInv, OtherTypes, TickTrue
<1>13. QED
    BY <1>10, <1>11, <1>12, NoWork DEF EngineInv

\* The head of the queue is admitted, with what it needs now.
LEMMA AdmitKeeps ==
    ASSUME EngineInv, NEW r, r = Head(waiting), AdmitHead
    PROVE  EngineInv'
<1> DEFINE st == IF status[r] = "preempted" THEN "recomputing" ELSE "prefilling"
           n == Current(r)
<1>1. /\ tick.stage = "admit" /\ waiting # <<>> /\ Admissible(r) /\ MaxNew[r] > 0
      /\ reserved' = [reserved EXCEPT ![r] = n]
      /\ status' = [status EXCEPT ![r] = st]
      /\ waiting' = Tail(waiting) /\ active' = Append(active, r)
      /\ UNCHANGED <<generated, cached, pending, cursor, resume, blocked, decoded, recomputed,
                     tick>>
    BY DEF AdmitHead, Admitting, chunkVars, workVars
<1>2. RequestTypes
    BY DEF EngineInv, RequestsTrue
<1>3. /\ Members(waiting') = Members(waiting) \ {r} /\ waiting' \in Seq(Requests)
      /\ Distinct(waiting') /\ r \in Requests /\ r \in Members(waiting)
    BY <1>1, TailMembers DEF EngineInv, RequestsTrue, RequestTypes, QueuesTrue
<1>4. status[r] \in Queued
    BY <1>3 DEF EngineInv, RequestsTrue, QueuesTrue, WithStatus
<1>5. st \in Resident /\ st \notin Queued
    BY DEF Resident, Queued
<1>6. /\ st = "recomputing" <=> status[r] = "preempted"
      /\ st = "prefilling" <=> status[r] = "waiting"
      /\ st # "decoding"
    BY <1>4 DEF Queued
<1> HIDE DEF st
<1>7. n \in 0 .. Window /\ n <= Lifetime(r) /\ (~Lazy => n = Lifetime(r))
      /\ (status[r] = "preempted" => History(r) <= n)
    <2> DEFINE w == Window  p == Prompt[r]  g == generated[r]  m == MaxNew[r]
    <2>1. w \in Nat \ {0} /\ p \in 1 .. w /\ g \in Nat /\ m \in Nat /\ m > 0 /\ Lifetime(r) \in 0 .. w
        BY <1>1, <1>2, <1>3, RequestFacts
    <2>2. g < m
        BY <1>1, <1>3, <1>4 DEF EngineInv, RequestsTrue, CacheOf, Queued
    <2>3. Lifetime(r) = IF w <= p + m - 1 THEN w ELSE p + m - 1
        BY <2>1 DEF Lifetime, Smaller
    <2>4. History(r) = IF w <= p + g - 1 THEN w ELSE p + g - 1
        BY DEF History, Smaller
    <2>5. n = IF ~Lazy THEN Lifetime(r) ELSE IF status[r] = "preempted" THEN History(r) ELSE p
        BY <2>1 DEF Current
    <2> HIDE DEF n
    <2>6. QED
        BY <2>1, <2>2, <2>3, <2>4, <2>5
<1>8. CacheOf(r)
    BY <1>3 DEF EngineInv, RequestsTrue
<1>9. Protectable(reserved, r, n) /\ Len(active) < MaxActive
      /\ (Lazy => LifetimeDemand(Members(active) \cup {r}) <= LifetimeCap)
    BY <1>1 DEF Admissible, CacheFits
<1> HIDE DEF n
<1>10. Others(r) /\ status'[r] = st /\ reserved'[r] = n
    BY <1>1, <1>2, <1>3, <1>7 DEF Others, RequestTypes, Amounts
<1>11. r \notin Members(active) /\ r \notin WithStatus(Resident)
    BY <1>4 DEF EngineInv, RequestsTrue, QueuesTrue, WithStatus, Queued, Resident
<1>12. /\ Members(active') = Members(active) \cup {r} /\ active' \in Seq(Requests)
       /\ Distinct(active') /\ Len(active') = Len(active) + 1
    BY <1>1, <1>2, <1>3, <1>11, AppendMembers DEF EngineInv, RequestsTrue, RequestTypes, QueuesTrue
<1>13. QueuesTrue'
    <2>1. /\ WithStatus(Queued)' = WithStatus(Queued) \ {r}
          /\ WithStatus(Resident)' = WithStatus(Resident) \cup {r}
        BY <1>1, <1>2, <1>3, <1>5, StatusSets DEF RequestTypes
    <2>2. QED
        BY <1>3, <1>12, <2>1 DEF EngineInv, RequestsTrue, QueuesTrue
<1>14. RequestTypes'
    <2>1. st \in Statuses
        BY <1>5 DEF Resident, Statuses, Live
    <2>2. reserved' \in Amounts
        BY <1>1, <1>2, <1>7 DEF RequestTypes, Amounts
    <2>3. QED
        BY <1>1, <1>2, <1>3, <1>12, <2>1, <2>2 DEF RequestTypes
<1>15. CapacityRespected'
    <2>1. Tokens(reserved') <= MaxCached /\ BlocksOf(reserved') <= NumBlocks
        BY <1>1, <1>9 DEF Protectable
    <2>2. Len(active') <= MaxActive
        BY <1>2, <1>9, <1>12, ConfigAssumption DEF RequestTypes
    <2>3. QED
        BY <1>9, <1>12, <2>1, <2>2 DEF CapacityRespected
<1>16. CacheOf(r)'
    <2>1. cached[r] = 0
        <3>1. cached[r] <= reserved[r] /\ reserved[r] = 0
            BY <1>4, <1>8 DEF CacheOf, Queued, Resident
        <3>2. QED
            BY <1>2, <1>3, <3>1, RequestFacts
    <2>2. generated[r] < MaxNew[r] /\ (st = "prefilling" => generated[r] = 0)
        BY <1>1, <1>4, <1>6, <1>8 DEF CacheOf, Queued
    <2>3. Prompt[r] > 0 /\ 0 <= n
        BY <1>2, <1>3, <1>7, RequestFacts
    <2>4. st \notin {"absent", "waiting", "preempted"}
        BY <1>5 DEF Resident
    <2>5. History(r)' = History(r) /\ Lifetime(r)' = Lifetime(r)
        BY <1>1 DEF History, Lifetime
    <2>6. cached'[r] = 0 /\ generated'[r] = generated[r]
        BY <1>1, <2>1
    <2>7. QED
        BY <1>5, <1>6, <1>7, <1>10, <2>2, <2>3, <2>4, <2>5, <2>6 DEF CacheOf
<1>17. BlockerIsResident'
    <2>1. blocked # r
        BY <1>3, <1>4, RequestAssumption DEF EngineInv, RequestsTrue, BlockerIsResident, Queued
    <2>2. QED
        BY <1>1, <1>2, <1>3, <1>10, <2>1, BlockerStays DEF EngineInv, RequestsTrue, RequestTypes
<1>18. RequestsTrue'
    <2>1. \A q \in Requests : CacheOf(q)'
        BY <1>3, <1>10, <1>16, CachesStay DEF EngineInv, RequestsTrue
    <2>2. QED
        BY <1>13, <1>14, <1>15, <1>17, <2>1 DEF RequestsTrue
<1>19. tick'.selected = <<>>
    BY <1>1 DEF EngineInv, TickTrue
<1>20. OtherTypes' /\ TickTrue'
    BY <1>1 DEF EngineInv, OtherTypes, TickTrue
<1>21. QED
    BY <1>18, <1>19, <1>20, NoWork DEF EngineInv

\* Prefill may fail, fill a part of the prompt, or yield the first token.
LEMMA PrefillKeeps ==
    ASSUME EngineInv, NEW r \in Requests, Prefill(r)
    PROVE  EngineInv'
<1> DEFINE n == ChunkLength(r)
<1>1. /\ tick.stage \in PrefillStages /\ tick.prefills # <<>> /\ status[r] = "prefilling" /\ n > 0
      /\ tick' = [tick EXCEPT !.prefills = Tail(tick.prefills), !.batched = TRUE,
                              !.budget = IF Chunked THEN tick.budget - n ELSE tick.budget]
      /\ UNCHANGED <<pending, cursor, resume, decoded, recomputed>>
    BY DEF Prefill, chunkVars, workVars
<1>2. RequestTypes /\ RequestsTrue /\ CacheOf(r) /\ tick \in TickLocals
    BY DEF EngineInv, RequestsTrue, OtherTypes
<1>3. /\ Window \in Nat \ {0} /\ Prompt[r] \in 1 .. Window /\ MaxNew[r] \in Nat
      /\ generated[r] \in Nat /\ cached[r] \in 0 .. Window /\ reserved[r] \in 0 .. Window
      /\ Lifetime(r) \in 0 .. Window /\ tick.budget \in 0 .. Budget
      /\ cached[r] < Prompt[r] /\ generated[r] = 0 /\ BlockTokens \in Nat \ {0}
      /\ Chunk \in Nat /\ Budget \in Nat
    BY <1>1, <1>2, RequestFacts, ConfigAssumption DEF CacheOf, TickLocals
<1>4. n \in Nat /\ (Chunked => n <= tick.budget)
    <2> DEFINE rest == Prompt[r] - cached[r]
               length == Smaller(rest, Smaller(Chunk, tick.budget))
    <2>1. rest \in Nat /\ length \in Nat /\ length <= tick.budget
        BY <1>3 DEF Smaller
    <2>2. n = IF ~Chunked THEN Prompt[r]
              ELSE IF length < rest THEN length - (length % BlockTokens) ELSE length
        BY DEF ChunkLength
    <2> HIDE DEF length, rest, n
    <2>3. length % BlockTokens \in Nat /\ length % BlockTokens <= length
        BY <1>3, <2>1
    <2>4. QED
        BY <1>3, <2>1, <2>2, <2>3
<1> HIDE DEF n
<1>5. blocked # r
    BY <1>1, <1>2, RequestAssumption DEF RequestsTrue, BlockerIsResident
<1>6. RequestsTrue' /\ Others(r)
    <2>1. CASE Fail(r)
        BY <1>1, <1>2, <2>1, Leaves DEF Fail, RequestTypes, Live, Terminal
    <2>2. CASE /\ cached[r] + n < Prompt[r] /\ cached[r] + n <= reserved[r]
               /\ cached' = [cached EXCEPT ![r] = cached[r] + n]
               /\ UNCHANGED <<status, generated, reserved, queues, blocked>>
        <3>1. cached[r] + n \in 0 .. Window
            BY <1>3, <1>4, <2>2
        <3>2. /\ cached' \in Amounts /\ cached'[r] = cached[r] + n
              /\ \A q \in Requests \ {r} : cached'[q] = cached[q]
            BY <1>2, <2>2, <3>1 DEF RequestTypes, Amounts
        <3>3. CacheOf(r)'
            BY <1>1, <1>2, <2>2, <3>2 DEF CacheOf, Lifetime, Resident
        <3>4. status' = [status EXCEPT ![r] = "prefilling"]
            BY <1>1, <1>2, <2>2 DEF RequestTypes
        <3>5. "prefilling" \in Resident /\ generated' \in [Requests -> Nat]
            BY <1>2, <2>2 DEF Resident, RequestTypes
        <3>6. QED
            BY <1>1, <1>2, <1>5, <2>2, <3>2, <3>3, <3>4, <3>5, Resides
    <2>3. CASE Token(r, Prompt[r])
        <3>1. Prompt[r] = Smaller(Window, Prompt[r] + generated[r])
            BY <1>3 DEF Smaller
        <3>2. QED
            BY <1>1, <1>2, <1>5, <2>3, <3>1, Decodes
    <2>4. QED
        BY <2>1, <2>2, <2>3 DEF Prefill, n
<1>7. tick' \in TickLocals
    <2>1. Tail(tick.prefills) \in Seq(Requests)
        BY <1>1, <1>2 DEF TickLocals
    <2>2. (IF Chunked THEN tick.budget - n ELSE tick.budget) \in 0 .. Budget
        BY <1>3, <1>4
    <2>3. QED
        BY <1>1, <1>2, <2>1, <2>2 DEF TickLocals
<1>8. /\ tick'.stage = tick.stage /\ tick'.decodes = tick.decodes
      /\ tick'.selected = tick.selected /\ tick.stage # "select"
    BY <1>1, <1>2 DEF TickLocals, PrefillStages
<1>9. OtherTypes' /\ TickTrue'
    BY <1>1, <1>7, <1>8 DEF EngineInv, OtherTypes, TickTrue
<1>10. WorkIsCovered'
    <2>1. r \notin Members(tick.selected)
        BY <1>1 DEF EngineInv, WorkIsCovered
    <2>2. QED
        BY <1>2, <1>6, <1>8, <2>1, WorkStays DEF EngineInv
<1>11. QED
    BY <1>6, <1>9, <1>10 DEF EngineInv

\* The selected request that comes next: its work is covered, so it is not the
\* blocker, and it is not listed again.
LEMMA NextSelectedFacts ==
    ASSUME EngineInv, NEW r \in Requests, NextSelected(r),
           tick' = [tick EXCEPT !.selected = Tail(tick.selected)],
           UNCHANGED <<pending, cursor, resume>>,
           decoded' \subseteq Requests, recomputed' \subseteq Requests
    PROVE  /\ Target(r) <= reserved[r] /\ blocked # r
           /\ OtherTypes' /\ TickTrue'
           /\ Members(tick'.selected) \subseteq Members(tick.selected) \ {r}
<1>1. tick.stage = "decode" /\ tick.selected # <<>> /\ r = Head(tick.selected)
    BY DEF NextSelected
<1>2. tick \in TickLocals /\ tick.selected \in Seq(Requests) /\ Distinct(tick.selected)
    BY DEF EngineInv, OtherTypes, TickTrue, TickLocals
<1>3. /\ Members(Tail(tick.selected)) = Members(tick.selected) \ {r}
      /\ r \in Members(tick.selected)
      /\ Tail(tick.selected) \in Seq(Requests) /\ Distinct(Tail(tick.selected))
    BY <1>1, <1>2, TailMembers
<1>4. Target(r) <= reserved[r]
    BY <1>3 DEF EngineInv, WorkIsCovered
<1>5. blocked # r
    <2>1. ASSUME blocked = r
          PROVE  Target(r) > reserved[r] /\ status[r] = "decoding"
        BY <2>1, RequestAssumption DEF EngineInv, RequestsTrue, BlockerIsResident
    <2>2. CacheOf(r) /\ RequestTypes
        BY DEF EngineInv, RequestsTrue
    <2>3. reserved[r] \in Int /\ (status[r] = "decoding" => Target(r) \in Int)
        BY <2>2, RequestFacts, TargetFits, ConfigAssumption
    <2>4. QED
        BY <1>4, <2>1, <2>3
<1>6. tick' \in TickLocals /\ tick'.selected = Tail(tick.selected)
      /\ tick'.stage = "decode" /\ tick'.decodes = tick.decodes
    BY <1>1, <1>2, <1>3 DEF TickLocals
<1>7. OtherTypes' /\ TickTrue'
    BY <1>3, <1>6 DEF EngineInv, OtherTypes, TickTrue
<1>8. QED
    BY <1>3, <1>4, <1>5, <1>6, <1>7

\* A selected decode runs.
LEMMA DecodeKeeps ==
    ASSUME EngineInv, NEW r \in Requests, Decode(r)
    PROVE  EngineInv'
<1>1. /\ NextSelected(r) /\ status[r] = "decoding"
      /\ tick' = [tick EXCEPT !.selected = Tail(tick.selected)]
      /\ UNCHANGED <<pending, cursor, resume, recomputed>>
    BY DEF Decode, chunkVars
<1>2. decoded' \subseteq Requests /\ recomputed' \subseteq Requests
    BY DEF Decode, EngineInv, OtherTypes
<1>3. /\ Target(r) <= reserved[r] /\ blocked # r
      /\ OtherTypes' /\ TickTrue'
      /\ Members(tick'.selected) \subseteq Members(tick.selected) \ {r}
    BY <1>1, <1>2, NextSelectedFacts
<1>4. RequestsTrue /\ RequestTypes /\ CacheOf(r)
    BY DEF EngineInv, RequestsTrue
<1>5. RequestsTrue' /\ Others(r)
    <2>1. CASE Fail(r)
        BY <1>1, <1>4, <2>1, Leaves DEF Fail, RequestTypes, Live, Terminal
    <2>2. CASE Token(r, Target(r))
        <3>1. Target(r) = Smaller(Window, Prompt[r] + generated[r])
            BY <1>1, <1>4, TargetFits
        <3>2. QED
            BY <1>1, <1>3, <1>4, <2>2, <3>1, Decodes
    <2>3. QED
        BY <2>1, <2>2 DEF Decode
<1>6. WorkIsCovered'
    BY <1>3, <1>5, WorkStays DEF EngineInv, OtherTypes
<1>7. QED
    BY <1>3, <1>5, <1>6 DEF EngineInv

\* A selected recompute runs.
LEMMA RecomputeKeeps ==
    ASSUME EngineInv, NEW r \in Requests, Recompute(r)
    PROVE  EngineInv'
<1>1. /\ NextSelected(r) /\ status[r] = "recomputing"
      /\ tick' = [tick EXCEPT !.selected = Tail(tick.selected)]
      /\ UNCHANGED <<pending, cursor, resume, decoded>>
    BY DEF Recompute, chunkVars
<1>2. decoded' \subseteq Requests /\ recomputed' \subseteq Requests
    BY DEF Recompute, EngineInv, OtherTypes
<1>3. /\ Target(r) <= reserved[r] /\ blocked # r
      /\ OtherTypes' /\ TickTrue'
      /\ Members(tick'.selected) \subseteq Members(tick.selected) \ {r}
    BY <1>1, <1>2, NextSelectedFacts
<1>4. RequestsTrue /\ RequestTypes /\ CacheOf(r)
    BY DEF EngineInv, RequestsTrue
<1>5. RequestsTrue' /\ Others(r)
    <2>1. CASE Fail(r)
        BY <1>1, <1>4, <2>1, Leaves DEF Fail, RequestTypes, Live, Terminal
    <2>2. CASE /\ cached' = [cached EXCEPT ![r] = Rebuilt(r)]
               /\ status' = [status EXCEPT ![r] = "decoding"]
               /\ UNCHANGED <<generated, reserved, queues, blocked>>
        <3>1. Rebuilt(r) = History(r) /\ Target(r) = History(r) /\ Target(r) \in 0 .. Window
            BY <1>1, <1>4, TargetFits DEF Rebuilt
        <3>2. /\ cached' \in Amounts /\ cached'[r] = History(r)
              /\ \A q \in Requests \ {r} : cached'[q] = cached[q]
            BY <1>4, <2>2, <3>1 DEF RequestTypes, Amounts
        <3>3. CacheOf(r)'
            <4>1. status'[r] = "decoding" /\ History(r)' = History(r) /\ Lifetime(r)' = Lifetime(r)
                BY <1>4, <2>2 DEF RequestTypes, History, Lifetime
            <4>2. QED
                BY <1>1, <1>3, <1>4, <2>2, <3>1, <3>2, <4>1 DEF CacheOf, Resident
        <3>4. "decoding" \in Resident /\ status[r] \in Resident /\ generated' \in [Requests -> Nat]
            BY <1>1, <1>4, <2>2 DEF Resident, RequestTypes
        <3>5. QED
            BY <1>3, <1>4, <2>2, <3>2, <3>3, <3>4, Resides
    <2>3. QED
        BY <2>1, <2>2 DEF Recompute
<1>6. WorkIsCovered'
    BY <1>3, <1>5, WorkStays DEF EngineInv, OtherTypes
<1>7. QED
    BY <1>3, <1>5, <1>6 DEF EngineInv

\* A decode is selected, and its reservation grown to its target.
LEMMA SelectKeeps ==
    ASSUME EngineInv, NEW r, r = Head(tick.decodes), SelectDecode
    PROVE  EngineInv'
<1>1. /\ tick.stage = "select" /\ tick.decodes # <<>> /\ Affordable(r) /\ Covered(r)
      /\ reserved' = [reserved EXCEPT ![r] = Grown(r)]
      /\ blocked' = IF blocked = r THEN NoRequest ELSE blocked
      /\ tick' = [tick EXCEPT !.decodes = Tail(tick.decodes),
                              !.selected = Append(tick.selected, r),
                              !.budget = tick.budget - Work(r)]
      /\ UNCHANGED <<status, generated, cached, waiting, active, pending, cursor, resume,
                     decoded, recomputed>>
    BY DEF SelectDecode, ClearBlocked, queues, chunkVars, workVars
<1>2. /\ tick \in TickLocals /\ tick.decodes \in Seq(Requests) /\ tick.selected \in Seq(Requests)
      /\ tick.budget \in 0 .. Budget /\ Distinct(tick.decodes) /\ Distinct(tick.selected)
    BY DEF EngineInv, OtherTypes, TickTrue, TickLocals
<1>3. /\ Members(Tail(tick.decodes)) = Members(tick.decodes) \ {r}
      /\ r \in Members(tick.decodes) /\ r \in Requests
      /\ Tail(tick.decodes) \in Seq(Requests) /\ Distinct(Tail(tick.decodes))
    BY <1>1, <1>2, TailMembers
<1>4. status[r] \in {"decoding", "recomputing"} /\ r \notin Members(tick.selected)
    BY <1>1, <1>3 DEF EngineInv, TickTrue
<1>5. RequestTypes /\ RequestsTrue /\ CacheOf(r)
    BY <1>3 DEF EngineInv, RequestsTrue
<1>6. /\ Target(r) \in 0 .. Window /\ Target(r) <= Lifetime(r) /\ Work(r) \in Nat
      /\ status[r] = "recomputing" => Target(r) = History(r)
    BY <1>3, <1>4, <1>5, TargetFits
<1>7. reserved[r] \in 0 .. Window /\ Window \in Nat /\ Lifetime(r) \in Nat /\ cached[r] \in 0 .. Window
    BY <1>3, <1>5, RequestFacts
<1>8. /\ Grown(r) \in 0 .. Window /\ Target(r) <= Grown(r)
      /\ reserved[r] <= Grown(r) /\ Grown(r) <= Lifetime(r)
      /\ ~Lazy => Grown(r) = reserved[r]
      /\ Protectable(reserved, r, Grown(r)) \/ Grown(r) = reserved[r]
    <2>1. reserved[r] <= Lifetime(r) /\ (~Lazy => reserved[r] = Lifetime(r))
        BY <1>4, <1>5 DEF CacheOf, Resident
    <2>2. Grown(r) = IF Lazy /\ reserved[r] < Target(r) THEN Target(r) ELSE reserved[r]
        BY DEF Grown
    <2>3. Lazy => Target(r) <= reserved[r] \/ Protectable(reserved, r, Target(r))
        BY <1>1 DEF Covered
    <2>4. QED
        BY <1>6, <1>7, <2>1, <2>2, <2>3
<1>9. Others(r) /\ reserved'[r] = Grown(r) /\ reserved' \in Amounts
    BY <1>1, <1>3, <1>5, <1>8 DEF Others, RequestTypes, Amounts
<1>10. CacheOf(r)'
    <2>1. History(r)' = History(r) /\ Lifetime(r)' = Lifetime(r)
        BY <1>1 DEF History, Lifetime
    <2>2. cached[r] <= Grown(r)
        BY <1>5, <1>7, <1>8 DEF CacheOf
    <2>3. status[r] = "recomputing" => History(r) <= Grown(r)
        BY <1>6, <1>8
    <2>4. ~Lazy => Grown(r) = Lifetime(r)
        BY <1>4, <1>5, <1>8 DEF CacheOf, Resident
    <2>5. status'[r] = status[r] /\ generated'[r] = generated[r] /\ cached'[r] = cached[r]
        BY <1>1
    <2>6. QED
        BY <1>4, <1>5, <1>8, <1>9, <2>1, <2>2, <2>3, <2>4, <2>5 DEF CacheOf, Resident
<1>11. RequestsTrue'
    <2>1. RequestTypes'
        BY <1>1, <1>5, <1>9 DEF RequestTypes
    <2>2. QueuesTrue'
        BY <1>1 DEF EngineInv, RequestsTrue, QueuesTrue, WithStatus
    <2>3. CapacityRespected'
        BY <1>1, <1>3, <1>5, <1>8, Protects DEF queues
    <2>4. BlockerIsResident'
        BY <1>1, <1>3, <1>5, <1>9, BlockerStays DEF RequestsTrue, RequestTypes
    <2>5. \A q \in Requests : CacheOf(q)'
        BY <1>3, <1>5, <1>9, <1>10, CachesStay DEF RequestsTrue
    <2>6. QED
        BY <2>1, <2>2, <2>3, <2>4, <2>5 DEF RequestsTrue
<1>12. /\ Members(Append(tick.selected, r)) = Members(tick.selected) \cup {r}
       /\ Append(tick.selected, r) \in Seq(Requests) /\ Distinct(Append(tick.selected, r))
    BY <1>2, <1>3, <1>4, AppendMembers
<1>13. /\ tick' \in TickLocals /\ tick'.stage = "select" /\ tick'.decodes = Tail(tick.decodes)
       /\ tick'.selected = Append(tick.selected, r)
    <2>1. tick.budget - Work(r) \in 0 .. Budget
        <3>1. Work(r) <= tick.budget
            BY <1>1 DEF Affordable
        <3>2. QED
            BY <1>2, <1>6, <3>1, ConfigAssumption
    <2>2. QED
        BY <1>1, <1>2, <1>3, <1>12, <2>1 DEF TickLocals
<1>14. OtherTypes'
    BY <1>1, <1>13 DEF EngineInv, OtherTypes
<1>15. TickTrue'
    <2>1. ASSUME NEW q \in Members(tick'.decodes)
          PROVE  status'[q] \in {"decoding", "recomputing"} /\ q \notin Members(tick'.selected)
        <3>1. q \in Members(tick.decodes) /\ q # r
            BY <1>3, <1>13
        <3>2. status[q] \in {"decoding", "recomputing"} /\ q \notin Members(tick.selected)
            BY <1>1, <3>1 DEF EngineInv, TickTrue
        <3>3. QED
            BY <1>1, <1>12, <1>13, <3>1, <3>2
    <2>2. QED
        BY <1>3, <1>12, <1>13, <2>1 DEF TickTrue
<1>16. WorkIsCovered'
    <2>1. ASSUME NEW q \in Members(tick'.selected)
          PROVE  status'[q] \in {"decoding", "recomputing"} /\ Target(q)' <= reserved'[q]
        <3>1. Target(q)' = Target(q)
            BY <1>1 DEF Target, Rebuilds, Rebuilt, History
        <3>2. CASE q = r
            BY <1>1, <1>4, <1>8, <1>9, <3>1, <3>2
        <3>3. CASE q # r
            <4>1. q \in Members(tick.selected)
                BY <1>12, <1>13, <3>3
            <4>2. q \in Requests
                BY <1>2, <4>1 DEF Members
            <4>3. QED
                BY <1>1, <1>9, <3>1, <3>3, <4>1, <4>2 DEF Others, EngineInv, WorkIsCovered
        <3>4. QED
            BY <3>2, <3>3
    <2>2. QED
        BY <2>1 DEF WorkIsCovered
<1>17. QED
    BY <1>11, <1>14, <1>15, <1>16 DEF EngineInv

\* A decoder is preempted.  Its room is free, and may be used for the blocker.
LEMMA PreemptKeeps ==
    ASSUME EngineInv, NEW r \in Requests, Preempt(r), status[r] = "decoding",
           reserved' \in Amounts, reserved'[r] = 0,
           \A q \in Requests \ {r} :
               \/ reserved'[q] = reserved[q]
               \/ q = blocked /\ reserved'[q] = Target(q),
           Tokens(reserved') <= MaxCached, BlocksOf(reserved') <= NumBlocks,
           blocked' \in Requests \cup {NoRequest}, BlockerIsResident'
    PROVE  EngineInv'
<1>1. /\ tick.stage = "pressure" /\ tick' = Idle
      /\ status' = [status EXCEPT ![r] = "preempted"]
      /\ cached' = [cached EXCEPT ![r] = 0]
      /\ waiting' = Append(waiting, r) /\ active' = Removed(active, r)
      /\ cursor' \in {cursor, NoRequest} /\ resume' \in {resume, NoRequest}
      /\ UNCHANGED <<generated, pending, decoded, recomputed>>
    BY DEF Preempt, workVars
<1>2. RequestTypes /\ RequestsTrue
    BY DEF EngineInv, RequestsTrue
<1>3. r \notin Members(waiting)
    BY DEF EngineInv, RequestsTrue, QueuesTrue, WithStatus, Queued
<1>4. /\ Members(waiting') = Members(waiting) \cup {r} /\ waiting' \in Seq(Requests)
      /\ Distinct(waiting')
      /\ Members(active') = Members(active) \ {r} /\ active' \in Seq(Requests)
      /\ Distinct(active')
    BY <1>1, <1>2, <1>3, AppendMembers, RemovedMembers DEF RequestsTrue, RequestTypes, QueuesTrue
<1>5. QueuesTrue'
    <2>1. "preempted" \in Queued /\ "preempted" \notin Resident
        BY DEF Queued, Resident
    <2>2. /\ WithStatus(Queued)' = WithStatus(Queued) \cup {r}
          /\ WithStatus(Resident)' = WithStatus(Resident) \ {r}
        <3>1. status \in [Requests -> Statuses] /\ status' = [status EXCEPT ![r] = "preempted"]
            BY <1>1, <1>2 DEF RequestTypes
        <3>2. WithStatus(Queued)' = WithStatus(Queued) \cup {r}
            <4>1. WithStatus(Queued)' = IF "preempted" \in Queued THEN WithStatus(Queued) \cup {r}
                                        ELSE WithStatus(Queued) \ {r}
                BY <3>1, StatusSets
            <4>2. QED
                BY <2>1, <4>1
        <3>3. WithStatus(Resident)' = WithStatus(Resident) \ {r}
            <4>1. WithStatus(Resident)' =
                      IF "preempted" \in Resident THEN WithStatus(Resident) \cup {r}
                      ELSE WithStatus(Resident) \ {r}
                BY <3>1, StatusSets
            <4>2. QED
                BY <2>1, <4>1
        <3>4. QED
            BY <3>2, <3>3
    <2>3. QED
        BY <1>2, <1>4, <2>2 DEF RequestsTrue, QueuesTrue
<1>6. RequestTypes'
    <2>1. cached' \in Amounts
        BY <1>1, <1>2, ConfigAssumption DEF RequestTypes, Amounts
    <2>2. "preempted" \in Statuses
        BY DEF Statuses, Live
    <2>3. QED
        BY <1>1, <1>2, <1>4, <2>1, <2>2 DEF RequestTypes
<1>7. CapacityRespected'
    <2>1. Members(active') \subseteq Members(active)
        BY <1>4
    <2>2. QED
        BY <1>2, <1>4, <1>5, <2>1, ActiveShrinks DEF RequestsTrue, CapacityRespected
<1>8. CacheOf(r)'
    <2>1. generated[r] < MaxNew[r]
        BY DEF EngineInv, RequestsTrue, CacheOf, Resident
    <2>2. status'[r] = "preempted" /\ cached'[r] = 0 /\ generated'[r] = generated[r]
        BY <1>1, <1>2 DEF RequestTypes, Amounts
    <2>3. Lifetime(r)' = Lifetime(r) /\ 0 <= Lifetime(r)
        BY <1>2, RequestFacts DEF Lifetime
    <2>4. QED
        BY <2>1, <2>2, <2>3 DEF CacheOf, Resident
<1>9. ASSUME NEW q \in Requests \ {r}
      PROVE  CacheOf(q)'
    <2>1. /\ status'[q] = status[q] /\ generated'[q] = generated[q] /\ cached'[q] = cached[q]
          /\ History(q)' = History(q) /\ Lifetime(q)' = Lifetime(q)
        BY <1>1, <1>2 DEF RequestTypes, History, Lifetime
    <2>2. CacheOf(q)
        BY <1>2 DEF RequestsTrue
    <2>3. CASE reserved'[q] = reserved[q]
        BY <2>1, <2>2, <2>3 DEF CacheOf
    <2>4. CASE q = blocked /\ reserved'[q] = Target(q)
        <3>1. status[q] = "decoding" /\ Target(q) > reserved[q]
            BY <1>2, <2>4, RequestAssumption DEF RequestsTrue, BlockerIsResident
        <3>2. Target(q) \in 0 .. Window /\ Target(q) <= Lifetime(q)
            BY <1>2, <2>2, <3>1, TargetFits
        <3>3. cached[q] \in 0 .. Window /\ reserved[q] \in 0 .. Window /\ Lifetime(q) \in 0 .. Window
            BY <1>2, RequestFacts
        <3>4. Lazy
            <4>1. ASSUME ~Lazy
                  PROVE  reserved[q] = Lifetime(q)
                BY <2>2, <3>1, <4>1 DEF CacheOf, Resident
            <4>2. QED
                BY <3>1, <3>2, <3>3, <4>1, ConfigAssumption
        <3>5. cached[q] <= Target(q)
            <4>1. cached[q] <= reserved[q]
                BY <2>2 DEF CacheOf
            <4>2. QED
                BY <3>1, <3>2, <3>3, <4>1
        <3>6. QED
            BY <2>1, <2>2, <2>4, <3>1, <3>2, <3>4, <3>5 DEF CacheOf, Resident
    <2>5. QED
        BY <2>3, <2>4
<1>10. RequestsTrue'
    <2>1. \A q \in Requests : CacheOf(q)'
        BY <1>8, <1>9
    <2>2. QED
        BY <1>5, <1>6, <1>7, <2>1 DEF RequestsTrue
<1>11. tick'.selected = <<>> /\ tick'.decodes = <<>> /\ tick' \in TickLocals
       /\ tick'.stage = "idle"
    BY <1>1, ConfigAssumption DEF Idle, TickLocals, Stages
<1>12. OtherTypes'
    BY <1>1, <1>11 DEF EngineInv, OtherTypes
<1>13. TickTrue'
    BY <1>11 DEF TickTrue, Distinct
<1>14. QED
    BY <1>10, <1>11, <1>12, <1>13, NoWork DEF EngineInv

\* A growth blocker takes the room of another decoder.
LEMMA GrowthKeeps ==
    ASSUME EngineInv, NEW r \in Requests, PreemptForGrowth(r)
    PROVE  EngineInv'
<1> DEFINE freed == [reserved EXCEPT ![r] = 0]
           fits == Protectable(freed, blocked, Target(blocked))
<1>1. /\ blocked # NoRequest /\ r \in GrowthVictims /\ Preempt(r)
      /\ reserved' = IF fits THEN [freed EXCEPT ![blocked] = Target(blocked)] ELSE freed
      /\ blocked' = IF fits THEN NoRequest ELSE blocked
    BY DEF PreemptForGrowth, FirstActive
<1>2. status[r] = "decoding" /\ r # blocked
    BY <1>1 DEF GrowthVictims, Candidates
<1>3. RequestTypes /\ blocked \in Requests
    BY <1>1 DEF EngineInv, RequestsTrue, RequestTypes
<1>4. status[blocked] = "decoding"
    BY <1>1 DEF EngineInv, RequestsTrue, BlockerIsResident
<1>5. Target(blocked) \in 0 .. Window
    BY <1>3, <1>4, TargetFits DEF EngineInv, RequestsTrue
<1>6. freed \in Amounts /\ freed[r] = 0 /\ \A q \in Requests \ {r} : freed[q] = reserved[q]
    BY <1>3, ConfigAssumption DEF RequestTypes, Amounts
<1>7. CASE fits
    <2>1. /\ reserved' = [freed EXCEPT ![blocked] = Target(blocked)] /\ blocked' = NoRequest
          /\ Tokens(reserved') <= MaxCached /\ BlocksOf(reserved') <= NumBlocks
        BY <1>1, <1>7 DEF Protectable
    <2> HIDE DEF freed, fits
    <2>2. /\ reserved' \in Amounts /\ reserved'[r] = 0
          /\ \A q \in Requests \ {r} : \/ reserved'[q] = reserved[q]
                                       \/ q = blocked /\ reserved'[q] = Target(q)
        BY <1>2, <1>3, <1>5, <1>6, <2>1 DEF Amounts
    <2>3. BlockerIsResident'
        BY <2>1 DEF BlockerIsResident
    <2>4. QED
        BY <1>1, <1>2, <2>1, <2>2, <2>3, PreemptKeeps
<1>8. CASE ~fits
    <2>1. reserved' = freed /\ blocked' = blocked
        BY <1>1, <1>8
    <2> HIDE DEF freed, fits
    <2>2. Tokens(reserved') <= MaxCached /\ BlocksOf(reserved') <= NumBlocks
        <3> DEFINE a == Tokens(reserved)  b == Tokens(freed)
                   c == BlocksOf(reserved)  d == BlocksOf(freed)
        <3>1. \A q \in Requests : freed[q] <= reserved[q]
            <4>1. \A q \in Requests : reserved[q] \in Nat
                BY <1>3, ConfigAssumption DEF RequestTypes, Amounts
            <4>2. QED
                BY <1>6, <4>1
        <3>2. a \in Nat /\ b \in Nat /\ b <= a /\ c \in Nat /\ d \in Nat /\ d <= c
            BY <1>3, <1>6, <3>1, DemandMonotone DEF RequestTypes
        <3>3. a <= MaxCached /\ c <= NumBlocks
            BY DEF EngineInv, RequestsTrue, CapacityRespected
        <3> HIDE DEF a, b, c, d
        <3>4. b <= MaxCached /\ d <= NumBlocks
            BY <3>2, <3>3, ConfigAssumption
        <3>5. QED
            BY <2>1, <3>4 DEF b, d
    <2>3. Others(r)
        BY <1>1, <1>3, <1>6, <2>1 DEF Others, Preempt, RequestTypes
    <2>4. BlockerIsResident'
        BY <1>2, <1>3, <2>1, <2>3, BlockerStays DEF EngineInv, RequestsTrue
    <2>5. reserved' \in Amounts /\ reserved'[r] = 0 /\ blocked' \in Requests \cup {NoRequest}
          /\ \A q \in Requests \ {r} : reserved'[q] = reserved[q]
        BY <1>3, <1>6, <2>1
    <2>6. QED
        BY <1>1, <1>2, <2>2, <2>4, <2>5, PreemptKeeps
<1>9. QED
    BY <1>7, <1>8

\* The waiting head takes the room of a decoder.
LEMMA HeadPreemptionKeeps ==
    ASSUME EngineInv, NEW r \in Requests, PreemptForHead(r)
    PROVE  EngineInv'
<1>1. /\ blocked = NoRequest /\ blocked' = blocked /\ r \in HeadVictims /\ Preempt(r)
      /\ reserved' = [reserved EXCEPT ![r] = 0]
    BY DEF PreemptForHead, FirstActive
<1>2. status[r] = "decoding"
    BY <1>1 DEF HeadVictims, Candidates
<1>3. RequestTypes
    BY DEF EngineInv, RequestsTrue
<1>4. /\ reserved' \in Amounts /\ reserved'[r] = 0
      /\ \A q \in Requests \ {r} : reserved'[q] = reserved[q]
      /\ \A q \in Requests : reserved'[q] <= reserved[q]
    <2>1. reserved' \in Amounts /\ reserved'[r] = 0
        BY <1>1, <1>3, ConfigAssumption DEF RequestTypes, Amounts
    <2>2. \A q \in Requests : reserved[q] \in Nat
        BY <1>3, ConfigAssumption DEF RequestTypes, Amounts
    <2>3. \A q \in Requests \ {r} : reserved'[q] = reserved[q]
        BY <1>1, <1>3 DEF RequestTypes, Amounts
    <2>4. QED
        BY <2>1, <2>2, <2>3
<1>5. Tokens(reserved') <= MaxCached /\ BlocksOf(reserved') <= NumBlocks
    <2> DEFINE a == Tokens(reserved)  b == Tokens(reserved')
               c == BlocksOf(reserved)  d == BlocksOf(reserved')
    <2>1. a \in Nat /\ b \in Nat /\ b <= a /\ c \in Nat /\ d \in Nat /\ d <= c
        BY <1>3, <1>4, DemandMonotone DEF RequestTypes
    <2>2. a <= MaxCached /\ c <= NumBlocks
        BY DEF EngineInv, RequestsTrue, CapacityRespected
    <2> HIDE DEF a, b, c, d
    <2>3. b <= MaxCached /\ d <= NumBlocks
        BY <2>1, <2>2, ConfigAssumption
    <2>4. QED
        BY <2>3 DEF b, d
<1>6. BlockerIsResident' /\ blocked' \in Requests \cup {NoRequest}
    BY <1>1 DEF BlockerIsResident
<1>7. QED
    BY <1>1, <1>2, <1>4, <1>5, <1>6, PreemptKeeps

\* A step that touches no request, and selects nothing.
LEMMA TickMoves ==
    ASSUME EngineInv,
           UNCHANGED <<requestVars, queues, pending, workVars>>,
           blocked' \in Requests \cup {NoRequest}, BlockerIsResident',
           {cursor', resume'} \subseteq Requests \cup {NoRequest},
           tick' \in TickLocals, tick'.selected \in {tick.selected, <<>>},
           tick'.decodes \in {tick.decodes, <<>>}, tick'.stage # "select",
           \/ tick'.stage = "decode"
           \/ tick'.stage = "prefill" /\ ~Chunked
           \/ tick'.selected = <<>>
    PROVE  EngineInv'
<1>1. UNCHANGED <<status, generated, cached, reserved, waiting, active, pending, decoded,
                  recomputed>>
    BY DEF requestVars, queues, workVars
<1>2. RequestsTrue'
    <2>1. RequestTypes' /\ QueuesTrue' /\ CapacityRespected'
        BY <1>1 DEF EngineInv, RequestsTrue, RequestTypes, QueuesTrue, WithStatus,
                    CapacityRespected
    <2>2. \A q \in Requests : CacheOf(q)'
        BY <1>1 DEF EngineInv, RequestsTrue, CacheOf, History, Lifetime
    <2>3. QED
        BY <2>1, <2>2 DEF RequestsTrue
<1>3. OtherTypes'
    BY <1>1 DEF EngineInv, OtherTypes
<1>4. TickTrue'
    <2>1. Distinct(tick'.selected) /\ Distinct(tick'.decodes)
        BY DEF EngineInv, TickTrue, Distinct
    <2>2. QED
        BY <2>1 DEF TickTrue
<1>5. WorkIsCovered'
    <2>1. Members(tick'.selected) \subseteq Members(tick.selected)
        BY DEF Members
    <2>2. QED
        BY <1>1, <2>1, WorkQuiet DEF EngineInv
<1>6. QED
    BY <1>2, <1>3, <1>4, <1>5 DEF EngineInv

\* The blocker stays what it is when no request changes.
LEMMA BlockerQuiet ==
    ASSUME EngineInv, UNCHANGED <<requestVars, blocked>>
    PROVE  BlockerIsResident' /\ blocked' \in Requests \cup {NoRequest}
BY DEF EngineInv, RequestsTrue, RequestTypes, BlockerIsResident, Target, Rebuilds, Rebuilt,
       History, requestVars

\* The first of a list of requests, if there is one.
LEMMA FirstTypes ==
    ASSUME NEW s \in Seq(Requests)
    PROVE  /\ FirstOf(s) \in Requests \cup {NoRequest}
           /\ s # <<>> => Head(s) \in Requests
BY DEF FirstOf

\* A tick begins with the decodes of the active list.
LEMMA BeginKeeps ==
    ASSUME EngineInv, BeginTick
    PROVE  EngineInv'
<1> DEFINE p == InStatus(active, {"prefilling"})
           d == InStatus(active, {"decoding", "recomputing"})
<1>1. /\ tick' = [Idle EXCEPT !.stage = "admit", !.budget = Budget, !.prefills = p,
                              !.decodes = d]
      /\ blocked' = NoRequest /\ decoded' = {} /\ recomputed' = {}
      /\ UNCHANGED <<status, generated, cached, reserved, waiting, active, pending, cursor,
                     resume>>
    BY DEF BeginTick, requestVars, queues, chunkVars
<1>2. p \in Seq(Requests) /\ d \in Seq(Requests) /\ Distinct(d)
    BY InStatusFacts DEF EngineInv, RequestsTrue, RequestTypes, QueuesTrue
<1> HIDE DEF p, d
<1>3. /\ tick' \in TickLocals /\ tick'.selected = <<>> /\ tick'.decodes = d
      /\ tick'.stage = "admit"
    <2>1. tick' = [stage |-> "admit", prefills |-> p, decodes |-> d, selected |-> <<>>,
                   deferred |-> NoRequest, budget |-> Budget, batched |-> FALSE]
        BY <1>1 DEF Idle
    <2>2. Budget \in 0 .. Budget
        BY ConfigAssumption
    <2>3. QED
        BY <1>2, <2>1, <2>2 DEF TickLocals, Stages
<1>4. RequestsTrue'
    BY <1>1, RequestsQuiet DEF EngineInv
<1>5. OtherTypes'
    BY <1>1, <1>3 DEF EngineInv, OtherTypes
<1>6. TickTrue'
    BY <1>2, <1>3 DEF TickTrue, Distinct
<1>7. QED
    BY <1>3, <1>4, <1>5, <1>6, NoWork DEF EngineInv

\* What was active before, and still is, gets work.  Without chunks all decodes
\* are selected at once, since their lifetimes are protected.
LEMMA ChooseKeeps ==
    ASSUME EngineInv, ChooseWork
    PROVE  EngineInv'
<1> DEFINE p == InStatus(tick.prefills, {"prefilling"})
           d == InStatus(tick.decodes, {"decoding", "recomputing"})
<1>1. /\ tick.stage = "admit"
      /\ UNCHANGED <<status, generated, cached, reserved, waiting, active, blocked, pending,
                     cursor, resume, decoded, recomputed>>
    BY DEF ChooseWork, Admitting, requestVars, queues, chunkVars, workVars
<1>2. /\ tick \in TickLocals /\ tick.prefills \in Seq(Requests) /\ tick.decodes \in Seq(Requests)
      /\ Distinct(tick.decodes) /\ tick.selected = <<>>
    BY <1>1 DEF EngineInv, OtherTypes, TickTrue, TickLocals
<1>3. /\ p \in Seq(Requests) /\ d \in Seq(Requests) /\ Distinct(d)
      /\ \A q \in Members(d) : q \in Requests /\ status[q] \in {"decoding", "recomputing"}
    <2>1. p \in Seq(Requests) /\ d \in Seq(Requests) /\ Distinct(d)
        BY <1>2, InStatusFacts
    <2>2. \A k \in DOMAIN d : status[d[k]] \in {"decoding", "recomputing"}
        BY <1>2, InStatusFacts
    <2> HIDE DEF d
    <2>3. QED
        BY <2>1, <2>2 DEF Members
<1>4. RequestsTrue'
    BY <1>1, RequestsQuiet DEF EngineInv
<1>5. CASE /\ ~Chunked
           /\ tick' = [tick EXCEPT !.stage = "prefill", !.prefills = p, !.decodes = <<>>,
                                   !.selected = d]
    <2> HIDE DEF p, d
    <2>1. /\ tick' \in TickLocals /\ tick'.selected = d /\ tick'.decodes = <<>>
          /\ tick'.stage = "prefill"
        BY <1>2, <1>3, <1>5 DEF TickLocals, Stages
    <2>2. OtherTypes'
        BY <1>1, <2>1 DEF EngineInv, OtherTypes
    <2>3. TickTrue'
        BY <1>3, <1>5, <2>1 DEF TickTrue, Distinct
    <2>4. ~Lazy
        BY <1>5, ConfigAssumption DEF Chunked
    <2>5. ASSUME NEW q \in Members(d)
          PROVE  status[q] \in {"decoding", "recomputing"} /\ Target(q) <= reserved[q]
        <3>1. q \in Requests /\ status[q] \in {"decoding", "recomputing"}
            BY <1>3
        <3>2. CacheOf(q) /\ RequestTypes
            BY <3>1 DEF EngineInv, RequestsTrue
        <3>3. reserved[q] = Lifetime(q)
            BY <2>4, <3>1, <3>2 DEF CacheOf, Resident
        <3>4. QED
            BY <3>1, <3>2, <3>3, TargetFits
    <2>6. WorkIsCovered'
        <3>1. ASSUME NEW q \in Members(tick'.selected)
              PROVE  status'[q] \in {"decoding", "recomputing"} /\ Target(q)' <= reserved'[q]
            <4>1. Target(q)' = Target(q)
                BY <1>1 DEF Target, Rebuilds, Rebuilt, History
            <4>2. QED
                BY <1>1, <2>1, <2>5, <4>1
        <3>2. QED
            BY <3>1 DEF WorkIsCovered
    <2>7. QED
        BY <1>4, <2>2, <2>3, <2>6 DEF EngineInv
<1>6. CASE /\ Chunked
           /\ tick' = [tick EXCEPT !.stage = "prefill first", !.prefills = Rotate(p),
                                   !.decodes = d]
    <2>1. Rotate(p) \in Seq(Requests)
        <3>1. p \in Seq(Requests)
            BY <1>3
        <3> HIDE DEF p
        <3>2. QED
            BY <3>1, RotateFacts
    <2> DEFINE t == Rotate(p)
    <2> HIDE DEF p, d, t
    <2>2. /\ tick' \in TickLocals /\ tick'.selected = <<>> /\ tick'.decodes = d
          /\ tick'.stage = "prefill first"
        BY <1>2, <1>3, <1>6, <2>1 DEF TickLocals, Stages, t
    <2>3. OtherTypes'
        BY <1>1, <2>2 DEF EngineInv, OtherTypes
    <2>4. TickTrue'
        <3>1. Distinct(tick'.decodes)
            <4>1. Distinct(d) /\ tick'.decodes = d
                BY <1>3, <2>2
            <4>2. QED
                BY <4>1
        <3>2. Distinct(tick'.selected)
            <4>1. tick'.selected = <<>>
                BY <2>2
            <4>2. QED
                BY <4>1 DEF Distinct
        <3>3. QED
            BY <2>2, <3>1, <3>2 DEF TickTrue
    <2>5. QED
        BY <1>4, <2>2, <2>3, <2>4, NoWork DEF EngineInv
<1>7. CASE /\ Chunked
           /\ tick' = [tick EXCEPT !.stage = "select", !.prefills = p, !.decodes = Rotate(d)]
    <2> DEFINE t == Rotate(d)
    <2>1. t \in Seq(Requests) /\ Distinct(t) /\ Members(t) \subseteq Members(d)
        <3>1. d \in Seq(Requests) /\ Distinct(d)
            BY <1>3
        <3> HIDE DEF d
        <3>2. QED
            BY <3>1, RotateFacts DEF Members
    <2> HIDE DEF p, d, t
    <2>2. /\ tick' \in TickLocals /\ tick'.selected = <<>> /\ tick'.decodes = t
          /\ tick'.stage = "select"
        BY <1>2, <1>3, <1>7, <2>1 DEF TickLocals, Stages, t
    <2>3. OtherTypes'
        BY <1>1, <2>2 DEF EngineInv, OtherTypes
    <2>4. TickTrue'
        BY <1>1, <1>3, <2>1, <2>2, SMTT(30) DEF TickTrue, Distinct, Members
    <2>5. QED
        BY <1>4, <2>2, <2>3, <2>4, NoWork DEF EngineInv
<1>8. QED
    BY <1>5, <1>6, <1>7 DEF ChooseWork

\* After the prefills: pressure, or the decodes when there are no chunks.
LEMMA EndPrefillKeeps ==
    ASSUME EngineInv, EndPrefill
    PROVE  EngineInv'
<1> DEFINE st == IF Chunked THEN "pressure" ELSE "decode"
<1>1. /\ tick.stage = "prefill" /\ cursor' = FirstOf(tick.prefills)
      /\ tick' = [tick EXCEPT !.stage = st]
      /\ UNCHANGED <<requestVars, queues, pending, resume, blocked, workVars>>
    BY DEF EndPrefill
<1>2. tick \in TickLocals /\ tick.prefills \in Seq(Requests) /\ resume \in Requests \cup {NoRequest}
    BY DEF EngineInv, OtherTypes, TickLocals
<1>3. Chunked => tick.selected = <<>>
    BY <1>1 DEF EngineInv, TickTrue
<1>4. /\ tick' \in TickLocals /\ tick'.stage = st /\ tick'.selected = tick.selected
      /\ tick'.decodes = tick.decodes
    BY <1>1, <1>2 DEF TickLocals, Stages
<1>5. {cursor', resume'} \subseteq Requests \cup {NoRequest}
    BY <1>1, <1>2, FirstTypes
<1>6. BlockerIsResident' /\ blocked' \in Requests \cup {NoRequest}
    BY <1>1, BlockerQuiet
<1>7. QED
    BY <1>1, <1>3, <1>4, <1>5, <1>6, TickMoves

\* After prefills that went first the cursor goes back to a decode.
LEMMA EndPrefillFirstKeeps ==
    ASSUME EngineInv, EndPrefillFirst
    PROVE  EngineInv'
<1>1. /\ tick.stage = "prefill first" /\ resume' = NoRequest
      /\ cursor' = IF resume \in Members(tick.decodes) THEN resume
                   ELSE IF tick.decodes # <<>> THEN Head(tick.decodes)
                   ELSE FirstOf(tick.prefills)
      /\ tick' = [tick EXCEPT !.stage = "pressure"]
      /\ UNCHANGED <<requestVars, queues, pending, blocked, workVars>>
    BY DEF EndPrefillFirst
<1>2. /\ tick \in TickLocals /\ tick.prefills \in Seq(Requests) /\ tick.decodes \in Seq(Requests)
      /\ resume \in Requests \cup {NoRequest} /\ tick.selected = <<>>
    BY <1>1 DEF EngineInv, OtherTypes, TickLocals, TickTrue
<1>3. /\ tick' \in TickLocals /\ tick'.stage = "pressure" /\ tick'.selected = tick.selected
      /\ tick'.decodes = tick.decodes
    BY <1>1, <1>2 DEF TickLocals, Stages
<1>4. {cursor', resume'} \subseteq Requests \cup {NoRequest}
    BY <1>1, <1>2, FirstTypes
<1>5. BlockerIsResident' /\ blocked' \in Requests \cup {NoRequest}
    BY <1>1, BlockerQuiet
<1>6. QED
    BY <1>1, <1>2, <1>3, <1>4, <1>5, TickMoves

\* A decode that is affordable but not covered becomes the blocker.
LEMMA DeferKeeps ==
    ASSUME EngineInv, DeferDecode
    PROVE  EngineInv'
<1> DEFINE r == Head(tick.decodes)
<1>1. /\ tick.stage = "select" /\ tick.decodes # <<>> /\ ~(Affordable(r) /\ Covered(r))
      /\ blocked' = IF Affordable(r) THEN r ELSE blocked
      /\ tick' = [tick EXCEPT !.stage = "decode", !.deferred = r]
      /\ UNCHANGED <<requestVars, queues, pending, cursor, resume, workVars>>
    BY DEF DeferDecode, chunkVars
<1>2. /\ tick \in TickLocals /\ tick.decodes \in Seq(Requests) /\ Distinct(tick.decodes)
      /\ {cursor, resume} \subseteq Requests \cup {NoRequest}
    BY DEF EngineInv, OtherTypes, TickTrue, TickLocals
<1>3. r \in Requests /\ r \in Members(tick.decodes)
    BY <1>1, <1>2, TailMembers
<1>4. status[r] \in {"decoding", "recomputing"}
    BY <1>1, <1>3 DEF EngineInv, TickTrue
<1>5. RequestTypes /\ CacheOf(r)
    BY <1>3 DEF EngineInv, RequestsTrue
<1>6. /\ tick' \in TickLocals /\ tick'.stage = "decode" /\ tick'.selected = tick.selected
      /\ tick'.decodes = tick.decodes
    BY <1>1, <1>2, <1>3 DEF TickLocals, Stages
<1>7. {cursor', resume'} \subseteq Requests \cup {NoRequest}
    BY <1>1, <1>2
<1>8. UNCHANGED <<status, generated, cached, reserved>>
    BY <1>1 DEF requestVars
<1>9. BlockerIsResident' /\ blocked' \in Requests \cup {NoRequest}
    <2>1. CASE ~Affordable(r)
        <3>1. blocked' = blocked
            BY <1>1, <2>1
        <3>2. QED
            BY <1>1, <3>1, BlockerQuiet
    <2>2. CASE Affordable(r)
        <3>1. blocked' = r /\ ~Covered(r)
            BY <1>1, <2>2
        <3>2. ~(Target(r) <= reserved[r])
            BY <3>1 DEF Covered
        <3>3. Target(r) \in Int /\ reserved[r] \in Int /\ History(r) \in Int
            BY <1>3, <1>4, <1>5, RequestFacts, TargetFits DEF History, Smaller
        <3>4. status[r] = "decoding"
            <4>1. ASSUME status[r] = "recomputing"
                  PROVE  Target(r) <= reserved[r]
                BY <1>3, <1>4, <1>5, <4>1, TargetFits DEF CacheOf
            <4>2. QED
                BY <1>4, <3>2, <4>1
        <3>5. ASSUME NEW q \in Requests, q = r
              PROVE  Target(q)' = Target(q) /\ status'[q] = "decoding"
                     /\ Target(q) > reserved'[q]
            <4>1. Target(q)' = Target(q)
                BY <1>8 DEF Target, Rebuilds, Rebuilt, History
            <4>2. QED
                BY <1>8, <3>2, <3>3, <3>4, <3>5, <4>1
        <3>6. PICK q \in Requests : q = r
            BY <1>3
        <3> HIDE DEF r
        <3>7. blocked' = q /\ Target(q)' > reserved'[q] /\ status'[q] = "decoding"
            BY <3>1, <3>5, <3>6
        <3>8. Target(blocked)' = Target(q)'
            BY <3>7
        <3>9. QED
            BY <1>3, <3>1, <3>7, <3>8 DEF BlockerIsResident
    <2>3. QED
        BY <2>1, <2>2
<1>10. QED
    BY <1>1, <1>6, <1>7, <1>9, TickMoves

\* All decodes are selected.
LEMMA EndSelectionKeeps ==
    ASSUME EngineInv, EndSelection
    PROVE  EngineInv'
<1>1. /\ tick' = [tick EXCEPT !.stage = "decode"]
      /\ UNCHANGED <<requestVars, queues, pending, cursor, resume, blocked, workVars>>
    BY DEF EndSelection, chunkVars
<1>2. tick \in TickLocals /\ {cursor, resume} \subseteq Requests \cup {NoRequest}
    BY DEF EngineInv, OtherTypes
<1>3. /\ tick' \in TickLocals /\ tick'.stage = "decode" /\ tick'.selected = tick.selected
      /\ tick'.decodes = tick.decodes
    BY <1>1, <1>2 DEF TickLocals, Stages
<1>4. BlockerIsResident' /\ blocked' \in Requests \cup {NoRequest}
    BY <1>1, BlockerQuiet
<1>5. QED
    BY <1>1, <1>2, <1>3, <1>4, TickMoves

\* All selected work is done; a deferred decode is remembered by the cursors.
LEMMA EndDecodeKeeps ==
    ASSUME EngineInv, EndDecode
    PROVE  EngineInv'
<1> DEFINE st == IF Chunked /\ tick.deferred = NoRequest THEN "prefill" ELSE "pressure"
<1>1. /\ tick.stage = "decode" /\ tick.selected = <<>>
      /\ \/ UNCHANGED <<cursor, resume>>
         \/ cursor' = tick.deferred /\ UNCHANGED resume
         \/ tick.prefills # <<>> /\ cursor' = Head(tick.prefills) /\ resume' = tick.deferred
      /\ tick' = [tick EXCEPT !.stage = st]
      /\ UNCHANGED <<requestVars, queues, pending, blocked, workVars>>
    BY DEF EndDecode, chunkVars
<1>2. /\ tick \in TickLocals /\ {cursor, resume} \subseteq Requests \cup {NoRequest}
      /\ tick.prefills \in Seq(Requests) /\ tick.deferred \in Requests \cup {NoRequest}
    BY DEF EngineInv, OtherTypes, TickLocals
<1>3. /\ tick' \in TickLocals /\ tick'.stage = st /\ tick'.selected = tick.selected
      /\ tick'.decodes = tick.decodes
    BY <1>1, <1>2 DEF TickLocals, Stages
<1>4. {cursor', resume'} \subseteq Requests \cup {NoRequest}
    BY <1>1, <1>2, FirstTypes
<1>5. BlockerIsResident' /\ blocked' \in Requests \cup {NoRequest}
    BY <1>1, BlockerQuiet
<1>6. QED
    BY <1>1, <1>2, <1>3, <1>4, <1>5, TickMoves

\* The tick ends without a preemption.
LEMMA EndTickKeeps ==
    ASSUME EngineInv, EndTick
    PROVE  EngineInv'
<1>1. /\ tick' = Idle
      /\ UNCHANGED <<requestVars, queues, pending, cursor, resume, blocked, workVars>>
    BY DEF EndTick, chunkVars
<1>2. {cursor, resume} \subseteq Requests \cup {NoRequest}
    BY DEF EngineInv, OtherTypes
<1>3. /\ tick' \in TickLocals /\ tick'.stage = "idle" /\ tick'.selected = <<>>
      /\ tick'.decodes = <<>>
    BY <1>1, ConfigAssumption DEF Idle, TickLocals, Stages
<1>4. BlockerIsResident' /\ blocked' \in Requests \cup {NoRequest}
    BY <1>1, BlockerQuiet
<1>5. QED
    BY <1>1, <1>2, <1>3, <1>4, TickMoves

\* A step that changes nothing, or only what is pending.
LEMMA EngineQuiet ==
    ASSUME EngineInv, pending' \subseteq Requests,
           UNCHANGED <<requestVars, queues, chunkVars, blocked, workVars, tick>>
    PROVE  EngineInv'
<1>1. UNCHANGED <<status, generated, cached, reserved, waiting, active, cursor, resume,
                  blocked, decoded, recomputed, tick>>
    BY DEF requestVars, queues, chunkVars, workVars
<1>2. RequestsTrue'
    BY <1>1, RequestsQuiet DEF EngineInv
<1>3. WorkIsCovered'
    BY <1>1, WorkQuiet DEF EngineInv
<1>4. OtherTypes' /\ TickTrue'
    BY <1>1 DEF EngineInv, OtherTypes, TickTrue
<1>5. QED
    BY <1>2, <1>3, <1>4 DEF EngineInv

\* Every step keeps the engine consistent.
LEMMA EngineStep ==
    ASSUME EngineInv, [Next]_vars
    PROVE  EngineInv'
<1>1. CASE UNCHANGED vars \/ \E r \in Requests : Cancel(r)
    <2>1. UNCHANGED <<requestVars, queues, chunkVars, blocked, workVars, tick>>
        BY <1>1 DEF vars, Cancel
    <2>2. pending' \subseteq Requests
        BY <1>1 DEF vars, Cancel, EngineInv, OtherTypes
    <2>3. QED
        BY <2>1, <2>2, EngineQuiet
<1>2. CASE \E r \in Requests : Submit(r)
    BY <1>2, SubmitKeeps
<1>3. CASE \E r \in Requests : ApplyCancellation(r)
    BY <1>3, CancellationKeeps
<1>4. CASE RejectHead \/ FinishHead
    BY <1>4, HeadGoneKeeps
<1>5. CASE AdmitHead
    BY <1>5, AdmitKeeps
<1>6. CASE \E r \in Requests : Prefill(r) \/ Decode(r) \/ Recompute(r)
    BY <1>6, PrefillKeeps, DecodeKeeps, RecomputeKeeps
<1>7. CASE \E r \in Requests : PreemptForGrowth(r) \/ PreemptForHead(r)
    BY <1>7, GrowthKeeps, HeadPreemptionKeeps
<1>8. CASE SelectDecode
    BY <1>8, SelectKeeps
<1>9. CASE \/ BeginTick \/ ChooseWork \/ EndPrefill \/ EndPrefillFirst
           \/ DeferDecode \/ EndSelection \/ EndDecode \/ EndTick
    BY <1>9, BeginKeeps, ChooseKeeps, EndPrefillKeeps, EndPrefillFirstKeeps, DeferKeeps,
       EndSelectionKeeps, EndDecodeKeeps, EndTickKeeps
<1>10. QED
    BY <1>1, <1>2, <1>3, <1>4, <1>5, <1>6, <1>7, <1>8, <1>9 DEF Next, TickStep

\* The invariant says what the runs check.
LEMMA EngineInvImplies ==
    ASSUME EngineInv
    PROVE  BookkeepingConsistent /\ WorkIsCovered /\ BlockerIsResident
<1>1. TypeOK
    BY DEF EngineInv, RequestsTrue, RequestTypes, OtherTypes, TypeOK, Amounts, Statuses
<1>2. QueuesMatchStatus
    <2>1. Len(waiting) = Cardinality(Members(waiting)) /\ Len(active) = Cardinality(Members(active))
        BY DistinctLength, RequestAssumption DEF EngineInv, RequestsTrue, RequestTypes, QueuesTrue
    <2>2. Members(waiting) = WithStatus({"waiting", "preempted"}) /\ Members(active) = Residents
        BY DEF EngineInv, RequestsTrue, QueuesTrue, Queued, Resident, Residents
    <2>3. QED
        BY <2>1, <2>2 DEF QueuesMatchStatus, HasEachOnce
<1>3. CacheMatchesHistory
    <2>1. ASSUME NEW r \in Requests
          PROVE  r \in Residents <=> status[r] \in Resident
        BY DEF Residents, WithStatus, Resident
    <2>2. QED
        BY <2>1 DEF EngineInv, RequestsTrue, CacheOf, CacheMatchesHistory
<1>4. QED
    BY <1>1, <1>2, <1>3 DEF BookkeepingConsistent, EngineInv, RequestsTrue

\* BookkeepingConsistent, for any workload and configuration: between any two
\* steps of a tick the queues list exactly the requests of their statuses, once
\* each, every cache is the history of its request and within its reservation,
\* and what is protected fits the tokens, the blocks and the overcommit cap.
THEOREM BookkeepingHolds == Spec => []BookkeepingConsistent
<1>1. EngineInv /\ [Next]_vars => EngineInv'
    BY EngineStep
<1>2. EngineInv => BookkeepingConsistent
    BY EngineInvImplies
<1>3. QED
    BY <1>1, <1>2, EngineInit, PTL DEF Spec

\* WorkIsCovered, for any workload and configuration: whatever else grows,
\* finishes or fails between the selection of a decode or recompute and its
\* turn, its target is protected when it runs.
THEOREM SelectedWorkCovered == Spec => []WorkIsCovered
<1>1. EngineInv /\ [Next]_vars => EngineInv'
    BY EngineStep
<1>2. EngineInv => WorkIsCovered
    BY DEF EngineInv
<1>3. QED
    BY <1>1, <1>2, EngineInit, PTL DEF Spec

\* BlockerIsResident, for any workload and configuration: the growth blocker is
\* a resident decoder that still lacks its next reservation.
THEOREM BlockerResident == Spec => []BlockerIsResident
<1>1. EngineInv /\ [Next]_vars => EngineInv'
    BY EngineStep
<1>2. EngineInv => BlockerIsResident
    BY DEF EngineInv, RequestsTrue
<1>3. QED
    BY <1>1, <1>2, EngineInit, PTL DEF Spec
=============================================================================
