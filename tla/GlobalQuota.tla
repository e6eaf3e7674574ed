------------------------------ MODULE GlobalQuota ------------------------------
(***************************************************************************)
(* _GlobalQuota of public_demo.py: at most RequestsPerHour requests in any *)
(* hour and TokensPerDay output tokens in any day, for all callers         *)
(* together.  A request reserves its maximum when it is let in, and pays   *)
(* for what it generated when it ends; what is older than its window is    *)
(* dropped when the next request asks.                                     *)
(*                                                                         *)
(* As in CapacityGate no method awaits under the lock, so each one is a    *)
(* step, and they are operators on the quota's record for PublicDemo.      *)
(***************************************************************************)
EXTENDS Integers, Sequences, FiniteSets, FiniteSetsExt, Functions

CONSTANTS Requests,          \* request ids, each used once
          Maxima,            \* what a request may reserve
          RequestsPerHour,   \* policy.global_requests_per_hour
          TokensPerDay,      \* policy.global_generated_tokens_per_day
          Hour, Day,         \* the windows, in ticks of the clock
          LastTick           \* bound on the clock

ASSUME QuotaAssumption ==
  /\ RequestsPerHour \in Nat \ {0}
  /\ TokensPerDay \in Nat \ {0}
  /\ Maxima \subseteq Nat
  /\ Hour \in Nat \ {0}
  /\ Day \in Nat \ {0}

VARIABLES quota,      \* _requests, _generated_tokens and _reservations
          now,        \* the clock
          lease,      \* of each request: not asked, open, or finalized
          accepted,   \* history: every request let in and not rolled back
          spent       \* history: every settlement

quotaVars == <<quota, now, lease, accepted, spent>>

-----------------------------------------------------------------------------
(* The methods, as operators on the quota *)

NewQuota == [requests |-> <<>>, tokens |-> <<>>, reserved |-> <<>>]

\* Mutant: a record lives a tick longer than its window.
OlderLater(record, t, window) == record.at < t - window

Older(record, t, window) == record.at <= t - window

\* A deque loses its expired head, up to the first record still young.
Young(s, t, window) ==
  LET fresh == {i \in DOMAIN s : ~Older(s[i], t, window)}
  IN  IF fresh = {} THEN <<>> ELSE SubSeq(s, Min(fresh), Len(s))

Pruned(q, t) == [q EXCEPT !.requests = Young(@, t, Hour), !.tokens = Young(@, t, Day)]

Total(records) == SumFunction([i \in DOMAIN records |-> records[i].count])

Promised(q) == SumFunction(q.reserved)

\* Mutant: what others have reserved is not counted.
ExcessOverSettled(q, maximum) == Total(q.tokens) + maximum - TokensPerDay

\* What of a reservation of maximum tokens does not fit the day.
Excess(q, maximum) == Total(q.tokens) + Promised(q) + maximum - TokensPerDay

TooManyRequests(q) == Len(q.requests) >= RequestsPerHour

Refused(q, maximum) == TooManyRequests(q) \/ Excess(q, maximum) > 0

Admitted(q, id, maximum, t) ==
  [q EXCEPT !.requests = Append(@, [id |-> id, at |-> t]),
            !.reserved = [other \in DOMAIN @ \cup {id} |->
                            IF other = id THEN maximum ELSE @[other]]]

Unreserved(reserved, id) == [other \in DOMAIN reserved \ {id} |-> reserved[other]]

\* The runner did not take the request: the reservation goes, and the first
\* record with its id.
RolledBack(q, id) ==
  LET own == {i \in DOMAIN q.requests : q.requests[i].id = id}
  IN  [q EXCEPT !.reserved = Unreserved(@, id),
                !.requests = IF own = {} THEN @
                             ELSE SubSeq(@, 1, Min(own) - 1) \o SubSeq(@, Min(own) + 1, Len(@))]

\* The request ended: the actual count replaces the reservation, and the
\* hourly record stays.
Settled(q, id, count, t) ==
  [q EXCEPT !.reserved = Unreserved(@, id),
            !.tokens = IF count > 0 THEN Append(@, [at |-> t, count |-> count]) ELSE @]

\* Mutant: the expiry of the oldest record is always enough.
RetryAfterFirst(q, maximum, t) ==
  IF TooManyRequests(q) THEN Max({1, q.requests[1].at + Hour - t})
  ELSE IF q.tokens = <<>> THEN 1 ELSE Max({1, q.tokens[1].at + Day - t})

\* Retry-After of a refusal at time t: when the first records whose expiry
\* makes room will have expired, at least a tick; one tick when no expiry of
\* settled tokens would be enough.
RetryAfter(q, maximum, t) ==
  IF TooManyRequests(q) THEN Max({1, q.requests[1].at + Hour - t})
  ELSE LET enough == {i \in DOMAIN q.tokens :
                        Total(SubSeq(q.tokens, 1, i)) >= Excess(q, maximum)}
       IN  IF enough = {} THEN 1 ELSE Max({1, q.tokens[Min(enough)].at + Day - t})

-----------------------------------------------------------------------------
QuotaInit ==
  /\ quota = NewQuota
  /\ now = 0
  /\ lease = [id \in Requests |-> "none"]
  /\ accepted = {}
  /\ spent = {}

\* acquire prunes, then lets the request in or raises _GlobalQuotaFullError.
Acquire(id, maximum) ==
  /\ lease[id] = "none"
  /\ LET q == Pruned(quota, now)
     IN  IF Refused(q, maximum)
         THEN quota' = q /\ UNCHANGED <<lease, accepted>>
         ELSE /\ quota' = Admitted(q, id, maximum, now)
              /\ lease' = [lease EXCEPT ![id] = "open"]
              /\ accepted' = accepted \cup {[id |-> id, at |-> now]}
  /\ UNCHANGED <<now, spent>>

\* The flag of the lease lets only the first of cancel and settle through.
Cancel(id) ==
  /\ lease[id] = "open"
  /\ lease' = [lease EXCEPT ![id] = "final"]
  /\ quota' = RolledBack(quota, id)
  /\ accepted' = {record \in accepted : record.id # id}
  /\ UNCHANGED <<now, spent>>

Settle(id) ==
  /\ lease[id] = "open"
  /\ lease' = [lease EXCEPT ![id] = "final"]
  /\ \E count \in 0..quota.reserved[id] :
       /\ quota' = Settled(quota, id, count, now)
       /\ spent' = spent \cup {[id |-> id, at |-> now, count |-> count]}
  /\ UNCHANGED <<now, accepted>>

\* time.monotonic goes on.
Tick ==
  /\ now < LastTick
  /\ now' = now + 1
  /\ UNCHANGED <<quota, lease, accepted, spent>>

QuotaNext ==
  \/ \E id \in Requests :
       \/ \E maximum \in Maxima : Acquire(id, maximum)
       \/ Cancel(id)
       \/ Settle(id)
  \/ Tick

QuotaSpec == QuotaInit /\ [][QuotaNext]_quotaVars

-----------------------------------------------------------------------------
(* Properties *)

\* The reference: what the whole history says of the window that ends at t.
RequestsIn(t) == {record \in accepted : t - Hour < record.at /\ record.at <= t}

SpentIn(t) ==
  SumFunction([record \in {s \in spent : t - Day < s.at /\ s.at <= t} |-> record.count])

\* The deques hold records of requests and settlements in the order of time,
\* and a reservation for exactly the open leases.
QuotaTypeOK ==
  /\ quota.requests \in Seq([id : Requests, at : 0..now])
  /\ quota.tokens \in Seq([at : 0..now, count : 1..TokensPerDay])
  /\ DOMAIN quota.reserved = {id \in Requests : lease[id] = "open"}
  /\ \A id \in DOMAIN quota.reserved : quota.reserved[id] \in Maxima

\* In no hour are more requests let in than the policy says, and in no day
\* more tokens paid for, whatever was reserved, settled or rolled back when;
\* what is still reserved fits in the present day as well.
WindowsRespected ==
  /\ \A t \in 0..now : Cardinality(RequestsIn(t)) <= RequestsPerHour
  /\ \A t \in 0..now : SpentIn(t) <= TokensPerDay
  /\ SpentIn(now) + Promised(quota) <= TokensPerDay

\* Pruning lazily, from the heads only, loses nothing: each decision is the
\* one the whole history gives.
RefusalsExact ==
  \A maximum \in Maxima :
    Refused(Pruned(quota, now), maximum) <=>
      \/ Cardinality(RequestsIn(now)) >= RequestsPerHour
      \/ SpentIn(now) + Promised(quota) + maximum > TokensPerDay

\* A client that waits for Retry-After is not refused for the same reason if
\* nothing else happens meanwhile; a shortage that no expiry ends alone, for
\* it is reserved by requests still running, promises nothing.
RetryAfterEnough ==
  \A maximum \in Maxima :
    LET q == Pruned(quota, now)
        later == Pruned(q, now + RetryAfter(q, maximum, now))
    IN  /\ TooManyRequests(q) => ~TooManyRequests(later)
        /\ ~TooManyRequests(q) /\ Promised(q) + maximum <= TokensPerDay
             => Excess(later, maximum) <= 0

\* A request is refused exactly if it must be, and told to come back when it is
\* not (public_demo.py, _GlobalQuota.acquire()).
DecisionsExact == RefusalsExact /\ RetryAfterEnough
=============================================================================
