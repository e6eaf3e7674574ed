--------------------------- MODULE MCPublicLimits ---------------------------
(***************************************************************************)
(* An instance of CapacityGate and one of GlobalQuota for TLC, as the      *)
(* public demo has one of each.  The two share nothing, so that no step of *)
(* one can enable or change a step of the other: it is enough to let one   *)
(* move while the other is as it was in the beginning.                     *)
(***************************************************************************)
EXTENDS CapacityGate, GlobalQuota

\* Request ids are fresh uuids, which the quota only compares: it is enough to
\* use them in their order.
InOrder(l) == \A id, other \in Requests : l[id] # "none" /\ other < id => l[other] # "none"

LimitsInit == Init /\ QuotaInit

GateStep ==
  /\ quota = NewQuota /\ now = 0 /\ accepted = {}
  /\ Next
  /\ UNCHANGED quotaVars

\* An inspection reserves nothing, and a story may ask for more than the day
\* allows, as Maxima lets it: the policy compares the day with a single
\* completion.
QuotaStep ==
  /\ gate = NewGate
  /\ QuotaNext
  /\ InOrder(lease')
  /\ UNCHANGED vars

LimitsSpec ==
  /\ LimitsInit
  /\ [][GateStep \/ QuotaStep]_<<vars, quotaVars>>
  /\ Fairness
=============================================================================
