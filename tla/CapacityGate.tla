----------------------------- MODULE CapacityGate -----------------------------
(***************************************************************************)
(* _CapacityGate of public_demo.py: the slots of the public HTTP boundary  *)
(* and the bounded FIFO of the requests that wait for one.                 *)
(*                                                                         *)
(* The gate runs on one event loop.  No method awaits anything while it    *)
(* holds the gate's lock, so the lock is never contended and each method,  *)
(* and what acquire does before and after its await, is one step.  What    *)
(* interleaves is the await itself: between the release that sets a        *)
(* waiter's future and the waiter's task running again, the task may be    *)
(* cancelled, by its deadline or by the server.                            *)
(*                                                                         *)
(* The gate is a record, and its methods are operators from gate to gate,  *)
(* so that PublicDemo can use the same definitions for its handlers.       *)
(***************************************************************************)
EXTENDS Integers, Sequences, FiniteSets, Subsequence

CONSTANTS Tasks,         \* the handlers' tasks
          Maximum,       \* policy.max_concurrent_requests
          MaxQueueSize   \* policy.max_queue_size

ASSUME GateAssumption ==
  /\ Maximum \in Nat \ {0}
  /\ MaxQueueSize \in Nat
  /\ IsFiniteSet(Tasks)

VARIABLES gate,          \* _active, _waiters and the state of every future
          holding,       \* the tasks that hold a lease not yet released
          interrupted    \* the tasks with a CancelledError to be raised

vars == <<gate, holding, interrupted>>

-----------------------------------------------------------------------------
(* The methods, as operators on the gate *)

FutureState == {"none", "pending", "result", "cancelled"}

NewGate == [active |-> 0, waiters |-> <<>>, future |-> [t \in Tasks |-> "none"]]

Vacant(g) == g.active < Maximum

LineFull(g) == Len(g.waiters) >= MaxQueueSize

Taken(g) == [g EXCEPT !.active = @ + 1]

Joined(g, t) == [g EXCEPT !.waiters = Append(@, t), !.future[t] = "pending"]

\* Places in the line whose future nobody cancelled.
Live(g) == {i \in DOMAIN g.waiters : g.future[g.waiters[i]] # "cancelled"}

\* Mutant: the youngest first.
LastLive(g) == CHOOSE i \in Live(g) : \A j \in Live(g) : j <= i

FirstLive(g) == CHOOSE i \in Live(g) : \A j \in Live(g) : i <= j

\* Mutant: the slot goes back to the pool, whoever waits.
ReleasedToPool(g) == [g EXCEPT !.active = @ - 1]

\* The slot passes to the oldest live waiter; cancelled ones before it are
\* dropped.  Without one the slot is free again.
Released(g) ==
  IF Live(g) = {}
  THEN [g EXCEPT !.waiters = <<>>, !.active = @ - 1]
  ELSE [g EXCEPT !.waiters = SubSeq(@, FirstLive(g) + 1, Len(@)),
                 !.future[g.waiters[FirstLive(g)]] = "result"]

Forgotten(g, t) == [g EXCEPT !.future[t] = "none"]

InLineOf(g) == {g.waiters[i] : i \in DOMAIN g.waiters}

\* deque.remove(): the oldest waiter that is t.
Without(g, t) ==
  IF t \notin InLineOf(g) THEN g
  ELSE LET i == CHOOSE i \in DOMAIN g.waiters :
                  g.waiters[i] = t /\ \A j \in DOMAIN g.waiters : g.waiters[j] = t => i <= j
       IN  [g EXCEPT !.waiters = SubSeq(@, 1, i - 1) \o SubSeq(@, i + 1, Len(@))]

\* Mutant: a slot given to a task that was cancelled meanwhile is lost.
LeftLineWithSlot(g, t) == Forgotten(Without(g, t), t)

\* The except branch of acquire, in the task that stops waiting: it leaves
\* the line, or passes on the slot it was given and never saw.
LeftLine(g, t) ==
  IF t \notin InLineOf(g) /\ g.future[t] = "result"
  THEN Released(Forgotten(g, t))
  ELSE Forgotten(Without(g, t), t)

\* What cancelling a task does to the future it awaits: nothing once the
\* future has its result.
Interrupted(g, t) ==
  IF g.future[t] = "pending" THEN [g EXCEPT !.future[t] = "cancelled"] ELSE g

-----------------------------------------------------------------------------
Init ==
  /\ gate = NewGate
  /\ holding = {}
  /\ interrupted = {}

Outside(t) == t \notin holding /\ gate.future[t] = "none"

\* acquire finds a free slot.
AcquireNow(t) ==
  /\ Outside(t)
  /\ Vacant(gate)
  /\ gate' = Taken(gate)
  /\ holding' = holding \cup {t}
  /\ UNCHANGED interrupted

\* acquire joins the line; a full line raises _CapacityFullError and changes
\* nothing.
Wait(t) ==
  /\ Outside(t)
  /\ ~Vacant(gate)
  /\ ~LineFull(gate)
  /\ gate' = Joined(gate, t)
  /\ UNCHANGED <<holding, interrupted>>

\* The deadline or the server cancels a task that waits.
Interrupt(t) ==
  /\ gate.future[t] \in {"pending", "result"}
  /\ t \notin interrupted
  /\ gate' = Interrupted(gate, t)
  /\ interrupted' = interrupted \cup {t}
  /\ UNCHANGED holding

\* The task runs again with the result of its future.
Resume(t) ==
  /\ gate.future[t] = "result"
  /\ t \notin interrupted
  /\ gate' = Forgotten(gate, t)
  /\ holding' = holding \cup {t}
  /\ UNCHANGED interrupted

\* The task runs again with CancelledError raised at its await.
Withdraw(t) ==
  /\ t \in interrupted
  /\ gate' = LeftLine(gate, t)
  /\ interrupted' = interrupted \ {t}
  /\ UNCHANGED holding

\* release of a lease, which a flag makes happen once.
Release(t) ==
  /\ t \in holding
  /\ gate' = Released(gate)
  /\ holding' = holding \ {t}
  /\ UNCHANGED interrupted

Next == \E t \in Tasks :
  \/ AcquireNow(t) \/ Wait(t) \/ Interrupt(t)
  \/ Resume(t) \/ Withdraw(t) \/ Release(t)

Spec == Init /\ [][Next]_vars

\* The event loop runs every task that is ready, and every lease is released:
\* the handlers are bounded by their deadline.
Fairness == \A t \in Tasks :
  WF_vars(Resume(t)) /\ WF_vars(Withdraw(t)) /\ WF_vars(Release(t))

FairSpec == Spec /\ Fairness

-----------------------------------------------------------------------------
(* Properties *)

\* Those a slot belongs to: the lease holders, and the waiters given a slot
\* whose task has not run yet.
Owners == holding \cup {t \in Tasks : gate.future[t] = "result"}

InLine == InLineOf(gate)

\* The gate's own fields, the leases and the pending cancellations are of
\* their types.
TypeOK ==
  /\ gate \in [active : 0..Maximum, waiters : Seq(Tasks), future : [Tasks -> FutureState]]
  /\ holding \subseteq Tasks
  /\ interrupted \subseteq Tasks

\* _active counts exactly the owners, and never exceeds the maximum: however
\* releases, hand-overs and cancellations interleave, no slot is lost, given
\* to two tasks, or invented.
SlotsConserved == gate.active = Cardinality(Owners) /\ Cardinality(Owners) <= Maximum

\* No slot is free while a request that is still interested waits for one
\* (acquire does not look at the line before it takes a free slot).
NoIdleSlot == Vacant(gate) => Live(gate) = {}

\* A future that got its result has left the line, and a pending one is in
\* it once: nobody is handed a slot twice, nobody waits unseen.
LineConsistent ==
  /\ \A i, j \in DOMAIN gate.waiters : gate.waiters[i] = gate.waiters[j] => i = j
  /\ \A t \in InLine : t \notin holding /\ gate.future[t] \in {"pending", "cancelled"}
  /\ \A t \in Tasks : gate.future[t] = "pending" => t \in InLine
  /\ \A t \in Tasks : gate.future[t] = "cancelled" => t \in interrupted

\* A waiter is served or gives up: it is not forgotten behind those that were
\* cancelled before it.
WaitersServed == \A t \in Tasks : gate.future[t] = "pending" ~> gate.future[t] # "pending"

\* The gate implements bounded FIFO slots: the live part of the deque is the
\* line, and a result that was set and not seen yet already owns its slot.
Slots == INSTANCE FifoSlots WITH
  owners <- Owners,
  line <- Subsequence(gate.waiters, Live(gate))

ImplementsFifoSlots == Slots!Spec
=============================================================================
