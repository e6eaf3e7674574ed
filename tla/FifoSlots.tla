------------------------------ MODULE FifoSlots ------------------------------
(***************************************************************************)
(* What the capacity gate of the public demo promises to the handlers that *)
(* share it, without futures, event loop or cancellation: a fixed number   *)
(* of slots, each with one owner, and a bounded line of waiters.  A slot   *)
(* is taken from the pool only when nobody waits, and a slot given back    *)
(* goes to the head of the line or, when there is none, to the pool.       *)
(***************************************************************************)
EXTENDS Integers, Sequences, FiniteSets

CONSTANTS Tasks,         \* those that may own a slot
          Maximum,       \* number of slots
          MaxQueueSize   \* longest line

VARIABLES owners,        \* the tasks a slot belongs to
          line           \* the tasks that wait, the oldest first

vars == <<owners, line>>

Waiting == {line[i] : i \in DOMAIN line}

Init == owners = {} /\ line = <<>>

\* A free slot goes to a task only if no task waits for one.
Take(t) ==
  /\ t \notin owners \cup Waiting
  /\ Cardinality(owners) < Maximum
  /\ line = <<>>
  /\ owners' = owners \cup {t}
  /\ UNCHANGED line

\* A task waits only if every slot has an owner.
Join(t) ==
  /\ t \notin owners \cup Waiting
  /\ Cardinality(owners) = Maximum
  /\ Len(line) < MaxQueueSize
  /\ line' = Append(line, t)
  /\ UNCHANGED owners

\* A waiter that gives up leaves the order of the others alone.
Leave(t) ==
  /\ \E i \in DOMAIN line :
       /\ line[i] = t
       /\ line' = SubSeq(line, 1, i - 1) \o SubSeq(line, i + 1, Len(line))
  /\ UNCHANGED owners

\* A slot that is given back goes to the head of the line, or to the pool.
GiveBack(t) ==
  /\ t \in owners
  /\ IF line = <<>>
     THEN owners' = owners \ {t} /\ UNCHANGED line
     ELSE owners' = (owners \ {t}) \cup {Head(line)} /\ line' = Tail(line)

Next == \E t \in Tasks : Take(t) \/ Join(t) \/ Leave(t) \/ GiveBack(t)

Spec == Init /\ [][Next]_vars
=============================================================================
