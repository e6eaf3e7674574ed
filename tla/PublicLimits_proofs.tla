------------------------- MODULE PublicLimits_proofs -------------------------
(***************************************************************************)
(* Proofs about the limits of the public demo, CapacityGate and             *)
(* GlobalQuota.  For any tasks, slots and length of the line: however       *)
(* hand-overs and cancellations interleave, no slot is lost, given twice or *)
(* invented, and the line is served in its order.  For any requests, limits *)
(* and windows: the deques of the quota, which forget what has expired,     *)
(* decide as the whole history would, and no window is overspent.           *)
(***************************************************************************)
EXTENDS CapacityGate, GlobalQuota, CollectionTheorems

\* Those a slot belongs to, as operators on the gate and the leases.
OwnersOf(g, held) == held \cup {t \in Tasks : g.future[t] = "result"}

Gates == [active : Int, waiters : Seq(Tasks), future : [Tasks -> FutureState]]

\* A waiter is in the line once, and nobody in the line has a slot.
LineSound(g, held) ==
  /\ \A i, j \in DOMAIN g.waiters : g.waiters[i] = g.waiters[j] => i = j
  /\ \A i \in DOMAIN g.waiters :
       g.waiters[i] \notin held /\ g.future[g.waiters[i]] \in {"pending", "cancelled"}

\* Every slot in use has its owner.
Balanced(g, held) ==
  /\ g.active = Cardinality(OwnersOf(g, held))
  /\ g.active <= Maximum

Sound(g, held) ==
  /\ g \in Gates
  /\ held \subseteq Tasks
  /\ \A t \in held : g.future[t] = "none"
  /\ LineSound(g, held)

GateInvariant ==
  /\ Sound(gate, holding)
  /\ Balanced(gate, holding)
  /\ interrupted \subseteq Tasks
  /\ \A t \in interrupted : gate.future[t] \in {"cancelled", "result"}

\* The owners are finitely many.
LEMMA OwnersFinite ==
    ASSUME NEW g \in Gates, NEW held \in SUBSET Tasks
    PROVE  IsFiniteSet(OwnersOf(g, held)) /\ Cardinality(OwnersOf(g, held)) \in Nat
<1>1. OwnersOf(g, held) \in SUBSET Tasks
    BY DEF OwnersOf
<1>2. QED
    BY <1>1, GateAssumption, FS_Subset, FS_CardinalityType

-----------------------------------------------------------------------------
(* Releasing a slot.                                                       *)

\* The slot of a task that owns nothing any more goes to a waiter, or to nobody.
LEMMA ReleasedSound ==
    ASSUME NEW g \in Gates, NEW held \in SUBSET Tasks, Sound(g, held),
           g.active = Cardinality(OwnersOf(g, held)) + 1, g.active <= Maximum
    PROVE  /\ Sound(Released(g), held) /\ Balanced(Released(g), held)
           /\ \A t \in Tasks : \/ Released(g).future[t] = g.future[t]
                               \/ g.future[t] = "pending" /\ Released(g).future[t] = "result"
<1> DEFINE h == Released(g)
           n == Cardinality(OwnersOf(g, held))
<1>1. IsFiniteSet(OwnersOf(g, held)) /\ n \in Nat
    BY OwnersFinite
<1>2. CASE Live(g) = {}
    <2> DEFINE k == g.active - 1
    <2>1. h = [g EXCEPT !.waiters = <<>>, !.active = k]
        BY <1>2, Zenon DEF Released
    <2>2. k \in Int /\ <<>> \in Seq(Tasks)
        BY DEF Gates
    <2> HIDE DEF h, k
    <2>3. h \in Gates /\ h.active = k /\ h.waiters = <<>> /\ h.future = g.future
        BY <2>1, <2>2 DEF Gates
    <2>4. OwnersOf(h, held) = OwnersOf(g, held)
        BY <2>3 DEF OwnersOf
    <2>5. Sound(h, held)
        BY <2>3 DEF Sound, LineSound
    <2>6. k = n /\ k <= Maximum
        BY <1>1, GateAssumption DEF k
    <2>7. QED
        BY <2>3, <2>4, <2>5, <2>6 DEF Balanced, h
<1>3. CASE Live(g) # {}
    <2> DEFINE i == FirstLive(g)
               w == g.waiters[i]
               s == SubSeq(g.waiters, i + 1, Len(g.waiters))
    <2>1. i \in DOMAIN g.waiters /\ g.future[w] # "cancelled"
        <3>1. Live(g) \subseteq Nat
            BY DEF Live, Gates
        <3>2. i \in Live(g)
            BY <1>3, <3>1, LeastNumber DEF FirstLive
        <3>3. QED
            BY <3>2 DEF Live
    <2>2. g.waiters \in Seq(Tasks) /\ g.active \in Int /\ g.future \in [Tasks -> FutureState]
        BY DEF Gates
    <2>3. w \in Tasks /\ w \notin held /\ g.future[w] = "pending"
        BY <2>1, <2>2 DEF Sound, LineSound
    <2>4. h = [g EXCEPT !.waiters = s, !.future[w] = "result"]
        BY <1>3, Zenon DEF Released
    <2> HIDE DEF i, h
    <2>5. /\ s \in Seq(Tasks)
          /\ Len(s) = Len(g.waiters) - i
          /\ \A j \in 1 .. Len(s) : s[j] = g.waiters[i + j] /\ i + j \in DOMAIN g.waiters
        BY <2>1, <2>2, SMTT(30)
    <2> HIDE DEF s, w
    <2>6. /\ h \in Gates /\ h.active = g.active /\ h.waiters = s
          /\ h.future = [g.future EXCEPT ![w] = "result"]
        BY <2>2, <2>3, <2>4, <2>5 DEF Gates, FutureState
    <2>7. \A j \in DOMAIN s : s[j] # w
        <3> SUFFICES ASSUME NEW j \in DOMAIN s PROVE s[j] # w
            OBVIOUS
        <3>1. j \in 1 .. Len(s) /\ j \in Nat \ {0} /\ i \in Nat
            BY <2>1, <2>2, <2>5
        <3>2. s[j] = g.waiters[i + j] /\ i + j \in DOMAIN g.waiters /\ i + j # i
            BY <2>5, <3>1
        <3>3. QED
            BY <2>1, <3>2 DEF Sound, LineSound, w
    <2>8. LineSound(h, held)
        <3>1. ASSUME NEW j \in DOMAIN s, NEW k \in DOMAIN s, s[j] = s[k] PROVE j = k
            <4>1. j \in 1 .. Len(s) /\ k \in 1 .. Len(s) /\ i \in Nat /\ j \in Nat /\ k \in Nat
                BY <2>1, <2>2, <2>5
            <4>2. g.waiters[i + j] = g.waiters[i + k] /\ i + j \in DOMAIN g.waiters
                  /\ i + k \in DOMAIN g.waiters
                BY <2>5, <3>1, <4>1
            <4>3. i + j = i + k
                BY <4>2 DEF Sound, LineSound
            <4>4. QED
                BY <4>1, <4>3
        <3>2. \A j \in DOMAIN s : s[j] \notin held /\ g.future[s[j]] \in {"pending", "cancelled"}
                                  /\ s[j] \in Tasks
            BY <2>1, <2>2, <2>5 DEF Sound, LineSound
        <3>3. \A j \in DOMAIN s : h.future[s[j]] = g.future[s[j]]
            BY <2>2, <2>6, <2>7, <3>2
        <3>4. QED
            BY <2>6, <3>1, <3>2, <3>3 DEF LineSound
    <2>9. Sound(h, held)
        BY <2>2, <2>3, <2>6, <2>8 DEF Sound
    <2>10. OwnersOf(h, held) = OwnersOf(g, held) \cup {w} /\ w \notin OwnersOf(g, held)
        BY <2>2, <2>3, <2>6 DEF OwnersOf
    <2>11. Cardinality(OwnersOf(h, held)) = n + 1
        BY <1>1, <2>10, FS_AddElement
    <2>12. Balanced(h, held)
        BY <2>6, <2>11 DEF Balanced
    <2>13. QED
        BY <2>2, <2>3, <2>6, <2>9, <2>12 DEF h
<1>4. QED
    BY <1>2, <1>3

-----------------------------------------------------------------------------
(* Leaving the line.                                                       *)

\* Whoever leaves the line is not in it any more, and the others still are.
LEMMA WithoutSound ==
    ASSUME NEW g \in Gates, NEW held \in SUBSET Tasks, LineSound(g, held), NEW t \in Tasks
    PROVE  /\ Without(g, t) \in Gates /\ LineSound(Without(g, t), held)
           /\ Without(g, t).future = g.future /\ Without(g, t).active = g.active
           /\ \A j \in DOMAIN Without(g, t).waiters : Without(g, t).waiters[j] # t
<1> DEFINE h == Without(g, t)
<1>1. CASE t \notin InLineOf(g)
    <2>1. h = g
        BY <1>1 DEF Without
    <2>2. QED
        BY <1>1, <2>1 DEF InLineOf
<1>2. CASE t \in InLineOf(g)
    <2> DEFINE D == {i \in DOMAIN g.waiters : g.waiters[i] = t}
               i == CHOOSE i \in DOMAIN g.waiters :
                      g.waiters[i] = t /\ \A j \in DOMAIN g.waiters : g.waiters[j] = t => i <= j
               a == SubSeq(g.waiters, 1, i - 1)
               b == SubSeq(g.waiters, i + 1, Len(g.waiters))
               s == a \o b
    <2>1. g.waiters \in Seq(Tasks) /\ Len(g.waiters) \in Nat
        BY DEF Gates
    <2>2. i \in DOMAIN g.waiters /\ g.waiters[i] = t
        <3>1. D \subseteq Nat /\ D # {}
            BY <1>2, <2>1 DEF InLineOf
        <3>2. \E k \in D : \A j \in D : k <= j
            BY <3>1, LeastNumber
        <3>3. QED
            BY <3>2
    <2>3. h = [g EXCEPT !.waiters = s]
        BY <1>2, Zenon DEF Without
    <2> HIDE DEF i, h
    <2>4. i \in Nat /\ i >= 1 /\ i <= Len(g.waiters)
        BY <2>1, <2>2
    <2>5. /\ a \in Seq(Tasks) /\ Len(a) = i - 1 /\ \A k \in 1 .. i - 1 : a[k] = g.waiters[k]
          /\ b \in Seq(Tasks) /\ Len(b) = Len(g.waiters) - i
          /\ \A k \in 1 .. Len(g.waiters) - i : b[k] = g.waiters[i + k]
        BY <2>1, <2>4
    <2> HIDE DEF a, b
    <2>6. s \in Seq(Tasks) /\ Len(s) = Len(g.waiters) - 1
        <3>1. s \in Seq(Tasks) /\ Len(s) = Len(a) + Len(b)
            BY <2>5, SMTT(30)
        <3>2. QED
            BY <2>1, <2>4, <2>5, <3>1
    <2>7. ASSUME NEW k \in 1 .. Len(g.waiters) - 1
          PROVE  s[k] = IF k < i THEN g.waiters[k] ELSE g.waiters[k + 1]
        <3>1. CASE k < i
            BY <2>1, <2>4, <2>5, <3>1
        <3>2. CASE k >= i
            <4>1. s[k] = b[k - (i - 1)]
                BY <2>1, <2>4, <2>5, <3>2
            <4>2. k - (i - 1) \in 1 .. Len(g.waiters) - i /\ i + (k - (i - 1)) = k + 1
                BY <2>1, <2>4, <3>2
            <4>3. QED
                BY <2>4, <2>5, <3>2, <4>1, <4>2
        <3>3. k < i \/ k >= i
            BY <2>1, <2>4
        <3>4. QED
            BY <3>1, <3>2, <3>3
    <2> HIDE DEF s
    <2>8. h \in Gates /\ h.waiters = s /\ h.future = g.future /\ h.active = g.active
        BY <2>3, <2>6 DEF Gates
    <2> DEFINE p(k) == IF k < i THEN k ELSE k + 1
    <2>9. ASSUME NEW k \in DOMAIN s
          PROVE  p(k) \in DOMAIN g.waiters /\ p(k) # i /\ s[k] = g.waiters[p(k)]
        <3>1. k \in 1 .. Len(g.waiters) - 1
            BY <2>6
        <3>2. s[k] = g.waiters[p(k)]
            BY <2>7, <3>1
        <3>3. QED
            BY <2>1, <2>4, <3>1, <3>2
    <2>10. \A k \in DOMAIN s : s[k] # t
        BY <2>2, <2>9 DEF LineSound
    <2>11. ASSUME NEW j \in DOMAIN s, NEW k \in DOMAIN s, s[j] = s[k] PROVE j = k
        <3>1. p(j) = p(k)
            BY <2>9, <2>11 DEF LineSound
        <3>2. j \in Nat /\ k \in Nat
            BY <2>6
        <3>3. \A x, y, z \in Nat :
                 (IF x < z THEN x ELSE x + 1) = (IF y < z THEN y ELSE y + 1) => x = y
            OBVIOUS
        <3>4. QED
            BY <2>4, <3>1, <3>2, <3>3
    <2>12. \A k \in DOMAIN s : s[k] \notin held /\ g.future[s[k]] \in {"pending", "cancelled"}
        BY <2>9 DEF LineSound
    <2>13. LineSound(h, held)
        BY <2>8, <2>11, <2>12 DEF LineSound
    <2>14. QED
        BY <2>8, <2>10, <2>13 DEF h
<1>3. QED
    BY <1>1, <1>2

\* Forgetting the future of a task outside the line takes its slot, if any.
LEMMA ForgottenSound ==
    ASSUME NEW g \in Gates, NEW held \in SUBSET Tasks, Sound(g, held), NEW t \in Tasks,
           \A j \in DOMAIN g.waiters : g.waiters[j] # t
    PROVE  /\ Forgotten(g, t) \in Gates /\ Sound(Forgotten(g, t), held)
           /\ Forgotten(g, t).active = g.active
           /\ Forgotten(g, t).future = [g.future EXCEPT ![t] = "none"]
           /\ g.future[t] = "result" =>
                OwnersOf(g, held) = OwnersOf(Forgotten(g, t), held) \cup {t}
                /\ t \notin OwnersOf(Forgotten(g, t), held)
           /\ g.future[t] # "result" => OwnersOf(Forgotten(g, t), held) = OwnersOf(g, held)
<1> DEFINE h == Forgotten(g, t)
           f == [g.future EXCEPT ![t] = "none"]
<1>1. h = [g EXCEPT !.future[t] = "none"]
    BY DEF Forgotten
<1>2. g.future \in [Tasks -> FutureState] /\ g.waiters \in Seq(Tasks)
    BY DEF Gates
<1> HIDE DEF h
<1>3. f \in [Tasks -> FutureState]
    BY <1>2 DEF FutureState
<1>4. h = [g EXCEPT !.future = f]
    BY <1>1
<1> HIDE DEF f
<1>5. h \in Gates /\ h.future = f /\ h.waiters = g.waiters /\ h.active = g.active
    BY <1>3, <1>4 DEF Gates
<1>6. \A u \in Tasks : f[u] = IF u = t THEN "none" ELSE g.future[u]
    BY <1>2 DEF f
<1>7. LineSound(h, held)
    <2>1. \A j \in DOMAIN g.waiters : g.waiters[j] \in Tasks
        BY <1>2
    <2>2. QED
        BY <1>5, <1>6, <2>1 DEF LineSound, Sound
<1>8. Sound(h, held)
    BY <1>5, <1>6, <1>7 DEF Sound
<1>9. /\ g.future[t] = "result" =>
           OwnersOf(g, held) = OwnersOf(h, held) \cup {t} /\ t \notin OwnersOf(h, held)
      /\ g.future[t] # "result" => OwnersOf(h, held) = OwnersOf(g, held)
    BY <1>5, <1>6 DEF OwnersOf, Sound
<1>10. QED
    BY <1>5, <1>8, <1>9 DEF h, f

-----------------------------------------------------------------------------
(* Every step keeps the invariant.                                         *)

\* The first state is sound.
LEMMA GateInitSound == Init => GateInvariant
<1> SUFFICES ASSUME Init PROVE GateInvariant
    OBVIOUS
<1>1. gate \in Gates /\ gate.active = 0 /\ gate.waiters = <<>> /\ holding = {}
      /\ gate.future = [t \in Tasks |-> "none"]
    BY DEF Init, NewGate, Gates, FutureState
<1>2. Sound(gate, holding)
    BY <1>1 DEF Sound, LineSound
<1>3. OwnersOf(gate, holding) = {}
    BY <1>1 DEF OwnersOf
<1>4. Balanced(gate, holding)
    <2>1. Cardinality(OwnersOf(gate, holding)) = 0
        BY <1>3, FS_EmptySet
    <2>2. QED
        BY <1>1, <2>1, GateAssumption DEF Balanced
<1>5. QED
    BY <1>2, <1>4 DEF Init, GateInvariant

\* Every step of a task keeps the gate sound.
LEMMA NextSound == GateInvariant /\ [Next]_vars => GateInvariant'
<1> SUFFICES ASSUME GateInvariant, [Next]_vars PROVE GateInvariant'
    OBVIOUS
<1> DEFINE n == Cardinality(OwnersOf(gate, holding))
<1>1. /\ gate \in Gates /\ holding \in SUBSET Tasks /\ interrupted \subseteq Tasks
      /\ Sound(gate, holding) /\ LineSound(gate, holding) /\ Balanced(gate, holding)
      /\ \A t \in interrupted : gate.future[t] \in {"cancelled", "result"}
      /\ \A t \in holding : gate.future[t] = "none"
    BY DEF GateInvariant, Sound
<1>2. /\ gate.active \in Int /\ gate.waiters \in Seq(Tasks) /\ gate.future \in [Tasks -> FutureState]
    BY <1>1 DEF Gates
<1>3. IsFiniteSet(OwnersOf(gate, holding)) /\ n \in Nat /\ gate.active = n /\ n <= Maximum
    BY <1>1, OwnersFinite DEF Balanced
<1>4. ASSUME NEW t \in Tasks, AcquireNow(t) PROVE GateInvariant'
    <2> DEFINE k == gate.active + 1
    <2>1. /\ t \notin holding /\ gate.future[t] = "none" /\ gate.active < Maximum
          /\ gate' = [gate EXCEPT !.active = k] /\ holding' = holding \cup {t}
          /\ interrupted' = interrupted
        BY <1>4, Zenon DEF AcquireNow, Outside, Vacant, Taken
    <2>2. k \in Int /\ k <= Maximum
        BY <1>2, <2>1, GateAssumption
    <2> HIDE DEF k
    <2>3. gate' \in Gates /\ gate'.active = k /\ gate'.waiters = gate.waiters
          /\ gate'.future = gate.future
        BY <1>1, <2>1, <2>2 DEF Gates
    <2>4. Sound(gate', holding')
        <3>1. \A i \in DOMAIN gate.waiters : gate.waiters[i] # t
            BY <1>1, <2>1 DEF LineSound
        <3>2. QED
            BY <1>1, <2>1, <2>3, <3>1 DEF Sound, LineSound
    <2>5. OwnersOf(gate', holding') = OwnersOf(gate, holding) \cup {t} /\ t \notin OwnersOf(gate, holding)
        BY <2>1, <2>3 DEF OwnersOf
    <2>6. Cardinality(OwnersOf(gate', holding')) = n + 1
        BY <1>3, <2>5, FS_AddElement
    <2>7. Balanced(gate', holding')
        BY <1>3, <2>2, <2>3, <2>6 DEF Balanced, k
    <2>8. QED
        BY <1>1, <2>1, <2>3, <2>4, <2>7 DEF GateInvariant
<1>5. ASSUME NEW t \in Tasks, Wait(t) PROVE GateInvariant'
    <2> DEFINE s == Append(gate.waiters, t)
               f == [gate.future EXCEPT ![t] = "pending"]
    <2>1. /\ t \notin holding /\ gate.future[t] = "none"
          /\ gate' = [gate EXCEPT !.waiters = s, !.future[t] = "pending"]
          /\ holding' = holding /\ interrupted' = interrupted
        BY <1>5, Zenon DEF Wait, Outside, Joined
    <2>2. /\ s \in Seq(Tasks) /\ Len(s) = Len(gate.waiters) + 1 /\ s[Len(gate.waiters) + 1] = t
          /\ \A i \in 1 .. Len(gate.waiters) : s[i] = gate.waiters[i]
          /\ f \in [Tasks -> FutureState]
          /\ \A u \in Tasks : f[u] = IF u = t THEN "pending" ELSE gate.future[u]
        BY <1>2 DEF FutureState
    <2> HIDE DEF s
    <2>3. gate' = [gate EXCEPT !.waiters = s, !.future = f]
        BY <2>1
    <2> HIDE DEF f
    <2>4. gate' \in Gates /\ gate'.active = gate.active /\ gate'.waiters = s /\ gate'.future = f
        BY <1>1, <2>2, <2>3 DEF Gates
    <2>5. \A i \in 1 .. Len(gate.waiters) : gate.waiters[i] # t /\ gate.waiters[i] \in Tasks
        BY <1>1, <1>2, <2>1 DEF LineSound
    <2>6. LineSound(gate', holding)
        <3>1. \A i \in DOMAIN s : s[i] \notin holding /\ f[s[i]] \in {"pending", "cancelled"}
            <4> SUFFICES ASSUME NEW i \in DOMAIN s
                         PROVE  s[i] \notin holding /\ f[s[i]] \in {"pending", "cancelled"}
                OBVIOUS
            <4>1. CASE i = Len(gate.waiters) + 1
                BY <2>1, <2>2, <4>1
            <4>2. CASE i # Len(gate.waiters) + 1
                <5>1. i \in 1 .. Len(gate.waiters)
                    BY <1>2, <2>2, <4>2
                <5>2. QED
                    BY <1>1, <1>2, <2>2, <2>5, <5>1 DEF LineSound
            <4>3. QED
                BY <4>1, <4>2
        <3>2. ASSUME NEW i \in DOMAIN s, NEW j \in DOMAIN s, s[i] = s[j] PROVE i = j
            <4>1. i \in 1 .. Len(gate.waiters) + 1 /\ j \in 1 .. Len(gate.waiters) + 1
                  /\ Len(gate.waiters) \in Nat
                BY <1>2, <2>2
            <4>2. i \in 1 .. Len(gate.waiters) /\ j \in 1 .. Len(gate.waiters) => i = j
                BY <1>1, <1>2, <2>2, <3>2 DEF LineSound
            <4>3. QED
                BY <2>2, <2>5, <3>2, <4>1, <4>2
        <3>3. QED
            BY <2>4, <3>1, <3>2 DEF LineSound
    <2>7. Sound(gate', holding)
        BY <1>1, <2>1, <2>2, <2>4, <2>6 DEF Sound
    <2>8. OwnersOf(gate', holding) = OwnersOf(gate, holding)
        BY <2>1, <2>2, <2>4 DEF OwnersOf
    <2>9. Balanced(gate', holding)
        BY <1>1, <2>4, <2>8 DEF Balanced
    <2>10. \A u \in interrupted : gate'.future[u] \in {"cancelled", "result"}
        <3>1. t \notin interrupted
            BY <1>1, <2>1
        <3>2. QED
            BY <1>1, <2>2, <2>4, <3>1
    <2>11. QED
        BY <1>1, <2>1, <2>7, <2>9, <2>10 DEF GateInvariant
<1>6. ASSUME NEW t \in Tasks, Interrupt(t) PROVE GateInvariant'
    <2>1. /\ gate.future[t] \in {"pending", "result"} /\ gate' = Interrupted(gate, t)
          /\ interrupted' = interrupted \cup {t} /\ holding' = holding
        BY <1>6 DEF Interrupt
    <2>2. CASE gate.future[t] = "result"
        <3>1. gate' = gate
            BY <2>1, <2>2 DEF Interrupted
        <3>2. QED
            BY <1>1, <2>1, <2>2, <3>1 DEF GateInvariant
    <2>3. CASE gate.future[t] = "pending"
        <3> DEFINE f == [gate.future EXCEPT ![t] = "cancelled"]
        <3>1. gate' = [gate EXCEPT !.future = f]
            BY <2>1, <2>3 DEF Interrupted
        <3>2. f \in [Tasks -> FutureState]
              /\ \A u \in Tasks : f[u] = IF u = t THEN "cancelled" ELSE gate.future[u]
            BY <1>2 DEF FutureState
        <3> HIDE DEF f
        <3>3. gate' \in Gates /\ gate'.active = gate.active /\ gate'.waiters = gate.waiters
              /\ gate'.future = f
            BY <1>1, <3>1, <3>2 DEF Gates
        <3>4. \A i \in DOMAIN gate.waiters : gate.waiters[i] \in Tasks
            BY <1>2
        <3>5. Sound(gate', holding)
            BY <1>1, <2>3, <3>2, <3>3, <3>4 DEF Sound, LineSound
        <3>6. OwnersOf(gate', holding) = OwnersOf(gate, holding)
            BY <2>3, <3>2, <3>3 DEF OwnersOf
        <3>7. Balanced(gate', holding)
            BY <1>1, <3>3, <3>6 DEF Balanced
        <3>8. QED
            BY <1>1, <2>1, <3>2, <3>3, <3>5, <3>7 DEF GateInvariant
    <2>4. QED
        BY <2>1, <2>2, <2>3
<1>7. ASSUME NEW t \in Tasks, Resume(t) PROVE GateInvariant'
    <2>1. /\ gate.future[t] = "result" /\ gate' = Forgotten(gate, t)
          /\ holding' = holding \cup {t} /\ interrupted' = interrupted /\ t \notin interrupted
        BY <1>7 DEF Resume
    <2>2. \A j \in DOMAIN gate.waiters : gate.waiters[j] # t
        BY <1>1, <2>1 DEF LineSound
    <2>3. /\ gate' \in Gates /\ Sound(gate', holding) /\ gate'.active = gate.active
          /\ gate'.future = [gate.future EXCEPT ![t] = "none"]
          /\ OwnersOf(gate, holding) = OwnersOf(gate', holding) \cup {t}
        BY <1>1, <2>1, <2>2, ForgottenSound
    <2>4. gate'.waiters = gate.waiters
        BY <1>1, <2>1 DEF Forgotten, Gates
    <2>5. Sound(gate', holding')
        BY <1>1, <1>2, <2>1, <2>2, <2>3, <2>4 DEF Sound, LineSound
    <2>6. OwnersOf(gate', holding') = OwnersOf(gate, holding)
        BY <2>1, <2>3 DEF OwnersOf
    <2>7. Balanced(gate', holding')
        BY <1>1, <2>3, <2>6 DEF Balanced
    <2>8. \A u \in interrupted : gate'.future[u] \in {"cancelled", "result"}
        BY <1>1, <1>2, <2>1, <2>3
    <2>9. QED
        BY <1>1, <2>1, <2>5, <2>7, <2>8 DEF GateInvariant
<1>8. ASSUME NEW t \in Tasks, Withdraw(t) PROVE GateInvariant'
    <2> DEFINE g == Forgotten(Without(gate, t), t)
    <2>1. /\ gate.future[t] \in {"cancelled", "result"} /\ gate' = LeftLine(gate, t)
          /\ interrupted' = interrupted \ {t} /\ holding' = holding
        BY <1>1, <1>8 DEF Withdraw
    <2>2. /\ Without(gate, t) \in Gates /\ LineSound(Without(gate, t), holding)
          /\ Without(gate, t).future = gate.future /\ Without(gate, t).active = gate.active
          /\ \A j \in DOMAIN Without(gate, t).waiters : Without(gate, t).waiters[j] # t
        BY <1>1, WithoutSound
    <2>3. Sound(Without(gate, t), holding)
        BY <1>1, <2>2 DEF Sound
    <2>4. OwnersOf(Without(gate, t), holding) = OwnersOf(gate, holding)
        BY <2>2 DEF OwnersOf
    <2>5. /\ g \in Gates /\ Sound(g, holding) /\ g.active = gate.active
          /\ g.future = [gate.future EXCEPT ![t] = "none"]
          /\ gate.future[t] = "result" =>
               OwnersOf(gate, holding) = OwnersOf(g, holding) \cup {t} /\ t \notin OwnersOf(g, holding)
          /\ gate.future[t] # "result" => OwnersOf(g, holding) = OwnersOf(gate, holding)
        BY <1>1, <2>2, <2>3, <2>4, ForgottenSound
    <2>6. \A u \in interrupted' : g.future[u] = gate.future[u] /\ u \in interrupted
        BY <1>1, <1>2, <2>1, <2>5
    <2>7. CASE gate.future[t] = "result"
        <3>1. t \notin InLineOf(gate)
            BY <1>1, <2>7 DEF LineSound, InLineOf
        <3>2. Without(gate, t) = gate
            BY <3>1 DEF Without
        <3>3. gate' = Released(g)
            BY <2>1, <2>7, <3>1, <3>2 DEF LeftLine
        <3>4. gate.active = Cardinality(OwnersOf(g, holding)) + 1
            <4>1. IsFiniteSet(OwnersOf(g, holding))
                BY <1>1, <2>5, OwnersFinite
            <4>2. QED
                BY <1>3, <2>5, <2>7, <4>1, FS_AddElement
        <3>5. g.active <= Maximum
            BY <1>3, <2>5
        <3>6. /\ Sound(gate', holding) /\ Balanced(gate', holding)
              /\ \A u \in Tasks : \/ gate'.future[u] = g.future[u]
                                  \/ g.future[u] = "pending" /\ gate'.future[u] = "result"
            <4> HIDE DEF g
            <4>1. g \in Gates /\ Sound(g, holding) /\ g.active = Cardinality(OwnersOf(g, holding)) + 1
                BY <2>5, <3>4
            <4>2. /\ Sound(Released(g), holding) /\ Balanced(Released(g), holding)
                  /\ \A u \in Tasks : \/ Released(g).future[u] = g.future[u]
                                      \/ g.future[u] = "pending" /\ Released(g).future[u] = "result"
                BY <1>1, <3>5, <4>1, ReleasedSound
            <4>3. QED
                BY <3>3, <4>2, Zenon
        <3>7. QED
            BY <1>1, <2>1, <2>6, <3>6 DEF GateInvariant
    <2>8. CASE gate.future[t] # "result"
        <3>1. gate' = g
            BY <2>1, <2>8 DEF LeftLine
        <3>2. Balanced(gate', holding)
            BY <1>1, <2>5, <2>8, <3>1 DEF Balanced
        <3>3. QED
            BY <1>1, <2>1, <2>5, <2>6, <3>1, <3>2 DEF GateInvariant
    <2>9. QED
        BY <2>7, <2>8
<1>9. ASSUME NEW t \in Tasks, Release(t) PROVE GateInvariant'
    <2> DEFINE held == holding \ {t}
    <2>1. /\ t \in holding /\ gate' = Released(gate) /\ holding' = held
          /\ interrupted' = interrupted
        BY <1>9 DEF Release
    <2>2. OwnersOf(gate, held) = OwnersOf(gate, holding) \ {t} /\ t \in OwnersOf(gate, holding)
        BY <1>1, <2>1 DEF OwnersOf
    <2>3. Cardinality(OwnersOf(gate, held)) = n - 1
        BY <1>3, <2>2, FS_RemoveElement
    <2>4. gate.active = Cardinality(OwnersOf(gate, held)) + 1
        BY <1>3, <2>3
    <2>5. held \in SUBSET Tasks /\ Sound(gate, held)
        BY <1>1 DEF Sound, LineSound
    <2>6. gate.active <= Maximum
        BY <1>3
    <2>7. /\ Sound(gate', held) /\ Balanced(gate', held)
          /\ \A u \in Tasks : \/ gate'.future[u] = gate.future[u]
                              \/ gate.future[u] = "pending" /\ gate'.future[u] = "result"
        BY <1>1, <2>1, <2>4, <2>5, <2>6, ReleasedSound
    <2>8. QED
        BY <1>1, <2>1, <2>7 DEF GateInvariant
<1>10. CASE UNCHANGED vars
    BY <1>1, <1>10 DEF vars, GateInvariant
<1>11. QED
    BY <1>4, <1>5, <1>6, <1>7, <1>8, <1>9, <1>10 DEF Next

-----------------------------------------------------------------------------
(* The theorem.                                                            *)

\* For any number of tasks and slots, _active counts exactly the tasks that own
\* a slot, leases and hand-overs not yet seen, and never exceeds the maximum.
THEOREM SlotsAlwaysConserved == Spec => []SlotsConserved
<1>1. GateInvariant => SlotsConserved
    <2> SUFFICES ASSUME GateInvariant PROVE SlotsConserved
        OBVIOUS
    <2>1. Owners = OwnersOf(gate, holding)
        BY DEF Owners, OwnersOf
    <2>2. QED
        BY <2>1 DEF GateInvariant, Balanced, SlotsConserved
<1>2. QED
    BY <1>1, GateInitSound, NextSound, PTL DEF Spec

-----------------------------------------------------------------------------
(* The line: what each method does to the live part of the deque, which is *)
(* the line of the abstract specification.                                 *)

LineOf(g) == Subsequence(g.waiters, Live(g))

\* The deque of a gate and the live places in it are finite.
LEMMA LiveFacts ==
  ASSUME NEW g \in Gates
  PROVE  /\ g.waiters \in Seq(Tasks) /\ Len(g.waiters) \in Nat
         /\ DOMAIN g.waiters = 1 .. Len(g.waiters)
         /\ Live(g) \in SUBSET DOMAIN g.waiters /\ Live(g) \in SUBSET Nat
         /\ IsFiniteSet(Live(g)) /\ Cardinality(Live(g)) \in Nat
         /\ Cardinality(Live(g)) <= Len(g.waiters)
<1>1. /\ g.waiters \in Seq(Tasks) /\ Len(g.waiters) \in Nat
      /\ DOMAIN g.waiters = 1 .. Len(g.waiters)
  BY DEF Gates
<1>2. Live(g) \in SUBSET (1 .. Len(g.waiters))
  BY <1>1 DEF Live
<1>3. IsFiniteSet(1 .. Len(g.waiters)) /\ Cardinality(1 .. Len(g.waiters)) = Len(g.waiters)
  BY <1>1, FirstNumbers
<1>4. /\ IsFiniteSet(Live(g)) /\ Cardinality(Live(g)) <= Len(g.waiters)
      /\ Cardinality(Live(g)) \in Nat
  BY <1>2, <1>3, FS_Subset, FS_CardinalityType
<1>5. QED BY <1>1, <1>2, <1>4

\* The line is empty if nobody in it is live, and has the live waiters once each.
LEMMA LineFacts ==
  ASSUME NEW g \in Gates, NEW held, LineSound(g, held)
  PROVE  /\ LineOf(g) \in Seq(Tasks) /\ Len(LineOf(g)) = Cardinality(Live(g))
         /\ Live(g) = {} <=> LineOf(g) = <<>>
         /\ \A k \in DOMAIN LineOf(g) : LineOf(g)[k] \notin held /\ g.future[LineOf(g)[k]] = "pending"
<1> DEFINE t == LineOf(g)
<1>1. /\ t \in Seq(Tasks) /\ Len(t) = Cardinality(Live(g))
      /\ \A k \in DOMAIN t : \E i \in Live(g) : t[k] = g.waiters[i]
  BY LiveFacts, SubsequenceElements DEF LineOf
<1>2. Live(g) = {} <=> Cardinality(Live(g)) = 0
  BY LiveFacts, FS_EmptySet
<1>3. \A i \in Live(g) : g.waiters[i] \notin held /\ g.future[g.waiters[i]] = "pending"
  BY LiveFacts DEF LineSound, Live
<1> HIDE DEF t
<1>4. t = <<>> <=> Len(t) = 0
  BY <1>1
<1>5. QED BY <1>1, <1>2, <1>3, <1>4 DEF t

\* The slot goes to the head of the line.
LEMMA ReleasedLine ==
  ASSUME NEW g \in Gates, NEW held, LineSound(g, held)
  PROVE  /\ LineOf(g) = <<>> => LineOf(Released(g)) = <<>> /\ Released(g).future = g.future
         /\ LineOf(g) # <<>> =>
              /\ LineOf(Released(g)) = Tail(LineOf(g))
              /\ Head(LineOf(g)) \in Tasks /\ g.future[Head(LineOf(g))] = "pending"
              /\ Released(g).future = [g.future EXCEPT ![Head(LineOf(g))] = "result"]
<1> DEFINE h == Released(g)
<1>1. CASE Live(g) = {}
  <2>1. h = [g EXCEPT !.waiters = <<>>, !.active = @ - 1]
    BY <1>1 DEF Released
  <2>2. h.waiters = <<>> /\ h.future = g.future
    BY <2>1 DEF Gates
  <2>3. Live(h) = {}
    BY <2>2 DEF Live
  <2>4. Cardinality(Live(h)) = 0
    BY <2>3, FS_EmptySet
  <2>5. LineOf(h) = <<>>
    BY <2>2, <2>3, <2>4 DEF LineOf, Subsequence
  <2>6. LineOf(g) = <<>>
    BY <1>1, LineFacts
  <2>7. QED BY <2>2, <2>5, <2>6
<1>2. CASE Live(g) # {}
  <2> DEFINE f == FirstLive(g)
             n == Len(g.waiters)
             rest == SubSeq(g.waiters, f + 1, n)
             t == LineOf(g)
  <2>1. f \in Live(g) /\ \A j \in Live(g) : f <= j
    BY <1>2, LiveFacts, LeastNumber DEF FirstLive
  <2>2. h = [g EXCEPT !.waiters = rest, !.future[g.waiters[f]] = "result"]
    BY <1>2 DEF Released
  <2> HIDE DEF f, h
  <2>3. n \in Nat /\ f \in 1 .. n /\ g.waiters \in Seq(Tasks) /\ g.waiters[f] \in Tasks
    BY <2>1, LiveFacts
  <2>4. /\ rest \in Seq(Tasks) /\ Len(rest) = n - f /\ DOMAIN rest = 1 .. n - f
        /\ \A k \in 1 .. n - f : rest[k] = g.waiters[k + f]
    BY <2>3
  <2>5. h.waiters = rest /\ h.future = [g.future EXCEPT ![g.waiters[f]] = "result"]
    BY <2>2 DEF Gates
  <2> HIDE DEF rest
  <2>6. \A i, j \in 1 .. n : g.waiters[i] = g.waiters[j] => i = j
    BY <2>3 DEF LineSound
  <2> DEFINE move == [i \in Live(g) \ {f} |-> i - f]
  <2>7. \A i \in Live(g) \ {f} : i \in 1 .. n /\ i > f /\ i \in Int
    <3>1. ASSUME NEW i \in Live(g) \ {f} PROVE i \in 1 .. n /\ i > f /\ i \in Int
      <4>1. i \in 1 .. n /\ f <= i /\ i # f
        BY <2>1, LiveFacts
      <4>2. QED BY <2>3, <4>1
    <3>2. QED BY <3>1
  <2>8. \A k \in 1 .. n - f : k \in Live(h) <=> k + f \in Live(g) \ {f}
    <3> SUFFICES ASSUME NEW k \in 1 .. n - f PROVE k \in Live(h) <=> k + f \in Live(g) \ {f}
      OBVIOUS
    <3>1. k + f \in 1 .. n /\ k + f # f
      BY <2>3
    <3>2. h.waiters[k] = g.waiters[k + f] /\ g.waiters[k + f] # g.waiters[f]
      BY <2>3, <2>4, <2>5, <2>6, <3>1
    <3>3. g.waiters[k + f] \in Tasks
      BY <2>3, <3>1
    <3>4. h.future[h.waiters[k]] = g.future[g.waiters[k + f]]
      BY <2>5, <3>2, <3>3 DEF Gates
    <3>5. k \in DOMAIN h.waiters /\ k + f \in DOMAIN g.waiters
      BY <2>3, <2>4, <2>5, <3>1
    <3>6. QED BY <3>1, <3>4, <3>5 DEF Live
  <2>9. Live(h) \in SUBSET (1 .. n - f)
    BY <2>4, <2>5 DEF Live
  <2>10. move \in [Live(g) \ {f} -> Live(h)]
    <3>1. ASSUME NEW i \in Live(g) \ {f} PROVE i - f \in Live(h)
      <4>1. i - f \in 1 .. n - f /\ (i - f) + f = i
        BY <2>3, <2>7
      <4>2. QED BY <2>8, <4>1
    <3>2. QED BY <3>1
  <2>11. \A i, j \in Live(g) \ {f} : i < j => move[i] < move[j]
    BY <2>3, <2>7
  <2>12. \A j \in Live(h) : \E i \in Live(g) \ {f} : move[i] = j
    <3>1. ASSUME NEW j \in Live(h) PROVE \E i \in Live(g) \ {f} : move[i] = j
      <4>1. j \in 1 .. n - f
        BY <2>9
      <4>2. j + f \in Live(g) \ {f} /\ (j + f) - f = j
        BY <2>3, <2>8, <4>1
      <4>3. QED BY <4>2
    <3>2. QED BY <3>1
  <2>13. \A i \in Live(g) \ {f} : h.waiters[move[i]] = g.waiters[i]
    <3>1. ASSUME NEW i \in Live(g) \ {f} PROVE h.waiters[i - f] = g.waiters[i]
      <4>1. i - f \in 1 .. n - f /\ (i - f) + f = i
        BY <2>3, <2>7
      <4>2. QED BY <2>4, <2>5, <4>1
    <3>2. QED BY <3>1
  <2>14. /\ Live(g) \ {f} \in SUBSET Int /\ IsFiniteSet(Live(g) \ {f})
         /\ Live(h) \in SUBSET Int /\ IsFiniteSet(Live(h))
    <3>1. IsFiniteSet(1 .. n - f)
      BY <2>3, FirstNumbers
    <3>2. IsFiniteSet(Live(h))
      BY <2>9, <3>1, FS_Subset
    <3>3. IsFiniteSet(Live(g)) /\ Live(g) \ {f} \in SUBSET Live(g)
      BY LiveFacts
    <3>4. IsFiniteSet(Live(g) \ {f})
      BY <3>3, FS_Subset
    <3>5. Live(g) \ {f} \in SUBSET Int
      BY <2>7
    <3>6. Live(h) \in SUBSET Int
      BY <2>3, <2>9
    <3>7. QED BY <3>2, <3>4, <3>5, <3>6
  <2>15. LineOf(h) = Subsequence(g.waiters, Live(g) \ {f})
    <3> HIDE DEF move
    <3>1. QED BY <2>10, <2>11, <2>12, <2>13, <2>14, SubsequenceMoved DEF LineOf
  <2>16. t \in Seq(Tasks) /\ \E m \in DOMAIN t :
            /\ t[m] = g.waiters[f] /\ m = 1
            /\ Subsequence(g.waiters, Live(g) \ {f}) = SubSeq(t, 1, m - 1) \o SubSeq(t, m + 1, Len(t))
    <3>1. Live(g) \in SUBSET DOMAIN g.waiters /\ f \in Live(g)
      BY <2>1, LiveFacts
    <3>2. t = Subsequence(g.waiters, Live(g))
      BY DEF LineOf
    <3> DEFINE w == g.waiters
               L == Live(g)
               u == Subsequence(w, L)
    <3>3. w \in Seq(Tasks) /\ L \in SUBSET DOMAIN w /\ f \in L
      BY <2>3, <3>1
    <3> HIDE DEF w, L
    <3>4. /\ Subsequence(w, L) \in Seq(Tasks)
          /\ \E m \in DOMAIN Subsequence(w, L) :
               /\ Subsequence(w, L)[m] = w[f]
               /\ (\A j \in L : f <= j) => m = 1
               /\ Subsequence(w, L \ {f}) = SubSeq(Subsequence(w, L), 1, m - 1)
                                         \o SubSeq(Subsequence(w, L), m + 1, Len(Subsequence(w, L)))
      BY <3>3, SubsequenceWithout, ZenonT(60)
    <3>5. t = Subsequence(w, L) /\ \A j \in L : f <= j
      BY <2>1, <3>2 DEF w, L
    <3> HIDE DEF t
    <3>6. t \in Seq(Tasks) /\ \E m \in DOMAIN t :
               /\ t[m] = w[f] /\ m = 1
               /\ Subsequence(w, L \ {f}) = SubSeq(t, 1, m - 1) \o SubSeq(t, m + 1, Len(t))
      BY <3>4, <3>5
    <3>7. QED BY <3>6 DEF w, L
  <2> HIDE DEF t
  <2>17. 1 \in DOMAIN t /\ t[1] = g.waiters[f]
         /\ Subsequence(g.waiters, Live(g) \ {f}) = SubSeq(t, 1, 0) \o SubSeq(t, 2, Len(t))
    <3>1. PICK m \in DOMAIN t :
            /\ t[m] = g.waiters[f] /\ m = 1
            /\ Subsequence(g.waiters, Live(g) \ {f}) = SubSeq(t, 1, m - 1) \o SubSeq(t, m + 1, Len(t))
      BY <2>16
    <3>2. m = 1 /\ m - 1 = 0 /\ m + 1 = 2
      BY <3>1
    <3>3. QED BY <3>1, <3>2
  <2>18. t # <<>> /\ Head(t) = t[1] /\ SubSeq(t, 1, 0) \o SubSeq(t, 2, Len(t)) = Tail(t)
    <3>1. t # <<>> /\ Tail(t) \in Seq(Tasks) /\ Tail(t) = SubSeq(t, 2, Len(t)) /\ SubSeq(t, 1, 0) = <<>>
      BY <2>16, <2>17
    <3>2. QED BY <3>1, ConcatEmptySeq
  <2>19. g.future[g.waiters[f]] = "pending"
    BY <2>1, LiveFacts DEF LineSound, Live
  <2>20. QED BY <2>3, <2>5, <2>15, <2>17, <2>18, <2>19 DEF h, t
<1>3. QED BY <1>1, <1>2

\* Whoever is not live in the line may leave it: the live part stays as it is.
LEMMA WithoutLine ==
  ASSUME NEW g \in Gates, NEW held, LineSound(g, held), NEW t \in Tasks, g.future[t] # "pending"
  PROVE  LineOf(Without(g, t)) = LineOf(g)
<1> DEFINE h == Without(g, t)
           w == g.waiters
           n == Len(w)
<1>1. CASE t \notin InLineOf(g)
  BY <1>1 DEF Without
<1>2. CASE t \in InLineOf(g)
  <2> DEFINE D == {j \in DOMAIN w : w[j] = t}
             i == CHOOSE i \in DOMAIN g.waiters :
                    g.waiters[i] = t /\ \A j \in DOMAIN g.waiters : g.waiters[j] = t => i <= j
             s == SubSeq(w, 1, i - 1) \o SubSeq(w, i + 1, n)
  <2>1. w \in Seq(Tasks) /\ n \in Nat /\ DOMAIN w = 1 .. n
    BY LiveFacts
  <2>2. i \in DOMAIN w /\ w[i] = t
    <3>1. D \in SUBSET Nat /\ D # {}
      BY <1>2, <2>1 DEF InLineOf
    <3>2. \E k \in D : \A j \in D : k <= j
      BY <3>1, LeastNumber
    <3>3. QED BY <3>2
  <2>3. h = [g EXCEPT !.waiters = s]
    BY <1>2, Zenon DEF Without
  <2>4. h.waiters = s /\ h.future = g.future
    BY <2>3 DEF Gates
  <2> HIDE DEF i, h
  <2>5. s = [k \in 1 .. n - 1 |-> IF k < i THEN w[k] ELSE w[k + 1]]
    BY <2>1, <2>2, CutFacts
  <2> HIDE DEF s
  <2>6. \A j \in 1 .. n : w[j] = t => j = i
    BY <2>1, <2>2 DEF LineSound
  <2>7. i \in 1 .. n /\ i \in Int /\ g.future[w[i]] = "cancelled"
    <3>1. g.future[w[i]] \in {"pending", "cancelled"}
      BY <2>2 DEF LineSound
    <3>2. QED BY <2>1, <2>2, <3>1
  <2> DEFINE Move(j) == IF j < i THEN j ELSE j - 1
             move == [j \in Live(g) |-> Move(j)]
  <2>8. \A j \in Live(g) : j \in 1 .. n /\ j \in Int /\ j # i
    BY <2>1, <2>7 DEF Live
  <2>9. DOMAIN s = 1 .. n - 1 /\ \A k \in 1 .. n - 1 : k \in Int
    BY <2>1, <2>5
  <2>10. ASSUME NEW j \in Live(g)
         PROVE  /\ Move(j) \in 1 .. n - 1 /\ s[Move(j)] = w[j] /\ Move(j) \in Live(h)
    <3>1. CASE j < i
      <4>1. j \in 1 .. n - 1
        BY <2>1, <2>7, <2>8, <3>1
      <4>2. s[j] = w[j]
        BY <2>5, <3>1, <4>1
      <4>3. QED BY <2>4, <2>9, <3>1, <4>1, <4>2 DEF Live
    <3>2. CASE ~(j < i)
      <4>1. j - 1 \in 1 .. n - 1 /\ ~(j - 1 < i) /\ (j - 1) + 1 = j
        BY <2>1, <2>7, <2>8, <3>2
      <4>2. s[j - 1] = w[j]
        BY <2>5, <4>1
      <4>3. QED BY <2>4, <2>9, <3>2, <4>1, <4>2 DEF Live
    <3>3. QED BY <3>1, <3>2
  <2>11. move \in [Live(g) -> Live(h)]
    BY <2>10
  <2>12. \A j, k \in Live(g) : j < k => move[j] < move[k]
    <3>1. ASSUME NEW j \in Live(g), NEW k \in Live(g), j < k PROVE Move(j) < Move(k)
      <4>1. j \in Int /\ k \in Int /\ j # i /\ k # i /\ i \in Int
        BY <2>7, <2>8
      <4>2. QED BY <3>1, <4>1
    <3> HIDE DEF Move
    <3>2. QED BY <3>1
  <2>13. \A k \in Live(h) : \E j \in Live(g) : move[j] = k
    <3>1. ASSUME NEW k \in Live(h) PROVE \E j \in Live(g) : Move(j) = k
      <4>1. k \in 1 .. n - 1 /\ k \in Int /\ g.future[s[k]] # "cancelled"
        BY <2>4, <2>9, <3>1 DEF Live
      <4>2. CASE k < i
        <5>1. s[k] = w[k] /\ k \in 1 .. n
          BY <2>1, <2>5, <4>1, <4>2
        <5>2. k \in Live(g)
          BY <2>1, <4>1, <5>1 DEF Live
        <5>3. QED BY <4>2, <5>2
      <4>3. CASE ~(k < i)
        <5>1. s[k] = w[k + 1] /\ k + 1 \in 1 .. n /\ ~(k + 1 < i) /\ (k + 1) - 1 = k
          BY <2>1, <2>5, <2>7, <4>1, <4>3
        <5>2. k + 1 \in Live(g)
          BY <2>1, <4>1, <5>1 DEF Live
        <5>3. QED BY <5>1, <5>2
      <4>4. QED BY <4>2, <4>3
    <3> HIDE DEF Move
    <3>2. QED BY <3>1
  <2>14. \A j \in Live(g) : s[move[j]] = w[j]
    <3> HIDE DEF Move
    <3>1. QED BY <2>10
  <2>15. Live(g) \in SUBSET Int /\ IsFiniteSet(Live(g)) /\ Live(h) \in SUBSET Int /\ IsFiniteSet(Live(h))
    <3>1. Live(h) \in SUBSET (1 .. n - 1)
      BY <2>4, <2>9 DEF Live
    <3> DEFINE k == n - 1
    <3>5. k \in Int
      BY <2>1
    <3> HIDE DEF k
    <3>6. IsFiniteSet(1 .. k)
      <4>1. 1 \in Int
        OBVIOUS
      <4>2. QED BY <3>5, <4>1, FS_Interval
    <3>2. IsFiniteSet(1 .. n - 1)
      BY <3>6 DEF k
    <3>3. IsFiniteSet(Live(h))
      BY <3>1, <3>2, FS_Subset
    <3>4. Live(h) \in SUBSET Int
      BY <3>1
    <3>7. QED BY <2>8, <3>3, <3>4, LiveFacts
  <2> HIDE DEF move, w
  <2>16. Subsequence(s, Live(h)) = Subsequence(w, Live(g))
    BY <2>11, <2>12, <2>13, <2>14, <2>15, SubsequenceMoved
  <2>17. QED BY <2>4, <2>16 DEF LineOf, w, h
<1>3. QED BY <1>1, <1>2

\* Forgetting the future of a task outside the line leaves the line alone.
LEMMA ForgottenLine ==
  ASSUME NEW g \in Gates, NEW t \in Tasks, \A j \in DOMAIN g.waiters : g.waiters[j] # t
  PROVE  LineOf(Forgotten(g, t)) = LineOf(g)
<1> DEFINE h == Forgotten(g, t)
<1>1. h = [g EXCEPT !.future[t] = "none"]
  BY DEF Forgotten
<1>2. h.waiters = g.waiters /\ h.future = [g.future EXCEPT ![t] = "none"]
  BY <1>1 DEF Gates
<1>3. \A j \in DOMAIN g.waiters : h.future[g.waiters[j]] = g.future[g.waiters[j]]
  <2>1. \A j \in DOMAIN g.waiters : g.waiters[j] \in Tasks
    BY LiveFacts
  <2>2. QED BY <1>2, <2>1 DEF Gates
<1> HIDE DEF h
<1>4. Live(h) = Live(g)
  BY <1>2, <1>3 DEF Live
<1>5. QED BY <1>2, <1>4 DEF LineOf, h

\* A new waiter is the last of the line.
LEMMA JoinedLine ==
  ASSUME NEW g \in Gates, NEW t \in Tasks, \A j \in DOMAIN g.waiters : g.waiters[j] # t
  PROVE  /\ LineOf(Joined(g, t)) = Append(LineOf(g), t)
         /\ Joined(g, t).future = [g.future EXCEPT ![t] = "pending"]
<1> DEFINE h == Joined(g, t)
           w == g.waiters
           n == Len(w)
<1>1. h = [g EXCEPT !.waiters = Append(w, t), !.future[t] = "pending"]
  BY DEF Joined
<1>2. h.waiters = Append(w, t) /\ h.future = [g.future EXCEPT ![t] = "pending"]
  BY <1>1 DEF Gates
<1> HIDE DEF h
<1>3. w \in Seq(Tasks) /\ n \in Nat /\ DOMAIN w = 1 .. n /\ Live(g) \in SUBSET DOMAIN w
  BY LiveFacts
<1>4. /\ DOMAIN h.waiters = 1 .. n + 1 /\ h.waiters[n + 1] = t
      /\ \A k \in 1 .. n : h.waiters[k] = w[k] /\ w[k] \in Tasks /\ w[k] # t
  BY <1>2, <1>3
<1>5. h.future[t] = "pending" /\ \A k \in 1 .. n : h.future[w[k]] = g.future[w[k]]
  BY <1>2, <1>4 DEF Gates
<1>6. Live(h) = Live(g) \cup {n + 1}
  <2>1. \A k \in 1 .. n + 1 : k \in 1 .. n \/ k = n + 1
    BY <1>3
  <2>2. \A k \in 1 .. n : k \in 1 .. n + 1
    BY <1>3
  <2>3. n + 1 \in 1 .. n + 1
    BY <1>3
  <2>4. QED BY <1>3, <1>4, <1>5, <2>1, <2>2, <2>3 DEF Live
<1> DEFINE L == Live(g)
<1>7. L \in SUBSET DOMAIN w
  BY <1>3
<1> HIDE DEF w, L
<1>8. Subsequence(Append(w, t), L \cup {Len(w) + 1}) = Append(Subsequence(w, L), t)
  BY <1>3, <1>7, SubsequenceAppend
<1>9. QED BY <1>2, <1>6, <1>8 DEF LineOf, h, L, w

\* A live waiter that is cancelled leaves the live part, the others keep their order.
LEMMA InterruptedLine ==
  ASSUME NEW g \in Gates, NEW held, LineSound(g, held), NEW t \in Tasks, g.future[t] = "pending",
         \E k \in DOMAIN LineOf(g) : LineOf(g)[k] = t
  PROVE  /\ Interrupted(g, t).future = [g.future EXCEPT ![t] = "cancelled"]
         /\ LineOf(g) \in Seq(Tasks)
         /\ \E m \in DOMAIN LineOf(g) :
              /\ LineOf(g)[m] = t
              /\ LineOf(Interrupted(g, t)) = SubSeq(LineOf(g), 1, m - 1)
                                             \o SubSeq(LineOf(g), m + 1, Len(LineOf(g)))
<1> DEFINE h == Interrupted(g, t)
           w == g.waiters
           L == Live(g)
           l == LineOf(g)
<1>1. h = [g EXCEPT !.future[t] = "cancelled"]
  BY DEF Interrupted
<1>2. h.waiters = w /\ h.future = [g.future EXCEPT ![t] = "cancelled"]
  BY <1>1 DEF Gates
<1>3. w \in Seq(Tasks) /\ L \in SUBSET DOMAIN w
  BY LiveFacts
<1>4. \A k \in DOMAIN l : \E j \in L : l[k] = w[j]
  <2> HIDE DEF w, L
  <2>1. l = Subsequence(w, L)
    BY DEF LineOf, w, L
  <2> HIDE DEF l
  <2>2. QED BY <1>3, <2>1, SubsequenceElements
<1>5. PICK i \in L : w[i] = t
  <2> HIDE DEF l, w, L
  <2>1. \E k \in DOMAIN l : l[k] = t
    BY DEF l
  <2>2. QED BY <1>4, <2>1
<1>6. \A j \in DOMAIN w : w[j] = t => j = i
  BY <1>3, <1>5 DEF LineSound
<1> HIDE DEF h
<1>7. Live(h) = L \ {i}
  <2>1. \A j \in DOMAIN w : w[j] \in Tasks
    BY <1>3
  <2>2. \A j \in DOMAIN w : h.future[w[j]] = IF j = i THEN "cancelled" ELSE g.future[w[j]]
    BY <1>2, <1>5, <1>6, <2>1 DEF Gates
  <2>3. QED BY <1>2, <1>3, <2>2 DEF Live
<1>8. l = Subsequence(w, L) /\ LineOf(h) = Subsequence(w, L \ {i})
  BY <1>2, <1>7 DEF LineOf
<1> HIDE DEF w, L, l
<1>9. /\ Subsequence(w, L) \in Seq(Tasks)
      /\ \E m \in DOMAIN Subsequence(w, L) :
           /\ Subsequence(w, L)[m] = w[i]
           /\ (\A j \in L : i <= j) => m = 1
           /\ Subsequence(w, L \ {i}) = SubSeq(Subsequence(w, L), 1, m - 1)
                                     \o SubSeq(Subsequence(w, L), m + 1, Len(Subsequence(w, L)))
  BY <1>3, <1>5, SubsequenceWithout, ZenonT(60)
<1>10. l \in Seq(Tasks) /\ \E m \in DOMAIN l :
           l[m] = t /\ LineOf(h) = SubSeq(l, 1, m - 1) \o SubSeq(l, m + 1, Len(l))
  BY <1>5, <1>8, <1>9
<1>11. QED BY <1>2, <1>10 DEF l, h

-----------------------------------------------------------------------------
(* Every step is a step of the abstract specification, or changes nothing  *)
(* it sees.                                                                *)

\* Every pending waiter is in the live line, and nobody is there while a slot is free.
Orderly(g) ==
  /\ Vacant(g) => LineOf(g) = <<>>
  /\ \A t \in Tasks : g.future[t] = "pending" => \E k \in DOMAIN LineOf(g) : LineOf(g)[k] = t

\* A slot that is given back goes to the head of the line, or to the pool.
LEMMA GivenBack ==
  ASSUME NEW g \in Gates, NEW held \in SUBSET Tasks, LineSound(g, held), Orderly(g)
  PROVE  /\ Orderly(Released(g))
         /\ LineOf(g) = <<>> => /\ LineOf(Released(g)) = <<>>
                                /\ OwnersOf(Released(g), held) = OwnersOf(g, held)
         /\ LineOf(g) # <<>> => /\ LineOf(Released(g)) = Tail(LineOf(g))
                                /\ OwnersOf(Released(g), held) = OwnersOf(g, held) \cup {Head(LineOf(g))}
<1> DEFINE h == Released(g)
           l == LineOf(g)
<1>1. l \in Seq(Tasks)
  BY LineFacts
<1>2. CASE l = <<>>
  <2>1. LineOf(h) = <<>> /\ h.future = g.future
    BY <1>2, ReleasedLine
  <2>2. \A t \in Tasks : g.future[t] # "pending"
    BY <1>2 DEF Orderly
  <2>3. OwnersOf(h, held) = OwnersOf(g, held)
    BY <2>1 DEF OwnersOf
  <2> HIDE DEF h
  <2>4. Orderly(h)
    BY <2>1, <2>2 DEF Orderly
  <2>5. QED BY <1>2, <2>1, <2>3, <2>4 DEF h
<1>3. CASE l # <<>>
  <2>1. /\ LineOf(h) = Tail(l) /\ Head(l) \in Tasks /\ g.future[Head(l)] = "pending"
        /\ h.future = [g.future EXCEPT ![Head(l)] = "result"]
    BY <1>3, ReleasedLine
  <2>2. ~Vacant(g)
    BY <1>3 DEF Orderly
  <2>3. Live(g) # {}
    BY <1>3, LineFacts
  <2> DEFINE f == FirstLive(g)
             s == SubSeq(g.waiters, f + 1, Len(g.waiters))
  <2>4. h = [g EXCEPT !.waiters = s, !.future[g.waiters[f]] = "result"]
    BY <2>3, Zenon DEF Released
  <2> HIDE DEF f, s, h, l
  <2>5. h.active = g.active
    BY <2>4 DEF Gates
  <2>6. g.future \in [Tasks -> FutureState]
    BY DEF Gates
  <2>7. OwnersOf(h, held) = OwnersOf(g, held) \cup {Head(l)}
    BY <2>1, <2>6 DEF OwnersOf
  <2>8. \A k \in DOMAIN l : k # 1 => k - 1 \in DOMAIN Tail(l) /\ Tail(l)[k - 1] = l[k]
    BY <1>1, <1>3
  <2>9. ASSUME NEW t \in Tasks, h.future[t] = "pending"
        PROVE  \E k \in DOMAIN LineOf(h) : LineOf(h)[k] = t
    <3>1. t # Head(l) /\ g.future[t] = "pending"
      BY <2>1, <2>6, <2>9
    <3>2. PICK k \in DOMAIN l : l[k] = t
      BY <3>1 DEF Orderly, l
    <3>3. k # 1
      BY <1>1, <1>3, <3>1, <3>2
    <3>4. QED BY <2>1, <2>8, <3>2, <3>3
  <2>10. ~Vacant(h)
    BY <2>2, <2>5 DEF Vacant
  <2>11. Orderly(h)
    BY <2>9, <2>10 DEF Orderly
  <2>12. QED BY <1>3, <2>1, <2>7, <2>11 DEF h, l
<1>4. QED BY <1>2, <1>3

\* What the abstract step is, in terms of the gate.
LEMMA SlotsView ==
  /\ Owners = OwnersOf(gate, holding)
  /\ Subsequence(gate.waiters, Live(gate)) = LineOf(gate)
BY DEF Owners, OwnersOf, LineOf

\* The cardinality the abstract specification takes from its own instance of FiniteSets.
LEMMA SameCardinality == \A S : Slots!Cardinality(S) = Cardinality(S)
BY Zenon DEF Slots!Cardinality, Cardinality

\* The line starts empty, and the first state is one of the abstract specification.
LEMMA GateInitImplements == Init => Orderly(gate) /\ Slots!Init
<1> SUFFICES ASSUME Init PROVE Orderly(gate) /\ Slots!Init
  OBVIOUS
<1>1. gate.waiters = <<>> /\ gate.future = [t \in Tasks |-> "none"] /\ holding = {}
  BY DEF Init, NewGate
<1>2. Live(gate) = {}
  BY <1>1 DEF Live
<1>3. Cardinality(Live(gate)) = 0
  BY <1>2, FS_EmptySet
<1>4. LineOf(gate) = <<>>
  BY <1>1, <1>2, <1>3 DEF LineOf, Subsequence
<1>5. Owners = {}
  BY <1>1 DEF Owners
<1>6. \A t \in Tasks : gate.future[t] # "pending"
  BY <1>1
<1>7. Orderly(gate)
  BY <1>4, <1>6 DEF Orderly
<1>8. QED BY <1>4, <1>5, <1>7 DEF Slots!Init, LineOf

\* Taking, joining, leaving and giving back are what the methods do to owners and line.
LEMMA GateStepImplements ==
  ASSUME GateInvariant, Orderly(gate), [Next]_vars
  PROVE  Orderly(gate') /\ [Slots!Next]_(Slots!vars)
<1> DEFINE l == LineOf(gate)
           own == OwnersOf(gate, holding)
<1>1. /\ gate \in Gates /\ holding \in SUBSET Tasks /\ interrupted \subseteq Tasks
      /\ Sound(gate, holding) /\ LineSound(gate, holding) /\ Balanced(gate, holding)
      /\ \A t \in interrupted : gate.future[t] \in {"cancelled", "result"}
      /\ \A t \in holding : gate.future[t] = "none"
  BY DEF GateInvariant, Sound
<1>2. /\ gate.active \in Int /\ gate.waiters \in Seq(Tasks) /\ gate.future \in [Tasks -> FutureState]
  BY <1>1 DEF Gates
<1>3. /\ Owners = own /\ Subsequence(gate.waiters, Live(gate)) = l
  BY SlotsView
<1>4. /\ Owners' = OwnersOf(gate', holding')
      /\ Subsequence(gate'.waiters, Live(gate')) = LineOf(gate')
  BY DEF Owners, OwnersOf, LineOf
<1>5. l \in Seq(Tasks) /\ Len(l) = Cardinality(Live(gate)) /\ Cardinality(Live(gate)) <= Len(gate.waiters)
      /\ \A k \in DOMAIN l : l[k] \notin holding /\ gate.future[l[k]] = "pending"
  BY <1>1, LineFacts, LiveFacts
<1>6. /\ \A t \in Tasks : t \notin holding /\ gate.future[t] = "none" => t \notin own
      /\ \A t \in Tasks : gate.future[t] # "pending" => \A k \in DOMAIN l : l[k] # t
      /\ \A t \in Tasks : gate.future[t] = "result" => t \in own
      /\ \A t \in holding : t \in own /\ t \in Tasks
  BY <1>1, <1>5 DEF OwnersOf
<1>7. \A t \in Tasks : gate.future[t] \in {"none", "result"} =>
         \A j \in DOMAIN gate.waiters : gate.waiters[j] # t
  BY <1>1 DEF LineSound
<1> HIDE DEF l, own
<1>10. ASSUME NEW t \in Tasks, AcquireNow(t) PROVE Orderly(gate') /\ [Slots!Next]_(Slots!vars)
  <2> DEFINE k == gate.active + 1
  <2>1. /\ t \notin holding /\ gate.future[t] = "none" /\ gate.active < Maximum
        /\ gate' = [gate EXCEPT !.active = k] /\ holding' = holding \cup {t}
    BY <1>10, Zenon DEF AcquireNow, Outside, Vacant, Taken
  <2> HIDE DEF k
  <2>2. gate'.waiters = gate.waiters /\ gate'.future = gate.future
    BY <1>1, <2>1 DEF Gates
  <2>3. l = <<>>
    BY <2>1 DEF Orderly, Vacant, l
  <2>4. LineOf(gate') = l
    BY <2>2 DEF LineOf, Live, l
  <2>5. OwnersOf(gate', holding') = own \cup {t}
    BY <2>1, <2>2 DEF OwnersOf, own
  <2>6. Cardinality(own) < Maximum
    BY <1>1, <2>1 DEF Balanced, own
  <2>7. Orderly(gate')
    BY <2>2, <2>3, <2>4 DEF Orderly, l
  <2>10. t \notin Owners \cup Slots!Waiting
    BY <1>3, <1>6, <2>1 DEF Slots!Waiting
  <2>8. Slots!Take(t)
    BY <1>3, <1>4, <2>3, <2>4, <2>5, <2>6, <2>10, SameCardinality DEF Slots!Take
  <2>9. QED BY <2>7, <2>8 DEF Slots!Next
<1>11. ASSUME NEW t \in Tasks, Wait(t) PROVE Orderly(gate') /\ [Slots!Next]_(Slots!vars)
  <2>1. /\ t \notin holding /\ gate.future[t] = "none" /\ ~Vacant(gate) /\ Len(gate.waiters) < MaxQueueSize
        /\ gate' = Joined(gate, t) /\ holding' = holding
    <3>1. Len(gate.waiters) \in Nat
      BY <1>2
    <3>2. QED BY <1>11, <3>1, GateAssumption DEF Wait, Outside, LineFull
  <2>2. /\ LineOf(gate') = Append(l, t)
        /\ gate'.future = [gate.future EXCEPT ![t] = "pending"]
    BY <1>1, <1>7, <2>1, JoinedLine DEF l
  <2>3. OwnersOf(gate', holding') = own
    BY <1>2, <2>1, <2>2 DEF OwnersOf, own
  <2>4. gate'.active = gate.active
    BY <1>1, <2>1 DEF Joined, Gates
  <2>5. Cardinality(own) = Maximum
    BY <1>1, <1>2, <2>1, GateAssumption DEF Balanced, Vacant, own
  <2>6. Len(l) < MaxQueueSize
    <3>1. Len(l) \in Nat /\ Len(gate.waiters) \in Nat
      BY <1>2, <1>5
    <3>2. QED BY <1>5, <2>1, <3>1, GateAssumption
  <2>7. ASSUME NEW u \in Tasks, gate'.future[u] = "pending"
        PROVE  \E k \in DOMAIN LineOf(gate') : LineOf(gate')[k] = u
    <3>1. CASE u = t
      <4>1. Len(l) + 1 \in DOMAIN Append(l, t) /\ Append(l, t)[Len(l) + 1] = t
        BY <1>5
      <4>2. QED BY <2>2, <3>1, <4>1
    <3>2. CASE u # t
      <4>1. gate.future[u] = "pending"
        BY <1>2, <2>2, <2>7, <3>2
      <4>2. PICK k \in DOMAIN l : l[k] = u
        BY <4>1 DEF Orderly, l
      <4>3. k \in DOMAIN Append(l, t) /\ Append(l, t)[k] = u
        BY <1>5, <4>2
      <4>4. QED BY <2>2, <4>3
    <3>3. QED BY <3>1, <3>2
  <2>8. Orderly(gate')
    BY <2>1, <2>4, <2>7 DEF Orderly, Vacant
  <2>11. t \notin Owners \cup Slots!Waiting
    BY <1>3, <1>6, <2>1 DEF Slots!Waiting
  <2>9. Slots!Join(t)
    BY <1>3, <1>4, <2>2, <2>3, <2>5, <2>6, <2>11, SameCardinality DEF Slots!Join
  <2>10. QED BY <2>8, <2>9 DEF Slots!Next
<1>12. ASSUME NEW t \in Tasks, Interrupt(t) PROVE Orderly(gate') /\ [Slots!Next]_(Slots!vars)
  <2>1. gate.future[t] \in {"pending", "result"} /\ gate' = Interrupted(gate, t) /\ holding' = holding
    BY <1>12 DEF Interrupt
  <2>2. CASE gate.future[t] = "result"
    <3>1. gate' = gate
      BY <2>1, <2>2 DEF Interrupted
    <3>2. Orderly(gate')
      BY <3>1
    <3>3. UNCHANGED Slots!vars
      BY <1>3, <1>4, <2>1, <3>1 DEF Slots!vars, own, l
    <3>4. QED BY <3>2, <3>3
  <2>3. CASE gate.future[t] = "pending"
    <3>1. \E k \in DOMAIN l : l[k] = t
      BY <2>3 DEF Orderly, l
    <3>2. /\ gate'.future = [gate.future EXCEPT ![t] = "cancelled"]
          /\ \E m \in DOMAIN l :
               l[m] = t /\ LineOf(gate') = SubSeq(l, 1, m - 1) \o SubSeq(l, m + 1, Len(l))
      BY <1>1, <2>1, <2>3, <3>1, InterruptedLine DEF l
    <3>3. PICK m \in DOMAIN l : l[m] = t /\ LineOf(gate') = SubSeq(l, 1, m - 1) \o SubSeq(l, m + 1, Len(l))
      BY <3>2
    <3>4. LineOf(gate') = [k \in 1 .. Len(l) - 1 |-> IF k < m THEN l[k] ELSE l[k + 1]]
      BY <1>5, <3>3, CutFacts
    <3>5. OwnersOf(gate', holding') = own
      BY <1>2, <2>1, <2>3, <3>2 DEF OwnersOf, own
    <3>6. gate'.active = gate.active
      BY <1>1, <2>1, <2>3 DEF Interrupted, Gates
    <3>7. ~Vacant(gate')
      <4>1. l # <<>>
        BY <3>1
      <4>2. QED BY <3>6, <4>1 DEF Orderly, Vacant, l
    <3>8. ASSUME NEW u \in Tasks, gate'.future[u] = "pending"
          PROVE  \E k \in DOMAIN LineOf(gate') : LineOf(gate')[k] = u
      <4>1. u # t /\ gate.future[u] = "pending"
        BY <1>2, <3>2, <3>8
      <4>2. PICK k \in DOMAIN l : l[k] = u
        BY <4>1 DEF Orderly, l
      <4>3. k # m /\ Len(l) \in Nat /\ k \in 1 .. Len(l) /\ m \in 1 .. Len(l)
        BY <1>5, <3>3, <4>1, <4>2
      <4>4. CASE k < m
        <5>1. k \in 1 .. Len(l) - 1
          BY <4>3, <4>4
        <5>2. QED BY <3>4, <4>2, <4>4, <5>1
      <4>5. CASE ~(k < m)
        <5>1. k - 1 \in 1 .. Len(l) - 1 /\ ~(k - 1 < m) /\ (k - 1) + 1 = k
          BY <4>3, <4>5
        <5>2. QED BY <3>4, <4>2, <5>1
      <4>6. QED BY <4>4, <4>5
    <3>9. Orderly(gate')
      BY <3>7, <3>8 DEF Orderly
    <3>10. Slots!Leave(t)
      BY <1>3, <1>4, <3>3, <3>5 DEF Slots!Leave
    <3>11. QED BY <3>9, <3>10 DEF Slots!Next
  <2>4. QED BY <2>1, <2>2, <2>3
<1>13. ASSUME NEW t \in Tasks, Resume(t) PROVE Orderly(gate') /\ [Slots!Next]_(Slots!vars)
  <2>1. gate.future[t] = "result" /\ gate' = Forgotten(gate, t) /\ holding' = holding \cup {t}
    BY <1>13 DEF Resume
  <2>2. LineOf(gate') = l
    BY <1>1, <1>7, <2>1, ForgottenLine DEF l
  <2>3. gate' = [gate EXCEPT !.future[t] = "none"]
    BY <2>1 DEF Forgotten
  <2>4. gate'.active = gate.active /\ gate'.future = [gate.future EXCEPT ![t] = "none"]
    BY <1>1, <2>3 DEF Gates
  <2>5. OwnersOf(gate', holding') = own
    BY <1>2, <2>1, <2>4 DEF OwnersOf, own
  <2>6. \A u \in Tasks : gate'.future[u] = "pending" => gate.future[u] = "pending"
    BY <1>2, <2>4
  <2>7. Orderly(gate')
    BY <2>2, <2>4, <2>6 DEF Orderly, Vacant, l
  <2>8. UNCHANGED Slots!vars
    BY <1>3, <1>4, <2>2, <2>5 DEF Slots!vars
  <2>9. QED BY <2>7, <2>8
<1>14. ASSUME NEW t \in Tasks, Withdraw(t) PROVE Orderly(gate') /\ [Slots!Next]_(Slots!vars)
  <2> DEFINE w == Without(gate, t)
             g == Forgotten(w, t)
  <2>1. /\ gate.future[t] \in {"cancelled", "result"} /\ gate' = LeftLine(gate, t) /\ holding' = holding
    BY <1>1, <1>14 DEF Withdraw
  <2>2. /\ w \in Gates /\ LineSound(w, holding) /\ w.future = gate.future /\ w.active = gate.active
        /\ \A j \in DOMAIN w.waiters : w.waiters[j] # t
    BY <1>1, WithoutSound
  <2>3. LineOf(w) = l
    BY <1>1, <2>1, WithoutLine DEF l
  <2>4. Sound(w, holding) /\ OwnersOf(w, holding) = own
    BY <1>1, <2>2 DEF Sound, OwnersOf, own
  <2> HIDE DEF w
  <2>5. /\ g \in Gates /\ Sound(g, holding) /\ g.active = w.active
        /\ g.future = [w.future EXCEPT ![t] = "none"]
        /\ w.future[t] = "result" =>
             OwnersOf(w, holding) = OwnersOf(g, holding) \cup {t} /\ t \notin OwnersOf(g, holding)
        /\ w.future[t] # "result" => OwnersOf(g, holding) = OwnersOf(w, holding)
    BY <1>1, <2>2, <2>4, ForgottenSound
  <2>6. LineOf(g) = l
    <3>1. LineOf(g) = LineOf(w)
      BY <2>2, ForgottenLine
    <3>2. QED BY <2>3, <3>1
  <2> HIDE DEF g
  <2>7. \A u \in Tasks : g.future[u] = "pending" => gate.future[u] = "pending"
    BY <1>2, <2>2, <2>5
  <2>8. Orderly(g)
    BY <2>2, <2>5, <2>6, <2>7 DEF Orderly, Vacant, l
  <2>9. CASE gate.future[t] = "result"
    <3>1. t \notin InLineOf(gate)
      BY <1>1, <2>9 DEF LineSound, InLineOf
    <3>2. w = gate
      BY <3>1 DEF Without, w
    <3>3. gate' = Released(g)
      BY <2>1, <2>9, <3>1, <3>2 DEF LeftLine, g
    <3>4. /\ Orderly(Released(g))
          /\ LineOf(g) = <<>> => /\ LineOf(Released(g)) = <<>>
                                 /\ OwnersOf(Released(g), holding) = OwnersOf(g, holding)
          /\ LineOf(g) # <<>> => /\ LineOf(Released(g)) = Tail(LineOf(g))
                                 /\ OwnersOf(Released(g), holding) = OwnersOf(g, holding) \cup {Head(LineOf(g))}
      BY <1>1, <2>5, <2>8, GivenBack DEF Sound
    <3>5. OwnersOf(g, holding) = own \ {t} /\ t \in own
      BY <1>6, <2>2, <2>4, <2>5, <2>9
    <3>6. Slots!GiveBack(t)
      BY <1>3, <1>4, <2>1, <2>6, <3>3, <3>4, <3>5 DEF Slots!GiveBack
    <3>7. QED BY <3>3, <3>4, <3>6 DEF Slots!Next
  <2>10. CASE gate.future[t] # "result"
    <3>1. gate' = g
      BY <2>1, <2>10 DEF LeftLine, g, w
    <3>2. OwnersOf(gate', holding') = own
      BY <2>1, <2>2, <2>4, <2>5, <2>10, <3>1
    <3>3. UNCHANGED Slots!vars
      BY <1>3, <1>4, <2>6, <3>1, <3>2 DEF Slots!vars
    <3>4. QED BY <2>8, <3>1, <3>3
  <2>11. QED BY <2>9, <2>10
<1>15. ASSUME NEW t \in Tasks, Release(t) PROVE Orderly(gate') /\ [Slots!Next]_(Slots!vars)
  <2> DEFINE held == holding \ {t}
  <2>1. t \in holding /\ gate' = Released(gate) /\ holding' = held
    BY <1>15 DEF Release
  <2>2. OwnersOf(gate, held) = own \ {t} /\ t \in own
    BY <1>1, <2>1 DEF OwnersOf, own
  <2>3. held \in SUBSET Tasks /\ LineSound(gate, held)
    BY <1>1 DEF LineSound
  <2> HIDE DEF held
  <2>4. /\ Orderly(gate')
        /\ l = <<>> => LineOf(gate') = <<>> /\ OwnersOf(gate', held) = OwnersOf(gate, held)
        /\ l # <<>> => /\ LineOf(gate') = Tail(l)
                       /\ OwnersOf(gate', held) = OwnersOf(gate, held) \cup {Head(l)}
    BY <1>1, <2>1, <2>3, GivenBack DEF l
  <2>5. Slots!GiveBack(t)
    BY <1>3, <1>4, <2>1, <2>2, <2>4 DEF Slots!GiveBack
  <2>6. QED BY <2>4, <2>5 DEF Slots!Next
<1>16. CASE UNCHANGED vars
  <2>1. UNCHANGED <<gate, holding>>
    BY <1>16 DEF vars
  <2>2. UNCHANGED Slots!vars
    BY <1>3, <1>4, <2>1 DEF Slots!vars, own, l
  <2>3. QED BY <2>1, <2>2
<1>17. QED
  BY <1>10, <1>11, <1>12, <1>13, <1>14, <1>15, <1>16 DEF Next

\* The gate implements bounded FIFO slots, for any number of tasks and slots and any
\* length of the line: a free slot is taken only if no live waiter is in line, a task waits
\* only if every slot has an owner, and a slot given back goes to the oldest live waiter.
THEOREM FifoSlotsImplemented == Spec => ImplementsFifoSlots
<1>1. Init => Orderly(gate) /\ Slots!Init
  BY GateInitImplements
<1>2. GateInvariant /\ Orderly(gate) /\ [Next]_vars => Orderly(gate)' /\ [Slots!Next]_(Slots!vars)
  BY GateStepImplements
<1>3. QED
  BY <1>1, <1>2, GateInitSound, NextSound, PTL DEF Spec, ImplementsFifoSlots, Slots!Spec

\* No slot is ever free while a live waiter is in line.
THEOREM NeverIdle == Spec => []NoIdleSlot
<1>1. GateInvariant /\ Orderly(gate) => NoIdleSlot
  <2> SUFFICES ASSUME GateInvariant, Orderly(gate) PROVE NoIdleSlot
    OBVIOUS
  <2>1. gate \in Gates /\ LineSound(gate, holding)
    BY DEF GateInvariant, Sound
  <2>2. Live(gate) = {} <=> LineOf(gate) = <<>>
    BY <2>1, LineFacts
  <2>3. QED BY <2>2 DEF Orderly, NoIdleSlot
<1>2. Init => Orderly(gate)
  BY GateInitImplements
<1>3. GateInvariant /\ Orderly(gate) /\ [Next]_vars => Orderly(gate)'
  BY GateStepImplements
<1>4. QED BY <1>1, <1>2, <1>3, GateInitSound, NextSound, PTL DEF Spec

-----------------------------------------------------------------------------
(***************************************************************************)
(* The global quota keeps its windows, decides as the whole history would  *)
(* and promises no retry too early, for any requests, limits and windows.  *)
(*                                                                         *)
(* The quota forgets, so that its promises, which are about the whole      *)
(* history, need to say what it has not forgotten.  Of the requests this   *)
(* is easy: the deque lists those of the last hour, by id (HourKept).  Of  *)
(* the settlements it is not: equal ones are the same to the deque, and    *)
(* those of nothing are not in it at all.  But for every moment of the     *)
(* last day the deque adds up to what was spent after it (DayKept), and    *)
(* this every step preserves: a settlement adds the same to both sides,    *)
(* pruning drops what no such moment reaches, and time only leaves fewer   *)
(* moments.  The deques are in the order of time, so that pruning from     *)
(* the head finds everything that has expired (YoungCuts).                 *)
(***************************************************************************)

-----------------------------------------------------------------------------
(* Cutting a deque, and what its parts add up to.                          *)

\* A deque in the order of time.
InOrderOfTime(s) == \A i, j \in DOMAIN s : i <= j => s[i].at <= s[j].at

\* What the records of s after time w add up to.
TotalAfter(s, w) ==
  SumFunction([i \in {k \in DOMAIN s : w < s[k].at} |-> s[i].count])

\* The stamps of a deque are times, and its counts numbers.
Stamped(s) == \A i \in DOMAIN s : s[i].at \in Int
Counted(s) == \A i \in DOMAIN s : s[i].count \in Nat

\* The end of a sequence.
LEMMA SuffixFacts ==
  ASSUME NEW T, NEW s \in Seq(T), NEW k \in 0 .. Len(s)
  PROVE  /\ SubSeq(s, k + 1, Len(s)) \in Seq(T)
         /\ Len(SubSeq(s, k + 1, Len(s))) = Len(s) - k
         /\ \A i \in 1 .. Len(s) - k : SubSeq(s, k + 1, Len(s))[i] = s[i + k]
BY SMT

\* Young cuts a deque in order of time between the old and the young records.
LEMMA YoungCuts ==
  ASSUME NEW T, NEW s \in Seq(T), Stamped(s), InOrderOfTime(s),
         NEW t \in Int, NEW window \in Int
  PROVE  \E k \in 0 .. Len(s) :
           /\ Young(s, t, window) = SubSeq(s, k + 1, Len(s))
           /\ \A i \in 1 .. k : s[i].at <= t - window
           /\ \A i \in k + 1 .. Len(s) : t - window < s[i].at
<1> DEFINE fresh == {i \in DOMAIN s : ~Older(s[i], t, window)}
<1>1. Len(s) \in Nat /\ DOMAIN s = 1 .. Len(s)
  OBVIOUS
<1>2. /\ fresh \in SUBSET (1 .. Len(s))
      /\ \A i \in 1 .. Len(s) : s[i].at \in Int /\ (i \in fresh <=> t - window < s[i].at)
  BY <1>1 DEF Older, Stamped
<1>3. Young(s, t, window) = IF fresh = {} THEN <<>> ELSE SubSeq(s, Min(fresh), Len(s))
  BY DEF Young
<1> HIDE DEF fresh
<1>4. CASE fresh = {}
  <2>1. SubSeq(s, Len(s) + 1, Len(s)) = <<>>
    BY <1>1, SubSeqEmpty
  <2>2. \A i \in 1 .. Len(s) : s[i].at <= t - window
    BY <1>2, <1>4
  <2>3. Len(s) \in 0 .. Len(s) /\ \A i \in Len(s) + 1 .. Len(s) : FALSE
    BY <1>1
  <2>4. Young(s, t, window) = SubSeq(s, Len(s) + 1, Len(s))
    BY <1>3, <1>4, <2>1
  <2>5. QED BY <2>2, <2>3, <2>4
<1>5. CASE fresh # {}
  <2>1. fresh \in SUBSET Nat
    BY <1>2
  <2>2. \E m \in fresh : \A j \in fresh : m <= j
    BY <2>1, <1>5, LeastNumber
  <2>3. Min(fresh) \in fresh /\ \A j \in fresh : Min(fresh) <= j
    BY <2>2 DEF Min
  <2>4. PICK m \in Nat : m = Min(fresh)
    BY <2>1, <2>3
  <2>5. m \in 1 .. Len(s) /\ t - window < s[m].at
    BY <1>2, <2>3, <2>4
  <2>6. ASSUME NEW i \in 1 .. m - 1 PROVE s[i].at <= t - window
    <3>1. i \in 1 .. Len(s) /\ i \notin fresh
      BY <2>3, <2>4, <2>5
    <3>2. QED BY <1>2, <3>1
  <2>7. ASSUME NEW i \in m .. Len(s) PROVE t - window < s[i].at
    <3>1. i \in 1 .. Len(s) /\ m <= i
      BY <2>5
    <3>2. s[m].at <= s[i].at
      BY <1>1, <2>5, <3>1 DEF InOrderOfTime
    <3>3. s[m].at \in Int /\ s[i].at \in Int
      BY <1>2, <2>5, <3>1
    <3>4. QED BY <2>5, <3>2, <3>3
  <2>8. m - 1 \in 0 .. Len(s) /\ m - 1 + 1 = m
    BY <2>5
  <2>9. Young(s, t, window) = SubSeq(s, m - 1 + 1, Len(s))
    BY <1>3, <1>5, <2>4, <2>8
  <2>10. QED BY <2>6, <2>7, <2>8, <2>9
<1>6. QED BY <1>4, <1>5

\* The counts at some positions of a deque.
SumAt(s, chosen) == SumFunction([i \in chosen |-> s[i].count])

\* Total and TotalAfter are such sums.
LEMMA TotalIsSum ==
  ASSUME NEW s
  PROVE  /\ Total(s) = SumAt(s, DOMAIN s)
         /\ \A w : TotalAfter(s, w) = SumAt(s, {k \in DOMAIN s : w < s[k].at})
BY DEF Total, TotalAfter, SumAt

\* Positions of a deque.
LEMMA SumAtFacts ==
  ASSUME NEW T, NEW s \in Seq(T), Counted(s), NEW chosen \in SUBSET DOMAIN s
  PROVE  /\ IsFiniteSet(chosen) /\ [i \in chosen |-> s[i].count] \in [chosen -> Nat]
         /\ SumAt(s, chosen) \in Nat
<1>1. Len(s) \in Nat /\ DOMAIN s = 1 .. Len(s)
  OBVIOUS
<1>2. IsFiniteSet(chosen)
  <2>1. IsFiniteSet(1 .. Len(s))
    BY <1>1, FirstNumbers
  <2>2. QED BY <1>1, <2>1, FS_Subset
<1>3. [i \in chosen |-> s[i].count] \in [chosen -> Nat]
  BY DEF Counted
<1>4. SumAt(s, chosen) \in Nat
  BY <1>2, <1>3, SumType DEF SumAt
<1>5. QED BY <1>2, <1>3, <1>4

\* The positions in I of c hold what those in J of s do, k positions later.
Shifted(c, I, s, J, k) ==
  /\ I \subseteq Int /\ J \subseteq Int /\ IsFiniteSet(I)
  /\ \A i \in I : i + k \in J /\ c[i] = s[i + k]
  /\ \A j \in J : j - k \in I /\ s[j].count \in Nat

\* The sum over some positions of a suffix is that over these positions moved.
LEMMA SumAtShift ==
  ASSUME NEW c, NEW I, NEW s, NEW J, NEW k \in Nat, Shifted(c, I, s, J, k)
  PROVE  SumAt(c, I) = SumAt(s, J)
<1> DEFINE f == [i \in I |-> c[i].count]
           g == [j \in J |-> s[j].count]
           move == [i \in I |-> i + k]
<1>1. IsFiniteSet(I) /\ f \in [I -> Nat] /\ g \in [J -> Nat]
  BY DEF Shifted
<1>2. move \in Bijection(I, J)
  <2>1. move \in [I -> J]
    BY DEF Shifted
  <2>2. ASSUME NEW i \in I, NEW j \in I, move[i] = move[j] PROVE i = j
    <3>1. i \in Int /\ j \in Int /\ i + k = j + k
      BY <2>2 DEF Shifted
    <3>2. QED BY <3>1
  <2>3. ASSUME NEW j \in J PROVE \E i \in I : move[i] = j
    <3>1. j \in Int /\ j - k \in I /\ j - k + k = j
      BY DEF Shifted
    <3>2. QED BY <3>1
  <2> HIDE DEF move
  <2>4. QED BY <2>1, <2>2, <2>3 DEF Bijection, Injection, Surjection, IsInjective
<1>3. \A i \in I : g[move[i]] = f[i]
  BY DEF Shifted
<1>4. SumAt(c, I) = SumFunction(f) /\ SumAt(s, J) = SumFunction(g)
  BY DEF SumAt
<1> HIDE DEF f, g, move
<1>5. SumFunction(g) = SumFunction(f)
  BY <1>1, <1>2, <1>3, SumReindex
<1>6. QED BY <1>4, <1>5

\* The sum over two disjoint sets of positions.
LEMMA SumAtUnion ==
  ASSUME NEW s, NEW I, NEW J, IsFiniteSet(I), IsFiniteSet(J), I \cap J = {},
         NEW K, K = I \cup J, \A i \in K : s[i].count \in Nat
  PROVE  SumAt(s, K) = SumAt(s, I) + SumAt(s, J)
<1> DEFINE f == [i \in K |-> s[i].count]
           g == [i \in I |-> s[i].count]
           h == [i \in J |-> s[i].count]
<1>1. SumAt(s, K) = SumFunction(f) /\ SumAt(s, I) = SumFunction(g) /\ SumAt(s, J) = SumFunction(h)
  BY DEF SumAt
<1>2. (\A x \in I : g[x] = f[x]) /\ (\A x \in J : h[x] = f[x])
  OBVIOUS
<1>3. f \in [K -> Nat] /\ g \in [I -> Nat] /\ h \in [J -> Nat]
  OBVIOUS
<1> HIDE DEF f, g, h
<1>4. Parts(K, f, I, g, J, h)
  BY <1>2, <1>3 DEF Parts
<1>5. SumFunction(f) = SumFunction(g) + SumFunction(h)
  BY <1>4, SumUnion
<1>6. QED BY <1>1, <1>5

\* The sum over one more position.
LEMMA SumAtExtend ==
  ASSUME NEW s, NEW S, IsFiniteSet(S), NEW n, n \notin S, NEW U, U = S \cup {n},
         \A i \in U : s[i].count \in Nat
  PROVE  SumAt(s, U) = SumAt(s, S) + s[n].count
<1> DEFINE f == [i \in S |-> s[i].count]
           g == [i \in U |-> s[i].count]
<1>1. SumAt(s, S) = SumFunction(f) /\ SumAt(s, U) = SumFunction(g)
  BY DEF SumAt
<1>2. f \in [S -> Nat] /\ g \in [U -> Nat] /\ g[n] = s[n].count /\ \A y \in S : g[y] = f[y]
  OBVIOUS
<1> HIDE DEF f, g
<1>3. OneMore(U, g, S, f, n)
  BY <1>2 DEF OneMore
<1>4. SumFunction(g) = SumFunction(f) + g[n]
  BY <1>3, SumOneMore
<1>5. QED BY <1>1, <1>2, <1>4

\* The end of a deque is one, and so is the beginning.
LEMMA SuffixOfDeque ==
  ASSUME NEW T, NEW s \in Seq(T), NEW k \in 0 .. Len(s)
  PROVE  /\ InOrderOfTime(s) => InOrderOfTime(SubSeq(s, k + 1, Len(s)))
         /\ Counted(s) => Counted(SubSeq(s, k + 1, Len(s)))
         /\ Stamped(s) => Stamped(SubSeq(s, k + 1, Len(s)))
<1> DEFINE c == SubSeq(s, k + 1, Len(s))
<1>1. Len(s) \in Nat /\ k \in Nat /\ DOMAIN s = 1 .. Len(s)
  OBVIOUS
<1>2. DOMAIN c = 1 .. Len(s) - k /\ \A i \in 1 .. Len(s) - k : c[i] = s[i + k]
  BY SuffixFacts
<1>3. \A i \in DOMAIN c : i + k \in DOMAIN s /\ c[i] = s[i + k]
  BY <1>1, <1>2
<1> HIDE DEF c
<1>4. InOrderOfTime(s) => InOrderOfTime(c)
  <2> SUFFICES ASSUME InOrderOfTime(s), NEW i \in DOMAIN c, NEW j \in DOMAIN c, i <= j
               PROVE  c[i].at <= c[j].at
    BY DEF InOrderOfTime
  <2>1. i + k \in DOMAIN s /\ j + k \in DOMAIN s /\ c[i] = s[i + k] /\ c[j] = s[j + k]
    BY <1>3
  <2>2. i + k <= j + k
    BY <1>1, <1>2
  <2>3. QED BY <2>1, <2>2 DEF InOrderOfTime
<1>5. Counted(s) => Counted(c)
  BY <1>3 DEF Counted
<1>6. Stamped(s) => Stamped(c)
  BY <1>3 DEF Stamped
<1>7. QED BY <1>4, <1>5, <1>6 DEF c

\* What was cut off adds nothing after a time it does not reach.
LEMMA SuffixTotalAfter ==
  ASSUME NEW T, NEW s \in Seq(T), Stamped(s), Counted(s), NEW k \in 0 .. Len(s), NEW w \in Int,
         \A i \in 1 .. k : s[i].at <= w
  PROVE  TotalAfter(SubSeq(s, k + 1, Len(s)), w) = TotalAfter(s, w)
<1> DEFINE c == SubSeq(s, k + 1, Len(s))
           I == {i \in DOMAIN c : w < c[i].at}
           J == {j \in DOMAIN s : w < s[j].at}
<1>1. Len(s) \in Nat /\ k \in Nat /\ DOMAIN s = 1 .. Len(s)
  OBVIOUS
<1>2. c \in Seq(T) /\ DOMAIN c = 1 .. Len(s) - k /\ \A i \in 1 .. Len(s) - k : c[i] = s[i + k]
  BY SuffixFacts
<1>3. Counted(c)
  BY SuffixOfDeque
<1> HIDE DEF c
<1>4. Shifted(c, I, s, J, k)
  <2>1. ASSUME NEW i \in I PROVE i + k \in J /\ c[i] = s[i + k]
    <3>1. i \in 1 .. Len(s) - k /\ w < c[i].at
      BY <1>2
    <3>2. i + k \in 1 .. Len(s) /\ c[i] = s[i + k]
      BY <1>1, <1>2, <3>1
    <3>3. QED BY <1>1, <3>1, <3>2
  <2>2. ASSUME NEW j \in J PROVE j - k \in I
    <3>1. j \in 1 .. Len(s) /\ w < s[j].at /\ s[j].at \in Int
      BY <1>1 DEF Stamped
    <3>2. j \notin 1 .. k
      BY <3>1
    <3>3. j - k \in 1 .. Len(s) - k /\ j - k + k = j
      BY <1>1, <3>1, <3>2
    <3>4. c[j - k] = s[j]
      BY <1>2, <3>3
    <3>5. QED BY <1>2, <3>1, <3>3, <3>4
  <2>3. \A j \in J : s[j].count \in Nat
    BY DEF Counted
  <2>4. IsFiniteSet(I) /\ I \subseteq Int /\ J \subseteq Int
    <3>1. I \in SUBSET DOMAIN c
      OBVIOUS
    <3> HIDE DEF I
    <3>2. IsFiniteSet(I)
      BY <1>2, <1>3, <3>1, SumAtFacts
    <3>3. QED BY <1>1, <1>2, <3>1, <3>2
  <2> HIDE DEF I, J
  <2>5. QED BY <2>1, <2>2, <2>3, <2>4 DEF Shifted
<1>6. TotalAfter(c, w) = SumAt(c, I) /\ TotalAfter(s, w) = SumAt(s, J)
  BY TotalIsSum
<1> HIDE DEF I, J
<1>7. SumAt(c, I) = SumAt(s, J)
  BY <1>1, <1>4, SumAtShift
<1>8. QED BY <1>6, <1>7 DEF c

\* A deque cut in two.
LEMMA TotalSplits ==
  ASSUME NEW T, NEW s \in Seq(T), Counted(s), NEW k \in 0 .. Len(s)
  PROVE  /\ Total(s) \in Nat
         /\ Total(SubSeq(s, 1, k)) \in Nat /\ Total(SubSeq(s, k + 1, Len(s))) \in Nat
         /\ Total(s) = Total(SubSeq(s, 1, k)) + Total(SubSeq(s, k + 1, Len(s)))
<1> DEFINE b == SubSeq(s, 1, k)
           c == SubSeq(s, k + 1, Len(s))
           I == 1 .. k
           J == k + 1 .. Len(s)
<1>1. Len(s) \in Nat /\ k \in Nat /\ DOMAIN s = 1 .. Len(s) /\ Len(s) - k \in Nat
  OBVIOUS
<1>2. c \in Seq(T) /\ DOMAIN c = 1 .. Len(s) - k /\ \A i \in 1 .. Len(s) - k : c[i] = s[i + k]
  BY SuffixFacts
<1>3. b \in Seq(T) /\ DOMAIN b = 1 .. k /\ \A i \in 1 .. k : b[i] = s[i]
  BY <1>1
<1>4. Counted(c)
  BY SuffixOfDeque
<1> HIDE DEF b, c
<1>5. Counted(b)
  BY <1>1, <1>3 DEF Counted
<1>6. I \in SUBSET DOMAIN s /\ J \in SUBSET DOMAIN s /\ I \cup J = DOMAIN s /\ I \cap J = {}
  BY <1>1
<1>7. SumAt(b, DOMAIN b) = SumAt(s, I)
  <2>1. [i \in DOMAIN b |-> b[i].count] = [i \in I |-> s[i].count]
    BY <1>3
  <2>2. QED BY <2>1 DEF SumAt
<1>8. SumAt(c, DOMAIN c) = SumAt(s, J)
  <2>1. \A i \in DOMAIN c : i + k \in J /\ c[i] = s[i + k]
    BY <1>1, <1>2
  <2>2. \A j \in J : j - k \in DOMAIN c /\ s[j].count \in Nat
    BY <1>1, <1>2 DEF Counted
  <2>3. DOMAIN c \subseteq Int /\ J \subseteq Int /\ IsFiniteSet(DOMAIN c)
    BY <1>1, <1>2, FirstNumbers
  <2> HIDE DEF J
  <2>4. Shifted(c, DOMAIN c, s, J, k)
    BY <2>1, <2>2, <2>3 DEF Shifted
  <2>5. QED BY <1>1, <2>4, SumAtShift
<1>9. SumAt(s, DOMAIN s) = SumAt(s, I) + SumAt(s, J)
  <2>1. IsFiniteSet(I) /\ IsFiniteSet(J)
    BY <1>6, SumAtFacts
  <2> DEFINE K == DOMAIN s
  <2>2. K = I \cup J /\ \A i \in K : s[i].count \in Nat
    BY <1>6 DEF Counted
  <2> HIDE DEF I, J, K
  <2>3. SumAt(s, K) = SumAt(s, I) + SumAt(s, J)
    BY <1>6, <2>1, <2>2, SumAtUnion
  <2>4. QED BY <2>3 DEF K
<1>10. SumAt(s, DOMAIN s) \in Nat /\ SumAt(s, I) \in Nat /\ SumAt(s, J) \in Nat
  BY <1>6, SumAtFacts
<1>11. Total(s) = SumAt(s, DOMAIN s) /\ Total(b) = SumAt(b, DOMAIN b) /\ Total(c) = SumAt(c, DOMAIN c)
  BY TotalIsSum
<1>12. QED BY <1>7, <1>8, <1>9, <1>10, <1>11 DEF b, c

\* A deque younger than w counts as a whole.
LEMMA TotalOfYoung ==
  ASSUME NEW s, NEW w, \A i \in DOMAIN s : w < s[i].at
  PROVE  TotalAfter(s, w) = Total(s)
<1>1. {k \in DOMAIN s : w < s[k].at} = DOMAIN s
  OBVIOUS
<1>2. QED BY <1>1, TotalIsSum

-----------------------------------------------------------------------------
(* The deque of requests.                                                  *)

\* The deque d of requests lists some of those in known, each once and in the
\* order of time, and among them all those of the hour that ends at t.
HourKept(d, known, t) ==
  /\ InOrderOfTime(d)
  /\ \A i, j \in DOMAIN d : d[i].id = d[j].id => i = j
  /\ \A i \in DOMAIN d : d[i] \in known
  /\ \A record \in known : t - Hour < record.at => \E i \in DOMAIN d : d[i] = record
  /\ Len(d) <= RequestsPerHour

\* Pruning forgets no request of the hour, and keeps no other.
LEMMA HourPruned ==
  ASSUME NEW T, NEW d \in Seq(T), Stamped(d), NEW known, NEW t \in Int, HourKept(d, known, t)
  PROVE  /\ Young(d, t, Hour) \in Seq(T)
         /\ HourKept(Young(d, t, Hour), known, t)
         /\ \A i \in DOMAIN Young(d, t, Hour) : t - Hour < Young(d, t, Hour)[i].at
<1>0. Hour \in Int /\ InOrderOfTime(d) /\ RequestsPerHour \in Nat
  BY QuotaAssumption DEF HourKept
<1>1. PICK k \in 0 .. Len(d) :
        /\ Young(d, t, Hour) = SubSeq(d, k + 1, Len(d))
        /\ \A i \in 1 .. k : d[i].at <= t - Hour
        /\ \A i \in k + 1 .. Len(d) : t - Hour < d[i].at
  BY <1>0, YoungCuts
<1> DEFINE c == SubSeq(d, k + 1, Len(d))
<1>2. Len(d) \in Nat /\ DOMAIN d = 1 .. Len(d) /\ k \in Nat
  OBVIOUS
<1>3. /\ c \in Seq(T) /\ Len(c) = Len(d) - k /\ DOMAIN c = 1 .. Len(d) - k
      /\ \A i \in 1 .. Len(d) - k : c[i] = d[i + k]
  BY SuffixFacts
<1>4. InOrderOfTime(c)
  BY <1>0, SuffixOfDeque
<1> HIDE DEF c
<1>5. \A i \in DOMAIN c : i + k \in DOMAIN d /\ c[i] = d[i + k] /\ i \in Nat
  BY <1>2, <1>3
<1>6. ASSUME NEW i \in DOMAIN c, NEW j \in DOMAIN c, c[i].id = c[j].id PROVE i = j
  <2>1. i + k = j + k
    BY <1>5, <1>6 DEF HourKept
  <2>2. QED BY <1>2, <1>5, <2>1
<1>7. \A i \in DOMAIN c : c[i] \in known
  BY <1>5 DEF HourKept
<1>8. ASSUME NEW record \in known, t - Hour < record.at
      PROVE  \E i \in DOMAIN c : c[i] = record
  <2>1. PICK j \in DOMAIN d : d[j] = record
    BY <1>8 DEF HourKept
  <2>2. j \notin 1 .. k
    <3>1. d[j].at \in Int
      BY DEF Stamped
    <3>2. ~ (d[j].at <= t - Hour)
      BY <1>0, <1>8, <2>1, <3>1
    <3>3. QED BY <1>1, <3>2
  <2>3. j - k \in DOMAIN c /\ j - k + k = j
    BY <1>2, <1>3, <2>2
  <2>4. QED BY <1>5, <2>1, <2>3
<1>9. Len(c) <= RequestsPerHour
  <2>1. Len(d) <= RequestsPerHour
    BY DEF HourKept
  <2>2. QED BY <1>0, <1>2, <1>3, <2>1
<1>10. \A i \in DOMAIN c : t - Hour < c[i].at
  <2>1. \A i \in DOMAIN c : i + k \in k + 1 .. Len(d)
    BY <1>2, <1>3
  <2>2. QED BY <1>1, <1>5, <2>1
<1>11. HourKept(c, known, t)
  BY <1>4, <1>6, <1>7, <1>8, <1>9 DEF HourKept
<1>12. QED BY <1>1, <1>3, <1>10, <1>11 DEF c

\* A new request is the last of the deque.
LEMMA HourAdmits ==
  ASSUME NEW T, NEW d \in Seq(T), Stamped(d), NEW known, NEW t \in Int, HourKept(d, known, t),
         Len(d) < RequestsPerHour, NEW record \in T, record.at = t,
         \A i \in DOMAIN d : d[i].at <= t,
         \A other \in known : other.id # record.id
  PROVE  HourKept(Append(d, record), known \cup {record}, t)
<1> DEFINE c == Append(d, record)
           n == Len(d) + 1
<1>1. /\ Len(d) \in Nat /\ DOMAIN d = 1 .. Len(d) /\ n \in Nat
      /\ c \in Seq(T) /\ Len(c) = n /\ DOMAIN c = 1 .. n /\ c[n] = record
      /\ \A i \in 1 .. Len(d) : c[i] = d[i]
  OBVIOUS
<1> HIDE DEF c
<1>2. \A i \in DOMAIN c : i = n \/ i \in DOMAIN d
  BY <1>1
<1>3. \A i \in DOMAIN d : c[i] = d[i] /\ i \in DOMAIN c /\ i < n /\ d[i] \in known
  BY <1>1 DEF HourKept
<1>4. ASSUME NEW i \in DOMAIN c, NEW j \in DOMAIN c, i <= j PROVE c[i].at <= c[j].at
  <2>1. CASE j = n
    <3>1. CASE i = n
      BY <1>1, <2>1, <3>1
    <3>2. CASE i \in DOMAIN d
      BY <1>1, <1>3, <2>1, <3>2
    <3>3. QED BY <1>2, <3>1, <3>2
  <2>2. CASE j \in DOMAIN d
    <3>1. i \in DOMAIN d
      BY <1>1, <1>2, <1>4, <2>2
    <3>2. d[i].at <= d[j].at
      BY <1>4, <2>2, <3>1 DEF HourKept, InOrderOfTime
    <3>3. QED BY <1>3, <2>2, <3>1, <3>2
  <2>3. QED BY <1>2, <2>1, <2>2
<1>5. ASSUME NEW i \in DOMAIN c, NEW j \in DOMAIN c, c[i].id = c[j].id PROVE i = j
  <2>1. ASSUME NEW m \in DOMAIN d PROVE c[m].id # c[n].id
    BY <1>1, <1>3
  <2>2. CASE i \in DOMAIN d /\ j \in DOMAIN d
    BY <1>3, <1>5, <2>2 DEF HourKept
  <2>3. QED BY <1>2, <1>5, <2>1, <2>2
<1>6. \A i \in DOMAIN c : c[i] \in known \cup {record}
  BY <1>1, <1>2, <1>3
<1>7. ASSUME NEW other \in known \cup {record}, t - Hour < other.at
      PROVE  \E i \in DOMAIN c : c[i] = other
  <2>1. CASE other = record
    <3>1. n \in DOMAIN c
      BY <1>1
    <3>2. QED BY <1>1, <2>1, <3>1
  <2>2. CASE other \in known
    <3>1. PICK i \in DOMAIN d : d[i] = other
      BY <1>7, <2>2 DEF HourKept
    <3>2. QED BY <1>3, <3>1
  <2>3. QED BY <2>1, <2>2
<1>8. Len(c) <= RequestsPerHour
  <2>1. RequestsPerHour \in Nat
    BY QuotaAssumption
  <2>2. QED BY <1>1, <2>1
<1>9. InOrderOfTime(c)
  BY <1>4 DEF InOrderOfTime
<1>10. HourKept(c, known \cup {record}, t)
  BY <1>5, <1>6, <1>7, <1>8, <1>9 DEF HourKept
<1>11. QED BY <1>10 DEF c

\* What is known of other requests.
KnownWithout(known, id) == {record \in known : record.id # id}

\* A request rolled back is forgotten, wherever it is in the deque.
LEMMA HourRolledBack ==
  ASSUME NEW T, NEW q, q.requests \in Seq(T),
         q = [requests |-> q.requests, tokens |-> q.tokens, reserved |-> q.reserved],
         NEW known, NEW t \in Int, NEW id, HourKept(q.requests, known, t)
  PROVE  /\ RolledBack(q, id).requests \in Seq(T)
         /\ HourKept(RolledBack(q, id).requests, KnownWithout(known, id), t)
<1> DEFINE d == q.requests
           own == {i \in DOMAIN d : d[i].id = id}
           left == KnownWithout(known, id)
<1>1. Len(d) \in Nat /\ DOMAIN d = 1 .. Len(d) /\ d \in Seq(T)
  OBVIOUS
<1>2. RolledBack(q, id).requests
        = IF own = {} THEN d
          ELSE SubSeq(d, 1, Min(own) - 1) \o SubSeq(d, Min(own) + 1, Len(d))
  BY DEF RolledBack
<1>3. CASE own = {}
  <2>1. \A i \in DOMAIN d : d[i].id # id
    BY <1>3
  <2>2. HourKept(d, left, t)
    BY <2>1 DEF HourKept, KnownWithout
  <2>3. QED BY <1>1, <1>2, <1>3, <2>2
<1>4. CASE own # {}
  <2>1. PICK m \in own : TRUE
    BY <1>4
  <2>2. own = {m} /\ m \in DOMAIN d /\ d[m].id = id
    BY <2>1 DEF HourKept
  <2>3. Min(own) = m
    <3>1. m \in Int /\ m <= m
      BY <1>1, <2>2
    <3>2. Min(own) = CHOOSE x \in own : \A y \in own : x <= y
      BY DEF Min
    <3> HIDE DEF own
    <3>3. QED BY <2>2, <3>1, <3>2
  <2> DEFINE c == SubSeq(d, 1, m - 1) \o SubSeq(d, m + 1, Len(d))
  <2>4. RolledBack(q, id).requests = c
    BY <1>2, <1>4, <2>3
  <2> HIDE DEF own
  <2>5. c \in Seq(T) /\ c = [k \in 1 .. Len(d) - 1 |-> IF k < m THEN d[k] ELSE d[k + 1]]
    BY <1>1, <2>2, CutFacts
  <2> HIDE DEF c
  <2>6. DOMAIN c = 1 .. Len(d) - 1 /\ Len(c) = Len(d) - 1 /\ m \in 1 .. Len(d)
    BY <1>1, <2>2, <2>5
  <2> DEFINE From(k) == IF k < m THEN k ELSE k + 1
  <2>7. ASSUME NEW k \in DOMAIN c
        PROVE  From(k) \in DOMAIN d /\ From(k) # m /\ c[k] = d[From(k)] /\ k \in Nat
    BY <1>1, <2>5, <2>6
  <2>8. ASSUME NEW j \in DOMAIN d, j # m PROVE \E k \in DOMAIN c : From(k) = j
    <3>1. CASE j < m
      <4>1. j \in DOMAIN c
        BY <1>1, <2>6, <3>1
      <4>2. QED BY <3>1, <4>1
    <3>2. CASE ~(j < m)
      <4>1. j - 1 \in DOMAIN c /\ ~(j - 1 < m) /\ j - 1 + 1 = j
        BY <1>1, <2>6, <2>8, <3>2
      <4>2. QED BY <4>1
    <3>3. QED BY <3>1, <3>2
  <2>9. \A i, j \in DOMAIN c : i <= j <=> From(i) <= From(j)
    <3>1. SUFFICES ASSUME NEW i \in DOMAIN c, NEW j \in DOMAIN c
                   PROVE  i <= j <=> From(i) <= From(j)
      OBVIOUS
    <3>2. i \in Nat /\ j \in Nat /\ m \in Nat
      BY <2>6, <2>7
    <3>3. QED BY <3>2
  <2>10. \A i, j \in DOMAIN c : From(i) = From(j) => i = j
    <3>1. SUFFICES ASSUME NEW i \in DOMAIN c, NEW j \in DOMAIN c, From(i) = From(j)
                   PROVE  i = j
      OBVIOUS
    <3>2. i \in Nat /\ j \in Nat /\ m \in Nat
      BY <2>6, <2>7
    <3>3. QED BY <3>1, <3>2
  <2> HIDE DEF From
  <2>11. InOrderOfTime(c)
    <3> SUFFICES ASSUME NEW i \in DOMAIN c, NEW j \in DOMAIN c, i <= j
                 PROVE  c[i].at <= c[j].at
      BY DEF InOrderOfTime
    <3>1. From(i) \in DOMAIN d /\ From(j) \in DOMAIN d /\ From(i) <= From(j)
      BY <2>7, <2>9
    <3>2. d[From(i)].at <= d[From(j)].at
      BY <3>1 DEF HourKept, InOrderOfTime
    <3>3. QED BY <2>7, <3>2
  <2>12. ASSUME NEW i \in DOMAIN c, NEW j \in DOMAIN c, c[i].id = c[j].id PROVE i = j
    <3>1. From(i) = From(j)
      BY <2>7, <2>12 DEF HourKept
    <3>2. QED BY <2>10, <3>1
  <2>13. ASSUME NEW i \in DOMAIN c PROVE c[i] \in left
    <3>1. c[i] \in known /\ From(i) \in DOMAIN d /\ From(i) # m /\ c[i] = d[From(i)]
      BY <2>7 DEF HourKept
    <3>2. d[From(i)].id # id
      BY <2>2, <3>1 DEF HourKept
    <3>3. QED BY <3>1, <3>2 DEF KnownWithout
  <2>14. ASSUME NEW record \in left, t - Hour < record.at
         PROVE  \E i \in DOMAIN c : c[i] = record
    <3>1. PICK j \in DOMAIN d : d[j] = record
      BY <2>14 DEF HourKept, KnownWithout
    <3>2. j # m
      BY <2>2, <2>14, <3>1 DEF KnownWithout
    <3>3. PICK k \in DOMAIN c : From(k) = j
      BY <2>8, <3>2
    <3>4. QED BY <2>7, <3>1, <3>3
  <2>15. Len(c) <= RequestsPerHour
    <3>1. RequestsPerHour \in Nat /\ Len(d) <= RequestsPerHour
      BY QuotaAssumption DEF HourKept
    <3>2. QED BY <1>1, <2>6, <3>1
  <2> HIDE DEF left, d
  <2>16. HourKept(c, left, t)
    BY <2>11, <2>12, <2>13, <2>14, <2>15 DEF HourKept
  <2>17. QED BY <2>4, <2>5, <2>16 DEF left, d
<1>5. QED BY <1>3, <1>4

\* The requests of the hour that ends at t.
Recent(known, t) == {record \in known : t - Hour < record.at}

\* There are at most as many as the deque is long, and as many if it is pruned.
LEMMA HourCounts ==
  ASSUME NEW T, NEW d \in Seq(T), NEW known, NEW t \in Int, HourKept(d, known, t)
  PROVE  /\ IsFiniteSet(Recent(known, t))
         /\ Cardinality(Recent(known, t)) <= Len(d)
         /\ (\A i \in DOMAIN d : t - Hour < d[i].at) => Cardinality(Recent(known, t)) = Len(d)
<1> DEFINE R == Recent(known, t)
           P == {i \in DOMAIN d : t - Hour < d[i].at}
           f == [i \in P |-> d[i]]
<1>1. Len(d) \in Nat /\ DOMAIN d = 1 .. Len(d)
  OBVIOUS
<1>2. IsFiniteSet(1 .. Len(d)) /\ Cardinality(1 .. Len(d)) = Len(d)
  BY <1>1, FirstNumbers
<1>3. IsFiniteSet(P) /\ Cardinality(P) <= Len(d)
  BY <1>1, <1>2, FS_Subset
<1>4. f \in Bijection(P, R)
  <2>1. f \in [P -> R]
    BY DEF HourKept, Recent
  <2>2. \A i, j \in P : f[i] = f[j] => i = j
    BY DEF HourKept
  <2>3. \A record \in R : \E i \in P : f[i] = record
    BY DEF HourKept, Recent
  <2> HIDE DEF P, R, f
  <2>4. QED BY <2>1, <2>2, <2>3 DEF Bijection, Injection, Surjection, IsInjective
<1> HIDE DEF f, R
<1>5. IsFiniteSet(R) /\ Cardinality(R) = Cardinality(P)
  <2>1. ExistsBijection(P, R)
    BY <1>4 DEF ExistsBijection
  <2> HIDE DEF P
  <2>2. QED BY <1>3, <2>1, FS_Bijection
<1>6. (\A i \in DOMAIN d : t - Hour < d[i].at) => P = DOMAIN d
  OBVIOUS
<1> HIDE DEF P
<1>7. QED BY <1>1, <1>2, <1>3, <1>5, <1>6 DEF R

-----------------------------------------------------------------------------
(* The deque of settlements.                                               *)

\* What the settlements in paid spent after time w.
SpentAfter(paid, w) == SumFunction([record \in {s \in paid : w < s.at} |-> record.count])

\* The deque s of settlements knows for every time of the day that ends at t
\* what those in paid spent after it.  Which record is whose it does not know,
\* and settlements of nothing it leaves out.
DayKept(s, paid, t) ==
  /\ InOrderOfTime(s)
  /\ \A w \in Int : t - Day <= w => TotalAfter(s, w) = SpentAfter(paid, w)

\* Pruning changes no sum of the day.
LEMMA DayPruned ==
  ASSUME NEW T, NEW s \in Seq(T), Stamped(s), Counted(s), NEW paid, NEW t \in Int,
         DayKept(s, paid, t)
  PROVE  /\ Young(s, t, Day) \in Seq(T)
         /\ Counted(Young(s, t, Day)) /\ Stamped(Young(s, t, Day))
         /\ DayKept(Young(s, t, Day), paid, t)
         /\ \A i \in DOMAIN Young(s, t, Day) : t - Day < Young(s, t, Day)[i].at
<1>0. Day \in Int /\ InOrderOfTime(s)
  BY QuotaAssumption DEF DayKept
<1>1. PICK k \in 0 .. Len(s) :
        /\ Young(s, t, Day) = SubSeq(s, k + 1, Len(s))
        /\ \A i \in 1 .. k : s[i].at <= t - Day
        /\ \A i \in k + 1 .. Len(s) : t - Day < s[i].at
  BY <1>0, YoungCuts
<1> DEFINE c == SubSeq(s, k + 1, Len(s))
<1>2. Len(s) \in Nat /\ DOMAIN s = 1 .. Len(s) /\ k \in Nat
  OBVIOUS
<1>3. /\ c \in Seq(T) /\ DOMAIN c = 1 .. Len(s) - k
      /\ \A i \in 1 .. Len(s) - k : c[i] = s[i + k]
  BY SuffixFacts
<1>4. InOrderOfTime(c) /\ Counted(c) /\ Stamped(c)
  BY <1>0, SuffixOfDeque
<1>5. ASSUME NEW w \in Int, t - Day <= w
      PROVE  TotalAfter(c, w) = SpentAfter(paid, w)
  <2>1. ASSUME NEW i \in 1 .. k PROVE s[i].at <= w
    <3>1. i \in DOMAIN s /\ s[i].at <= t - Day
      BY <1>1, <1>2
    <3>2. s[i].at \in Int
      BY <3>1 DEF Stamped
    <3>3. QED BY <1>0, <1>5, <3>1, <3>2
  <2>2. TotalAfter(c, w) = TotalAfter(s, w)
    BY <2>1, SuffixTotalAfter
  <2>3. QED BY <1>5, <2>2 DEF DayKept
<1> HIDE DEF c
<1>6. \A i \in DOMAIN c : t - Day < c[i].at
  <2>1. \A i \in DOMAIN c : i + k \in k + 1 .. Len(s) /\ c[i] = s[i + k]
    BY <1>2, <1>3
  <2>2. QED BY <1>1, <2>1
<1>7. DayKept(c, paid, t)
  BY <1>4, <1>5 DEF DayKept
<1>8. QED BY <1>1, <1>3, <1>4, <1>6, <1>7 DEF c

\* A pruned deque adds up to what was spent in the day.
LEMMA DayCounts ==
  ASSUME NEW s, NEW paid, NEW t \in Int, DayKept(s, paid, t),
         \A i \in DOMAIN s : t - Day < s[i].at
  PROVE  Total(s) = SpentAfter(paid, t - Day)
<1>1. t - Day \in Int /\ t - Day <= t - Day
  BY QuotaAssumption
<1>2. TotalAfter(s, t - Day) = SpentAfter(paid, t - Day)
  BY <1>1 DEF DayKept
<1>3. TotalAfter(s, t - Day) = Total(s)
  BY TotalOfYoung
<1>4. QED BY <1>2, <1>3

\* Settlements as the history keeps them.
Settlements(paid) ==
  /\ IsFiniteSet(paid)
  /\ \A record \in paid : record.at \in Int /\ record.count \in Nat

\* One more settlement counts after every time before it.
LEMMA SpentGrows ==
  ASSUME NEW paid, Settlements(paid), NEW record, record \notin paid,
         record.at \in Int, record.count \in Nat, NEW w \in Int
  PROVE  /\ SpentAfter(paid, w) \in Nat
         /\ SpentAfter(paid \cup {record}, w)
              = SpentAfter(paid, w) + (IF w < record.at THEN record.count ELSE 0)
<1> DEFINE S == {r \in paid : w < r.at}
           f == [r \in S |-> r.count]
           U == {r \in paid \cup {record} : w < r.at}
           g == [r \in U |-> r.count]
<1>1. IsFiniteSet(S) /\ f \in [S -> Nat] /\ record \notin S
  <2>1. S \in SUBSET paid
    OBVIOUS
  <2>2. IsFiniteSet(S)
    BY <2>1, FS_Subset DEF Settlements
  <2>3. QED BY <2>2 DEF Settlements
<1>2. SpentAfter(paid, w) = SumFunction(f) /\ SpentAfter(paid \cup {record}, w) = SumFunction(g)
  BY DEF SpentAfter
<1>3. SumFunction(f) \in Nat
  <2> HIDE DEF f, S
  <2>1. QED BY <1>1, SumType
<1>4. CASE w < record.at
  <2>1. U = S \cup {record}
    BY <1>4
  <2>2. g \in [S \cup {record} -> Nat] /\ (\A y \in S : g[y] = f[y]) /\ g[record] = record.count
    BY <1>1, <2>1 DEF Settlements
  <2> HIDE DEF f, g, S, U
  <2>3. SumFunction(g) = SumFunction(f) + g[record]
    BY <1>1, <2>2, SumExtend
  <2>4. QED BY <1>2, <1>3, <1>4, <2>2, <2>3
<1>5. CASE ~(w < record.at)
  <2>1. U = S
    BY <1>5
  <2>2. g = f
    BY <2>1
  <2> HIDE DEF f, g, S, U
  <2>3. QED BY <1>2, <1>3, <1>5, <2>2
<1>6. QED BY <1>4, <1>5

\* And so does a new record of the deque.
LEMMA TotalGrows ==
  ASSUME NEW T, NEW s \in Seq(T), Stamped(s), Counted(s), NEW record \in T,
         record.at \in Int, record.count \in Nat, NEW w \in Int
  PROVE  TotalAfter(Append(s, record), w)
           = TotalAfter(s, w) + (IF w < record.at THEN record.count ELSE 0)
<1> DEFINE c == Append(s, record)
           n == Len(s) + 1
           S == {i \in DOMAIN s : w < s[i].at}
           f == [i \in S |-> s[i].count]
           U == {i \in DOMAIN c : w < c[i].at}
           g == [i \in U |-> c[i].count]
<1>1. /\ Len(s) \in Nat /\ DOMAIN s = 1 .. Len(s) /\ n \in Nat
      /\ DOMAIN c = 1 .. n /\ c[n] = record
      /\ \A i \in 1 .. Len(s) : c[i] = s[i]
  OBVIOUS
<1>2. TotalAfter(s, w) = SumFunction(f) /\ TotalAfter(c, w) = SumFunction(g)
  BY DEF TotalAfter
<1> HIDE DEF c
<1>3. DOMAIN c = DOMAIN s \cup {n} /\ n \notin DOMAIN s /\ \A i \in DOMAIN s : c[i] = s[i]
  BY <1>1
<1>4. IsFiniteSet(S) /\ f \in [S -> Nat] /\ n \notin S
  <2>1. S \in SUBSET DOMAIN s
    OBVIOUS
  <2> HIDE DEF S
  <2>2. IsFiniteSet(S) /\ [i \in S |-> s[i].count] \in [S -> Nat]
    BY <2>1, SumAtFacts
  <2>3. QED BY <1>3, <2>1, <2>2
<1>5. SumFunction(f) \in Nat
  <2> HIDE DEF f, S
  <2>1. QED BY <1>4, SumType
<1>6. CASE w < record.at
  <2>1. U = S \cup {n}
    BY <1>1, <1>3, <1>6
  <2>2. \A i \in U : c[i].count \in Nat
    BY <1>1, <1>3, <2>1 DEF Counted
  <2>3. SumAt(c, S) = SumFunction(f) /\ SumAt(c, U) = SumFunction(g)
    <3>1. [i \in S |-> c[i].count] = f
      BY <1>3
    <3>2. QED BY <3>1 DEF SumAt
  <2> HIDE DEF f, g, S, U, n
  <2>4. SumAt(c, U) = SumAt(c, S) + c[n].count
    BY <1>4, <2>1, <2>2, SumAtExtend
  <2>5. QED BY <1>1, <1>2, <1>6, <2>3, <2>4 DEF c
<1>7. CASE ~(w < record.at)
  <2>1. U = S
    BY <1>1, <1>3, <1>7
  <2>2. g = f
    BY <1>3, <2>1
  <2> HIDE DEF f, g, S, U, n
  <2>3. QED BY <1>2, <1>5, <1>7, <2>2 DEF c
<1>8. QED BY <1>6, <1>7

\* A settlement goes to the end of the deque, unless it is of nothing.
LEMMA DaySettles ==
  ASSUME NEW T, NEW s \in Seq(T), Stamped(s), Counted(s), NEW paid, Settlements(paid),
         NEW t \in Int, NEW count \in Nat, [at |-> t, count |-> count] \in T,
         \A i \in DOMAIN s : s[i].at <= t,
         NEW record, record \notin paid, record.at = t, record.count = count,
         DayKept(s, paid, t)
  PROVE  DayKept(IF count > 0 THEN Append(s, [at |-> t, count |-> count]) ELSE s,
                 paid \cup {record}, t)
<1> DEFINE new == [at |-> t, count |-> count]
           c == IF count > 0 THEN Append(s, new) ELSE s
<1>1. new \in T /\ new.at = t /\ new.count = count
  OBVIOUS
<1> HIDE DEF new
<1>2. ASSUME NEW w \in Int, t - Day <= w
      PROVE  TotalAfter(c, w) = SpentAfter(paid \cup {record}, w)
  <2>1. TotalAfter(s, w) = SpentAfter(paid, w)
    BY <1>2 DEF DayKept
  <2>2. /\ SpentAfter(paid, w) \in Nat
        /\ SpentAfter(paid \cup {record}, w)
             = SpentAfter(paid, w) + (IF w < t THEN count ELSE 0)
    BY SpentGrows
  <2>3. CASE count > 0
    <3>1. TotalAfter(Append(s, new), w) = TotalAfter(s, w) + (IF w < t THEN count ELSE 0)
      BY <1>1, TotalGrows
    <3>2. QED BY <2>1, <2>2, <2>3, <3>1
  <2>4. CASE ~(count > 0)
    <3>1. count = 0
      BY <2>4
    <3>2. (IF w < t THEN count ELSE 0) = 0
      BY <3>1
    <3>3. QED BY <2>1, <2>2, <2>4, <3>2
  <2>5. QED BY <2>3, <2>4
<1>3. InOrderOfTime(c)
  <2>1. CASE ~(count > 0)
    BY <2>1 DEF DayKept
  <2>2. CASE count > 0
    <3> DEFINE n == Len(s) + 1
               a == Append(s, new)
    <3>1. /\ Len(s) \in Nat /\ DOMAIN s = 1 .. Len(s) /\ DOMAIN a = 1 .. n /\ a[n] = new
          /\ \A i \in 1 .. Len(s) : a[i] = s[i]
      BY <1>1
    <3> HIDE DEF a
    <3>2. SUFFICES ASSUME NEW i \in DOMAIN a, NEW j \in DOMAIN a, i <= j
                   PROVE  a[i].at <= a[j].at
      BY <2>2 DEF InOrderOfTime, a
    <3>3. CASE j = n
      <4>1. CASE i = n
        BY <1>1, <3>1, <3>3, <4>1
      <4>2. CASE i # n
        <5>1. i \in DOMAIN s
          BY <3>1, <4>2
        <5>2. QED BY <1>1, <3>1, <3>3, <5>1
      <4>3. QED BY <4>1, <4>2
    <3>4. CASE j # n
      <4>1. i \in DOMAIN s /\ j \in DOMAIN s
        BY <3>1, <3>2, <3>4
      <4>2. s[i].at <= s[j].at
        BY <3>2, <4>1 DEF DayKept, InOrderOfTime
      <4>3. QED BY <3>1, <4>1, <4>2
    <3>5. QED BY <3>3, <3>4
  <2>3. QED BY <2>1, <2>2
<1> HIDE DEF c
<1>4. DayKept(c, paid \cup {record}, t)
  BY <1>2, <1>3 DEF DayKept
<1>5. QED BY <1>4 DEF c, new

-----------------------------------------------------------------------------
(* The windows, as functions of the history.                               *)

\* The requests of the hour, and what the settlements of the day spent, that
\* end at t.
InHour(known, t) == {record \in known : t - Hour < record.at /\ record.at <= t}

InDay(paid, t) ==
  SumFunction([record \in {s \in paid : t - Day < s.at /\ s.at <= t} |-> record.count])

HourBound(known, t) == \A u \in 0 .. t : Cardinality(InHour(known, u)) <= RequestsPerHour

DayBound(paid, t) == \A u \in 0 .. t : InDay(paid, u) <= TokensPerDay

\* Nothing of the history is in the future.
Past(records, t) == IsFiniteSet(records) /\ \A record \in records : record.at \in 0 .. t

\* No earlier hour ends with a new request, and the last one is given.
LEMMA HourBoundAdmits ==
  ASSUME NEW known, NEW t \in Nat, Past(known, t), HourBound(known, t),
         NEW record, record.at = t, IsFiniteSet(Recent(known \cup {record}, t)),
         Cardinality(Recent(known \cup {record}, t)) <= RequestsPerHour
  PROVE  HourBound(known \cup {record}, t)
<1> DEFINE more == known \cup {record}
<1>0. Hour \in Int /\ RequestsPerHour \in Nat
  BY QuotaAssumption
<1>1. SUFFICES ASSUME NEW u \in 0 .. t PROVE Cardinality(InHour(more, u)) <= RequestsPerHour
  BY DEF HourBound
<1>2. CASE u = t
  <2>1. InHour(more, u) \in SUBSET Recent(more, t)
    BY <1>2 DEF InHour, Recent
  <2> HIDE DEF more
  <2>2. Cardinality(InHour(more, u)) <= Cardinality(Recent(more, t)) /\ IsFiniteSet(InHour(more, u))
    BY <2>1, FS_Subset DEF more
  <2>3. Cardinality(InHour(more, u)) \in Nat /\ Cardinality(Recent(more, t)) \in Nat
    BY <2>2, FS_CardinalityType DEF more
  <2>4. QED BY <1>0, <2>2, <2>3 DEF more
<1>3. CASE u # t
  <2>1. ~ (record.at <= u)
    BY <1>3
  <2>2. InHour(more, u) = InHour(known, u)
    BY <2>1 DEF InHour
  <2>3. QED BY <2>2 DEF HourBound
<1>4. QED BY <1>2, <1>3

\* What is forgotten does not count.
LEMMA HourBoundSubset ==
  ASSUME NEW known, NEW t \in Nat, Past(known, t), HourBound(known, t), NEW left \in SUBSET known
  PROVE  HourBound(left, t) /\ Past(left, t)
<1>1. ASSUME NEW u \in 0 .. t PROVE Cardinality(InHour(left, u)) <= RequestsPerHour
  <2>1. InHour(left, u) \in SUBSET InHour(known, u) /\ InHour(known, u) \in SUBSET known
    BY DEF InHour
  <2>2. IsFiniteSet(known)
    BY DEF Past
  <2>3. IsFiniteSet(InHour(known, u))
    BY <2>1, <2>2, FS_Subset
  <2>4. /\ IsFiniteSet(InHour(left, u))
        /\ Cardinality(InHour(left, u)) <= Cardinality(InHour(known, u))
    BY <2>1, <2>3, FS_Subset
  <2>5. Cardinality(InHour(left, u)) \in Nat /\ Cardinality(InHour(known, u)) \in Nat
    BY <2>3, <2>4, FS_CardinalityType
  <2>6. Cardinality(InHour(known, u)) <= RequestsPerHour /\ RequestsPerHour \in Nat
    BY QuotaAssumption DEF HourBound
  <2>7. QED BY <2>4, <2>5, <2>6
<1>2. Past(left, t)
  <2>1. IsFiniteSet(left)
    BY FS_Subset DEF Past
  <2>2. QED BY <2>1 DEF Past
<1>3. QED BY <1>1, <1>2 DEF HourBound

\* The hour that ends a tick later holds no request more.
LEMMA HourBoundTicks ==
  ASSUME NEW known, NEW t \in Nat, Past(known, t), HourBound(known, t)
  PROVE  HourBound(known, t + 1) /\ Past(known, t + 1)
<1>0. Hour \in Int /\ RequestsPerHour \in Nat
  BY QuotaAssumption
<1>1. ASSUME NEW u \in 0 .. t + 1 PROVE Cardinality(InHour(known, u)) <= RequestsPerHour
  <2>1. CASE u \in 0 .. t
    BY <2>1 DEF HourBound
  <2>2. CASE u = t + 1
    <3>1. ASSUME NEW record \in InHour(known, u) PROVE record \in InHour(known, t)
      <4>1. record \in known /\ record.at \in 0 .. t /\ u - Hour < record.at
        BY DEF InHour, Past
      <4>2. t - Hour < record.at /\ record.at <= t
        BY <1>0, <2>2, <4>1
      <4>3. QED BY <4>1, <4>2 DEF InHour
    <3>2. InHour(known, u) \in SUBSET InHour(known, t) /\ InHour(known, t) \in SUBSET known
      BY <3>1 DEF InHour
    <3>3. IsFiniteSet(InHour(known, t))
      BY <3>2, FS_Subset DEF Past
    <3>4. /\ IsFiniteSet(InHour(known, u))
          /\ Cardinality(InHour(known, u)) <= Cardinality(InHour(known, t))
      BY <3>2, <3>3, FS_Subset
    <3>5. Cardinality(InHour(known, u)) \in Nat /\ Cardinality(InHour(known, t)) \in Nat
      BY <3>3, <3>4, FS_CardinalityType
    <3>6. t \in 0 .. t
      OBVIOUS
    <3>7. Cardinality(InHour(known, t)) <= RequestsPerHour
      BY <3>6 DEF HourBound
    <3>8. QED BY <1>0, <3>4, <3>5, <3>7
  <2>3. QED BY <2>1, <2>2
<1>2. Past(known, t + 1)
  <2>1. 0 .. t \subseteq 0 .. t + 1
    OBVIOUS
  <2>2. QED BY <2>1 DEF Past
<1>3. QED BY <1>1, <1>2 DEF HourBound

\* The hour that ends now.
LEMMA InHourNow ==
  ASSUME NEW known, NEW t \in Nat, Past(known, t)
  PROVE  InHour(known, t) = Recent(known, t)
BY DEF InHour, Recent, Past

\* The day that ends now.
LEMMA InDayNow ==
  ASSUME NEW paid, NEW t \in Nat, Past(paid, t)
  PROVE  InDay(paid, t) = SpentAfter(paid, t - Day)
<1>1. {s \in paid : t - Day < s.at /\ s.at <= t} = {s \in paid : t - Day < s.at}
  BY DEF Past
<1>2. QED BY <1>1 DEF InDay, SpentAfter

\* Sums over days are numbers.
LEMMA InDayType ==
  ASSUME NEW paid, Settlements(paid), NEW t \in Nat
  PROVE  InDay(paid, t) \in Nat
<1> DEFINE S == {s \in paid : t - Day < s.at /\ s.at <= t}
           f == [record \in S |-> record.count]
<1>1. S \in SUBSET paid /\ f \in [S -> Nat]
  BY DEF Settlements
<1>2. InDay(paid, t) = SumFunction(f)
  BY DEF InDay
<1> HIDE DEF S, f
<1>3. IsFiniteSet(S)
  BY <1>1, FS_Subset DEF Settlements
<1>4. QED BY <1>1, <1>2, <1>3, SumType

\* A new settlement, at time t.
Settling(paid, record, t) ==
  /\ Settlements(paid) /\ t \in Nat /\ Past(paid, t)
  /\ record \notin paid /\ record.at = t /\ record.count \in Nat

\* A settlement counts in the day that ends with it.
LEMMA InDaySettles ==
  ASSUME NEW paid, NEW record, NEW t, Settling(paid, record, t)
  PROVE  InDay(paid \cup {record}, t) = InDay(paid, t) + record.count
<1>0. /\ Settlements(paid) /\ t \in Nat /\ Past(paid, t)
      /\ record \notin paid /\ record.at = t /\ record.count \in Nat
  BY DEF Settling
<1>1. Day \in Nat /\ t - Day \in Int /\ t - Day < t
  BY <1>0, QuotaAssumption
<1>2. /\ SpentAfter(paid, t - Day) \in Nat
      /\ SpentAfter(paid \cup {record}, t - Day)
           = SpentAfter(paid, t - Day) + (IF t - Day < record.at THEN record.count ELSE 0)
  <2>1. PICK w \in Int : w = t - Day
    BY <1>1
  <2>2. record.at \in Int
    BY <1>0
  <2>3. /\ SpentAfter(paid, w) \in Nat
        /\ SpentAfter(paid \cup {record}, w)
             = SpentAfter(paid, w) + (IF w < record.at THEN record.count ELSE 0)
    BY <1>0, <2>2, SpentGrows
  <2>4. QED BY <2>1, <2>3
<1>3. Past(paid \cup {record}, t)
  <2>1. IsFiniteSet(paid \cup {record})
    BY <1>0, FS_AddElement DEF Past
  <2>2. QED BY <1>0, <2>1 DEF Past
<1>4. /\ InDay(paid, t) = SpentAfter(paid, t - Day)
      /\ InDay(paid \cup {record}, t) = SpentAfter(paid \cup {record}, t - Day)
  BY <1>0, <1>3, InDayNow
<1>5. QED BY <1>0, <1>1, <1>2, <1>4

\* The days that ended before it do not change.
LEMMA InDayBefore ==
  ASSUME NEW paid, NEW record, NEW t, Settling(paid, record, t), NEW u, u \in 0 .. t, u # t
  PROVE  InDay(paid \cup {record}, u) = InDay(paid, u)
<1>1. ~ (record.at <= u)
  BY DEF Settling
<1>2. {s \in paid \cup {record} : u - Day < s.at /\ s.at <= u} = {s \in paid : u - Day < s.at /\ s.at <= u}
  BY <1>1
<1>3. QED BY <1>2 DEF InDay

\* The day that ends a tick later spent no token more.
LEMMA InDayTicks ==
  ASSUME NEW paid, Settlements(paid), NEW t \in Nat, Past(paid, t), NEW u, u = t + 1
  PROVE  InDay(paid, u) <= InDay(paid, t)
<1> DEFINE S == {s \in paid : u - Day < s.at /\ s.at <= u}
           T == {s \in paid : t - Day < s.at /\ s.at <= t}
           f == [record \in S |-> record.count]
           g == [record \in T |-> record.count]
<1>1. S \in SUBSET T /\ T \in SUBSET paid
  <2>1. ASSUME NEW s \in S PROVE s \in T
    <3>1. s \in paid /\ s.at \in 0 .. t /\ u - Day < s.at /\ Day \in Nat
      BY QuotaAssumption DEF Past
    <3>2. t - Day < s.at /\ s.at <= t
      BY <3>1
    <3>3. QED BY <3>1, <3>2
  <2>2. QED BY <2>1
<1>2. f \in [S -> Nat] /\ g \in [T -> Nat] /\ \A x \in S : f[x] <= g[x]
  BY <1>1 DEF Settlements
<1>3. InDay(paid, u) = SumFunction(f) /\ InDay(paid, t) = SumFunction(g)
  BY DEF InDay
<1> HIDE DEF S, T, f, g
<1>4. IsFiniteSet(T)
  BY <1>1, FS_Subset DEF Settlements
<1>5. SumFunction(f) <= SumFunction(g)
  BY <1>1, <1>2, <1>4, SumMonotone
<1>6. QED BY <1>3, <1>5

\* The reservations of a set of leases.
Reservations(reserved, open) == IsFiniteSet(open) /\ reserved \in [open -> Nat]

\* One more reservation.
LEMMA ReservationAdds ==
  ASSUME NEW reserved, NEW open, Reservations(reserved, open), NEW id, id \notin open,
         NEW maximum \in Nat, NEW more,
         more = [other \in open \cup {id} |-> IF other = id THEN maximum ELSE reserved[other]]
  PROVE  /\ Reservations(more, open \cup {id})
         /\ SumFunction(reserved) \in Nat
         /\ SumFunction(more) = SumFunction(reserved) + maximum
<1> DEFINE U == open \cup {id}
<1>1. IsFiniteSet(U)
  BY FS_AddElement DEF Reservations
<1>2. more \in [U -> Nat] /\ more[id] = maximum /\ \A y \in open : more[y] = reserved[y]
  BY DEF Reservations
<1>3. OneMore(U, more, open, reserved, id)
  BY <1>2 DEF Reservations, OneMore
<1> HIDE DEF U
<1>4. SumFunction(more) = SumFunction(reserved) + more[id]
  BY <1>3, SumOneMore
<1>5. SumFunction(reserved) \in Nat
  BY SumType DEF Reservations
<1>6. QED BY <1>1, <1>2, <1>4, <1>5 DEF Reservations, U

\* One reservation less.
LEMMA ReservationGoes ==
  ASSUME NEW reserved, NEW open, Reservations(reserved, open), NEW id \in open
  PROVE  /\ Reservations(Unreserved(reserved, id), open \ {id})
         /\ SumFunction(Unreserved(reserved, id)) \in Nat
         /\ SumFunction(reserved) = SumFunction(Unreserved(reserved, id)) + reserved[id]
<1> DEFINE left == Unreserved(reserved, id)
           S == open \ {id}
<1>1. IsFiniteSet(S)
  BY FS_RemoveElement DEF Reservations
<1>2. left \in [S -> Nat] /\ \A y \in S : reserved[y] = left[y]
  BY DEF Reservations, Unreserved
<1>3. open = S \cup {id} /\ id \notin S
  OBVIOUS
<1> HIDE DEF S, left
<1>4. OneMore(open, reserved, S, left, id)
  BY <1>1, <1>2, <1>3 DEF Reservations, OneMore
<1>5. SumFunction(reserved) = SumFunction(left) + reserved[id]
  BY <1>4, SumOneMore
<1>6. SumFunction(left) \in Nat
  BY <1>1, <1>2, SumType
<1>7. QED BY <1>1, <1>2, <1>5, <1>6 DEF Reservations, S, left

-----------------------------------------------------------------------------
(* The inductive invariant.                                                *)

\* The requests that hold a reservation.
Open == {id \in Requests : lease[id] = "open"}

RequestRecords == [id : Requests, at : 0 .. now]
TokenRecords == [at : 0 .. now, count : Nat]

Quotas == [requests : Seq(RequestRecords), tokens : Seq(TokenRecords), reserved : [Open -> Nat]]

Typed ==
  /\ now \in Nat
  /\ lease \in [Requests -> {"none", "open", "final"}]
  /\ quota \in Quotas
  /\ IsFiniteSet(Open)
  /\ accepted \subseteq RequestRecords /\ IsFiniteSet(accepted)
  /\ spent \subseteq [id : Requests, at : 0 .. now, count : Nat] /\ IsFiniteSet(spent)

\* What a lease says of the history: a request is let in once, and settled once.
UsedOnce ==
  /\ \A record \in accepted : lease[record.id] # "none"
  /\ \A record \in spent : lease[record.id] = "final"

QuotaInvariant ==
  /\ Typed
  /\ UsedOnce
  /\ HourKept(quota.requests, accepted, now)
  /\ DayKept(quota.tokens, spent, now)
  /\ WindowsRespected

\* The windows of the model are those of the lemmas.
LEMMA WindowsAre ==
  WindowsRespected <=> /\ HourBound(accepted, now)
                       /\ DayBound(spent, now)
                       /\ InDay(spent, now) + SumFunction(quota.reserved) <= TokensPerDay
BY DEF WindowsRespected, RequestsIn, SpentIn, Promised, HourBound, DayBound, InHour, InDay

\* What Typed says in the words of the lemmas.
LEMMA TypedFacts ==
  ASSUME Typed
  PROVE  /\ now \in Nat /\ now \in Int
         /\ quota.requests \in Seq(RequestRecords) /\ Stamped(quota.requests)
         /\ \A i \in DOMAIN quota.requests : quota.requests[i].at \in 0 .. now
         /\ quota.tokens \in Seq(TokenRecords) /\ Stamped(quota.tokens) /\ Counted(quota.tokens)
         /\ \A i \in DOMAIN quota.tokens : quota.tokens[i].at \in 0 .. now
         /\ Reservations(quota.reserved, Open) /\ DOMAIN quota.reserved = Open
         /\ Past(accepted, now) /\ Past(spent, now) /\ Settlements(spent)
<1>1. now \in Nat /\ now \in Int /\ quota \in Quotas /\ IsFiniteSet(Open)
  BY DEF Typed
<1>2. /\ quota.requests \in Seq(RequestRecords) /\ quota.tokens \in Seq(TokenRecords)
      /\ quota.reserved \in [Open -> Nat]
  BY <1>1 DEF Quotas
<1>3. ASSUME NEW i \in DOMAIN quota.requests PROVE quota.requests[i].at \in 0 .. now
  <2>1. quota.requests[i] \in RequestRecords
    <3>1. i \in 1 .. Len(quota.requests)
      BY <1>2
    <3>2. QED BY <1>2, <3>1, ElementOfSeq
  <2>2. QED BY <2>1 DEF RequestRecords
<1>4. ASSUME NEW i \in DOMAIN quota.tokens
      PROVE  quota.tokens[i].at \in 0 .. now /\ quota.tokens[i].count \in Nat
  <2>1. quota.tokens[i] \in TokenRecords
    <3>1. i \in 1 .. Len(quota.tokens)
      BY <1>2
    <3>2. QED BY <1>2, <3>1, ElementOfSeq
  <2>2. QED BY <2>1 DEF TokenRecords
<1>5. Stamped(quota.requests)
  <2>1. \A x \in 0 .. now : x \in Int
    OBVIOUS
  <2>2. QED BY <1>3, <2>1 DEF Stamped
<1>6. Stamped(quota.tokens) /\ Counted(quota.tokens)
  <2>1. \A x \in 0 .. now : x \in Int
    OBVIOUS
  <2>2. QED BY <1>4, <2>1 DEF Stamped, Counted
<1>7. Reservations(quota.reserved, Open) /\ DOMAIN quota.reserved = Open
  BY <1>1, <1>2 DEF Reservations
<1>8. Past(accepted, now)
  <2>1. \A record \in accepted : record.at \in 0 .. now
    BY DEF Typed, RequestRecords
  <2>2. QED BY <2>1 DEF Past, Typed
<1>9. \A record \in spent : record.at \in 0 .. now /\ record.count \in Nat
  BY DEF Typed
<1>10. Past(spent, now)
  BY <1>9 DEF Past, Typed
<1>11. Settlements(spent)
  <2>1. \A x \in 0 .. now : x \in Int
    OBVIOUS
  <2>2. QED BY <1>9, <2>1 DEF Settlements, Typed
<1>12. QED BY <1>1, <1>2, <1>3, <1>4, <1>5, <1>6, <1>7, <1>8, <1>10, <1>11

\* q is the quota without what has expired: it says of both windows what the
\* history does.
Fresh(q) ==
  /\ q \in Quotas /\ q.reserved = quota.reserved
  /\ Stamped(q.requests) /\ Stamped(q.tokens) /\ Counted(q.tokens)
  /\ HourKept(q.requests, accepted, now) /\ DayKept(q.tokens, spent, now)
  /\ Len(q.requests) = Cardinality(InHour(accepted, now))
  /\ Total(q.tokens) = InDay(spent, now)
  /\ \A i \in DOMAIN q.requests : q.requests[i].at \in 0 .. now
  /\ \A i \in DOMAIN q.tokens : q.tokens[i].at \in 0 .. now

\* Pruning from the heads is enough.
LEMMA PrunedIsFresh ==
  ASSUME QuotaInvariant
  PROVE  Fresh(Pruned(quota, now))
<1> DEFINE r == Young(quota.requests, now, Hour)
           s == Young(quota.tokens, now, Day)
<1>1. /\ Typed /\ HourKept(quota.requests, accepted, now) /\ DayKept(quota.tokens, spent, now)
      /\ quota \in Quotas
  BY DEF QuotaInvariant, Typed
<1>2. Pruned(quota, now) = [quota EXCEPT !.requests = r, !.tokens = s]
  BY DEF Pruned
<1>3. /\ r \in Seq(RequestRecords) /\ HourKept(r, accepted, now)
      /\ \A i \in DOMAIN r : now - Hour < r[i].at
  BY <1>1, TypedFacts, HourPruned
<1>4. /\ s \in Seq(TokenRecords) /\ Counted(s) /\ Stamped(s) /\ DayKept(s, spent, now)
      /\ \A i \in DOMAIN s : now - Day < s[i].at
  BY <1>1, TypedFacts, DayPruned
<1> DEFINE q == Pruned(quota, now)
<1> HIDE DEF r, s
<1>5. q \in Quotas /\ q.requests = r /\ q.tokens = s /\ q.reserved = quota.reserved
  BY <1>1, <1>2, <1>3, <1>4 DEF Quotas
<1>6. Cardinality(Recent(accepted, now)) = Len(r)
  BY <1>1, <1>3, TypedFacts, HourCounts
<1>7. InHour(accepted, now) = Recent(accepted, now)
  BY <1>1, TypedFacts, InHourNow
<1>8. Total(s) = SpentAfter(spent, now - Day)
  BY <1>1, <1>4, TypedFacts, DayCounts
<1>9. InDay(spent, now) = SpentAfter(spent, now - Day)
  BY <1>1, TypedFacts, InDayNow
<1>10. ASSUME NEW i \in DOMAIN r PROVE r[i].at \in 0 .. now
  <2>1. r[i] \in RequestRecords
    <3>1. i \in 1 .. Len(r)
      BY <1>3
    <3>2. QED BY <1>3, <3>1, ElementOfSeq
  <2>2. QED BY <2>1 DEF RequestRecords
<1>11. ASSUME NEW i \in DOMAIN s PROVE s[i].at \in 0 .. now
  <2>1. s[i] \in TokenRecords
    <3>1. i \in 1 .. Len(s)
      BY <1>4
    <3>2. QED BY <1>4, <3>1, ElementOfSeq
  <2>2. QED BY <2>1 DEF TokenRecords
<1>12. Stamped(r)
  <2>1. \A x \in 0 .. now : x \in Int
    BY <1>1, TypedFacts
  <2>2. QED BY <1>10, <2>1 DEF Stamped
<1> HIDE DEF q
<1>13. Fresh(q)
  BY <1>3, <1>4, <1>5, <1>6, <1>7, <1>8, <1>9, <1>10, <1>11, <1>12 DEF Fresh
<1>14. QED BY <1>13 DEF q

\* Nothing has happened yet.
LEMMA QuotaInitSound == QuotaInit => QuotaInvariant
<1> SUFFICES ASSUME QuotaInit PROVE QuotaInvariant
  OBVIOUS
<1> DEFINE none == {}
<1>1. /\ quota = NewQuota /\ now = 0 /\ lease = [id \in Requests |-> "none"]
      /\ accepted = none /\ spent = none
  BY DEF QuotaInit
<1>2. /\ quota.requests = <<>> /\ quota.tokens = <<>> /\ quota.reserved = <<>>
      /\ DOMAIN quota.requests = {} /\ DOMAIN quota.tokens = {} /\ DOMAIN quota.reserved = {}
      /\ Len(quota.requests) = 0 /\ quota = [requests |-> <<>>, tokens |-> <<>>, reserved |-> <<>>]
  BY <1>1 DEF NewQuota
<1>3. Open = none
  BY <1>1 DEF Open
<1>4. IsFiniteSet(none) /\ Cardinality(none) = 0
  BY FS_EmptySet
<1>5. \A f : f \in [none -> Nat] => SumFunction(f) = 0
  BY SumEmpty
<1>6. RequestsPerHour \in Nat /\ TokensPerDay \in Nat
  BY QuotaAssumption
<1>7. Typed
  <2>1. <<>> \in Seq(RequestRecords) /\ <<>> \in Seq(TokenRecords)
    OBVIOUS
  <2>2. <<>> \in [none -> Nat]
    OBVIOUS
  <2>3. quota \in Quotas
    BY <1>2, <1>3, <2>1, <2>2 DEF Quotas
  <2>4. QED BY <1>1, <1>3, <1>4, <2>3 DEF Typed
<1>8. UsedOnce
  BY <1>1 DEF UsedOnce
<1>9. HourKept(quota.requests, accepted, now)
  BY <1>1, <1>2, <1>6 DEF HourKept, InOrderOfTime
<1>10. \A w : TotalAfter(quota.tokens, w) = 0
  <2>1. SUFFICES ASSUME NEW w PROVE TotalAfter(quota.tokens, w) = 0
    OBVIOUS
  <2> DEFINE S == {k \in DOMAIN quota.tokens : w < quota.tokens[k].at}
             f == [i \in S |-> quota.tokens[i].count]
  <2>2. S = none
    BY <1>2
  <2>3. f \in [none -> Nat] /\ TotalAfter(quota.tokens, w) = SumFunction(f)
    BY <2>2 DEF TotalAfter
  <2> HIDE DEF f
  <2>4. QED BY <1>5, <2>3
<1>11. \A w : SpentAfter(spent, w) = 0
  <2>1. SUFFICES ASSUME NEW w PROVE SpentAfter(spent, w) = 0
    OBVIOUS
  <2> DEFINE S == {r \in spent : w < r.at}
             f == [r \in S |-> r.count]
  <2>2. S = none
    BY <1>1
  <2>3. f \in [none -> Nat] /\ SpentAfter(spent, w) = SumFunction(f)
    BY <2>2 DEF SpentAfter
  <2> HIDE DEF f
  <2>4. QED BY <1>5, <2>3
<1>12. DayKept(quota.tokens, spent, now)
  BY <1>2, <1>10, <1>11 DEF DayKept, InOrderOfTime
<1>13. \A u : InHour(accepted, u) = none
  BY <1>1 DEF InHour
<1>14. \A u : InDay(spent, u) = 0
  <2>1. SUFFICES ASSUME NEW u PROVE InDay(spent, u) = 0
    OBVIOUS
  <2> DEFINE S == {r \in spent : u - Day < r.at /\ r.at <= u}
             f == [r \in S |-> r.count]
  <2>2. S = none
    BY <1>1
  <2>3. f \in [none -> Nat] /\ InDay(spent, u) = SumFunction(f)
    BY <2>2 DEF InDay
  <2> HIDE DEF f
  <2>4. QED BY <1>5, <2>3
<1>15. SumFunction(quota.reserved) = 0
  <2>1. quota.reserved \in [none -> Nat]
    BY <1>2
  <2>2. QED BY <1>5, <2>1
<1> HIDE DEF none
<1>16. HourBound(accepted, now) /\ DayBound(spent, now)
  BY <1>4, <1>6, <1>13, <1>14 DEF HourBound, DayBound
<1>17. InDay(spent, now) + SumFunction(quota.reserved) <= TokensPerDay
  BY <1>6, <1>14, <1>15
<1>18. WindowsRespected
  BY <1>16, <1>17, WindowsAre
<1>19. QED BY <1>7, <1>8, <1>9, <1>12, <1>18 DEF QuotaInvariant

-----------------------------------------------------------------------------
(* Every step preserves it.                                                *)

\* The windows after a step, written with what the invariants say of it.
LEMMA WindowsAreNext ==
  WindowsRespected' <=> /\ HourBound(accepted', now')
                        /\ DayBound(spent', now')
                        /\ InDay(spent', now') + SumFunction(quota'.reserved) <= TokensPerDay
BY DEF WindowsRespected, RequestsIn, SpentIn, Promised, HourBound, DayBound, InHour, InDay

\* The inductive invariant of a state, from its parts in that state.
LEMMA IInvNext ==
  ASSUME Typed', UsedOnce', HourKept(quota'.requests, accepted', now'),
         DayKept(quota'.tokens, spent', now'),
         HourBound(accepted', now'), DayBound(spent', now'),
         InDay(spent', now') + SumFunction(quota'.reserved) <= TokensPerDay
  PROVE  QuotaInvariant'
BY WindowsAreNext DEF QuotaInvariant

\* The sums of the invariant are numbers.
LEMMA SumFacts ==
  ASSUME QuotaInvariant
  PROVE  /\ InDay(spent, now) \in Nat /\ SumFunction(quota.reserved) \in Nat
         /\ TokensPerDay \in Nat /\ RequestsPerHour \in Nat
         /\ HourBound(accepted, now) /\ DayBound(spent, now)
         /\ InDay(spent, now) + SumFunction(quota.reserved) <= TokensPerDay
<1>1. Typed /\ WindowsRespected
  BY DEF QuotaInvariant
<1>2. InDay(spent, now) \in Nat
  BY <1>1, TypedFacts, InDayType
<1>3. SumFunction(quota.reserved) \in Nat
  BY <1>1, TypedFacts, SumType DEF Reservations
<1>4. QED BY <1>1, <1>2, <1>3, WindowsAre, QuotaAssumption

\* A refused request prunes.
LEMMA RefusedKeeps ==
  ASSUME QuotaInvariant, NEW q, Fresh(q), quota' = q, UNCHANGED <<now, lease, accepted, spent>>
  PROVE  QuotaInvariant'
<1>1. Typed /\ UsedOnce /\ now' = now /\ accepted' = accepted /\ spent' = spent /\ lease' = lease
  BY DEF QuotaInvariant
<1>2. Typed'
  BY <1>1 DEF Typed, Quotas, RequestRecords, TokenRecords, Open, Fresh
<1>3. UsedOnce'
  BY <1>1 DEF UsedOnce
<1>4. HourKept(quota'.requests, accepted', now') /\ DayKept(quota'.tokens, spent', now')
  BY <1>1 DEF Fresh
<1>5. quota'.reserved = quota.reserved
  BY DEF Fresh
<1>6. HourBound(accepted', now') /\ DayBound(spent', now')
  BY <1>1, SumFacts
<1>7. InDay(spent', now') + SumFunction(quota'.reserved) <= TokensPerDay
  BY <1>1, <1>5, SumFacts
<1>8. QED BY <1>2, <1>3, <1>4, <1>6, <1>7, IInvNext

\* A request let in is the last of the hour, and reserves what is left of the day.
LEMMA AdmittedKeeps ==
  ASSUME QuotaInvariant, NEW q, Fresh(q), NEW id \in Requests, NEW maximum \in Nat, lease[id] = "none",
         ~ Refused(q, maximum), quota' = Admitted(q, id, maximum, now),
         lease' = [lease EXCEPT ![id] = "open"],
         accepted' = accepted \cup {[id |-> id, at |-> now]},
         UNCHANGED <<now, spent>>
  PROVE  QuotaInvariant'
<1> DEFINE record == [id |-> id, at |-> now]
           known == accepted \cup {record}
           more == [other \in DOMAIN q.reserved \cup {id} |->
                      IF other = id THEN maximum ELSE q.reserved[other]]
           d == Append(q.requests, record)
<1>1. Typed /\ UsedOnce /\ now' = now /\ spent' = spent /\ accepted' = known
  BY DEF QuotaInvariant
<1>2. record \in RequestRecords /\ record.id = id /\ record.at = now
  BY <1>1, TypedFacts DEF RequestRecords
<1>3. /\ quota' = [q EXCEPT !.requests = Append(@, record), !.reserved = more]
      /\ q \in Quotas /\ q.reserved = quota.reserved
  BY DEF Admitted, Fresh
<1>4. /\ q.requests \in Seq(RequestRecords) /\ q.tokens \in Seq(TokenRecords)
  BY <1>3 DEF Quotas
<1>5. /\ quota'.requests = d /\ quota'.tokens = q.tokens /\ quota'.reserved = more
      /\ quota' = [requests |-> d, tokens |-> q.tokens, reserved |-> more]
  BY <1>3 DEF Quotas
<1> HIDE DEF more, record
<1>6. /\ Open' = Open \cup {id} /\ id \notin Open /\ lease' \in [Requests -> {"none", "open", "final"}]
  BY <1>1 DEF Open, Typed
<1>7. more = [other \in Open \cup {id} |-> IF other = id THEN maximum ELSE quota.reserved[other]]
  BY <1>1, <1>3, TypedFacts DEF more
<1>8. Reservations(quota.reserved, Open)
  BY <1>1, TypedFacts
<1>9. /\ Reservations(more, Open \cup {id})
      /\ SumFunction(quota.reserved) \in Nat
      /\ SumFunction(more) = SumFunction(quota.reserved) + maximum
  <2>1. id \notin Open /\ maximum \in Nat
    BY <1>6
  <2> DEFINE old == quota.reserved
  <2>2. Reservations(old, Open)
    BY <1>8
  <2>3. more = [other \in Open \cup {id} |-> IF other = id THEN maximum ELSE old[other]]
    BY <1>7
  <2> HIDE DEF old
  <2>4. /\ Reservations(more, Open \cup {id})
        /\ SumFunction(old) \in Nat
        /\ SumFunction(more) = SumFunction(old) + maximum
    BY <2>1, <2>2, <2>3, ReservationAdds
  <2>5. QED BY <2>4 DEF old
<1>10. Len(q.requests) < RequestsPerHour
  <2>1. Len(q.requests) \in Nat /\ ~ (Len(q.requests) >= RequestsPerHour)
    BY <1>4 DEF Refused, TooManyRequests
  <2>2. QED BY <2>1, SumFacts
<1>11. InDay(spent, now) + SumFunction(quota.reserved) + maximum <= TokensPerDay
  <2>1. ~ (InDay(spent, now) + SumFunction(quota.reserved) + maximum - TokensPerDay > 0)
    BY <1>3 DEF Refused, Excess, Promised, Fresh
  <2>2. QED BY <2>1, SumFacts
<1>12. \A other \in accepted : other.id # record.id
  BY <1>1, <1>2 DEF UsedOnce
<1>13. HourKept(d, known, now)
  <2>1. \A i \in DOMAIN q.requests : q.requests[i].at <= now
    BY <1>1, TypedFacts DEF Fresh
  <2>2. now \in Int /\ Stamped(q.requests) /\ HourKept(q.requests, accepted, now)
    BY <1>1, TypedFacts DEF Fresh
  <2>3. QED BY <1>2, <1>4, <1>10, <1>12, <2>1, <2>2, HourAdmits
<1>14. Typed'
  <2>1. d \in Seq(RequestRecords)
    BY <1>2, <1>4
  <2>2. more \in [Open' -> Nat] /\ IsFiniteSet(Open')
    BY <1>6, <1>9 DEF Reservations
  <2>3. RequestRecords' = RequestRecords /\ TokenRecords' = TokenRecords
    BY <1>1 DEF RequestRecords, TokenRecords
  <2> HIDE DEF d
  <2>4. quota' \in Quotas'
    BY <1>4, <1>5, <2>1, <2>2, <2>3 DEF Quotas
  <2>5. known \subseteq RequestRecords /\ IsFiniteSet(known)
    BY <1>1, <1>2, FS_AddElement DEF Typed
  <2> HIDE DEF known
  <2>6. QED BY <1>1, <1>6, <2>2, <2>3, <2>4, <2>5 DEF Typed
<1>15. UsedOnce'
  <2>1. ASSUME NEW other \in known PROVE lease'[other.id] # "none"
    <3>1. CASE other = record
      BY <1>1, <1>2, <3>1 DEF Typed
    <3>2. CASE other \in accepted
      <4>1. other.id \in Requests /\ lease[other.id] # "none"
        BY <1>1, <3>2 DEF Typed, UsedOnce, RequestRecords
      <4>2. QED BY <1>1, <4>1 DEF Typed
    <3>3. QED BY <3>1, <3>2
  <2>2. ASSUME NEW other \in spent PROVE lease'[other.id] = "final"
    <3>1. other.id \in Requests /\ lease[other.id] = "final"
      BY <1>1 DEF Typed, UsedOnce
    <3>2. QED BY <1>1, <3>1 DEF Typed
  <2> HIDE DEF known
  <2>3. QED BY <1>1, <2>1, <2>2 DEF UsedOnce
<1>16. DayKept(q.tokens, spent, now)
  BY DEF Fresh
<1>17. HourBound(known, now)
  <2>1. d \in Seq(RequestRecords)
    BY <1>2, <1>4
  <2>2. /\ IsFiniteSet(Recent(known, now))
        /\ Cardinality(Recent(known, now)) <= Len(d)
    <3> HIDE DEF known, d
    <3>1. QED BY <1>1, <1>13, <2>1, TypedFacts, HourCounts
  <2>3. Len(d) \in Nat /\ Len(d) <= RequestsPerHour
    BY <1>13, <2>1 DEF HourKept
  <2>4. Cardinality(Recent(known, now)) <= RequestsPerHour
    <3>1. Cardinality(Recent(known, now)) \in Nat
      BY <2>2, FS_CardinalityType
    <3> HIDE DEF known, d
    <3>2. QED BY <2>2, <2>3, <3>1, SumFacts
  <2>5. now \in Nat /\ Past(accepted, now) /\ HourBound(accepted, now)
    BY <1>1, TypedFacts, SumFacts
  <2>6. QED BY <1>2, <2>2, <2>4, <2>5, HourBoundAdmits
<1>18. InDay(spent, now) + SumFunction(more) <= TokensPerDay
  BY <1>9, <1>11, SumFacts
<1> HIDE DEF known, d
<1>19. HourBound(accepted', now') /\ DayBound(spent', now')
  BY <1>1, <1>17, SumFacts
<1>20. QED BY <1>1, <1>5, <1>13, <1>14, <1>15, <1>16, <1>18, <1>19, IInvNext

\* A request rolled back is taken out of history and deque.
LEMMA CancelKeeps ==
  ASSUME QuotaInvariant, NEW id \in Requests, Cancel(id)
  PROVE  QuotaInvariant'
<1> DEFINE known == KnownWithout(accepted, id)
           d == RolledBack(quota, id).requests
           left == Unreserved(quota.reserved, id)
<1>1. /\ Typed /\ UsedOnce /\ now' = now /\ spent' = spent /\ accepted' = known
      /\ lease[id] = "open" /\ lease' = [lease EXCEPT ![id] = "final"]
      /\ quota' = RolledBack(quota, id) /\ quota \in Quotas
  BY DEF QuotaInvariant, Cancel, Typed, KnownWithout
<1>2. /\ d \in Seq(RequestRecords) /\ HourKept(d, known, now)
  <2>1. /\ quota.requests \in Seq(RequestRecords)
        /\ quota = [requests |-> quota.requests, tokens |-> quota.tokens, reserved |-> quota.reserved]
    BY <1>1 DEF Quotas
  <2>2. now \in Int /\ HourKept(quota.requests, accepted, now)
    BY <1>1, TypedFacts DEF QuotaInvariant
  <2>3. QED BY <2>1, <2>2, HourRolledBack
<1>3. /\ quota'.requests = d /\ quota'.tokens = quota.tokens /\ quota'.reserved = left
      /\ quota' = [requests |-> d, tokens |-> quota.tokens, reserved |-> left]
  BY <1>1 DEF RolledBack, Quotas
<1> HIDE DEF d, left
<1>4. Open' = Open \ {id} /\ id \in Open /\ lease' \in [Requests -> {"none", "open", "final"}]
  BY <1>1 DEF Open, Typed
<1>5. Reservations(quota.reserved, Open) /\ quota.reserved[id] \in Nat
  BY <1>1, <1>4, TypedFacts DEF Reservations
<1>6. /\ Reservations(left, Open \ {id}) /\ SumFunction(left) \in Nat
      /\ SumFunction(quota.reserved) = SumFunction(left) + quota.reserved[id]
  BY <1>4, <1>5, ReservationGoes DEF left
<1>7. known \in SUBSET accepted
  BY DEF KnownWithout
<1>8. Typed'
  <2>1. left \in [Open' -> Nat] /\ IsFiniteSet(Open')
    BY <1>4, <1>6 DEF Reservations
  <2>2. RequestRecords' = RequestRecords /\ TokenRecords' = TokenRecords
    BY <1>1 DEF RequestRecords, TokenRecords
  <2>3. quota.tokens \in Seq(TokenRecords)
    BY <1>1, TypedFacts
  <2>4. quota' \in Quotas'
    BY <1>2, <1>3, <2>1, <2>2, <2>3 DEF Quotas
  <2>5. known \subseteq RequestRecords /\ IsFiniteSet(known)
    BY <1>1, <1>7, FS_Subset DEF Typed
  <2> HIDE DEF known
  <2>6. QED BY <1>1, <1>4, <2>1, <2>2, <2>4, <2>5 DEF Typed
<1>9. UsedOnce'
  <2>1. ASSUME NEW other \in known PROVE lease'[other.id] # "none"
    <3>1. other.id \in Requests /\ lease[other.id] # "none"
      BY <1>1, <1>7 DEF Typed, UsedOnce, RequestRecords
    <3>2. QED BY <1>1, <3>1 DEF Typed
  <2>2. ASSUME NEW other \in spent PROVE lease'[other.id] = "final"
    <3>1. other.id \in Requests /\ lease[other.id] = "final"
      BY <1>1 DEF Typed, UsedOnce
    <3>2. QED BY <1>1, <3>1 DEF Typed
  <2> HIDE DEF known
  <2>3. QED BY <1>1, <2>1, <2>2 DEF UsedOnce
<1> HIDE DEF known
<1>10. HourBound(known, now)
  BY <1>1, <1>7, TypedFacts, SumFacts, HourBoundSubset
<1>11. HourBound(accepted', now') /\ DayBound(spent', now') /\ DayKept(quota'.tokens, spent', now')
  BY <1>1, <1>3, <1>10, SumFacts DEF QuotaInvariant
<1>12. InDay(spent', now') + SumFunction(quota'.reserved) <= TokensPerDay
  <2>1. InDay(spent, now) + SumFunction(left) <= TokensPerDay
    BY <1>5, <1>6, SumFacts
  <2>2. QED BY <1>1, <1>3, <2>1
<1>13. HourKept(quota'.requests, accepted', now')
  BY <1>1, <1>2, <1>3
<1>14. QED BY <1>8, <1>9, <1>11, <1>12, <1>13, IInvNext

\* A settlement pays at most what was reserved for it.
LEMMA SettleKeeps ==
  ASSUME QuotaInvariant, NEW id \in Requests, Settle(id)
  PROVE  QuotaInvariant'
<1>0. /\ Typed /\ UsedOnce /\ lease[id] = "open" /\ lease' = [lease EXCEPT ![id] = "final"]
      /\ now' = now /\ accepted' = accepted /\ quota \in Quotas
  BY DEF QuotaInvariant, Settle, Typed
<1>1. id \in Open /\ Open' = Open \ {id} /\ lease' \in [Requests -> {"none", "open", "final"}]
  BY <1>0 DEF Open, Typed
<1>2. Reservations(quota.reserved, Open) /\ quota.reserved[id] \in Nat
  BY <1>0, <1>1, TypedFacts DEF Reservations
<1>3. PICK count \in 0 .. quota.reserved[id] :
        /\ quota' = Settled(quota, id, count, now)
        /\ spent' = spent \cup {[id |-> id, at |-> now, count |-> count]}
  BY DEF Settle
<1> DEFINE new == [at |-> now, count |-> count]
           s == IF count > 0 THEN Append(quota.tokens, new) ELSE quota.tokens
           left == Unreserved(quota.reserved, id)
           record == [id |-> id, at |-> now, count |-> count]
           paid == spent \cup {record}
<1>4. count \in Nat /\ count <= quota.reserved[id] /\ spent' = paid
  BY <1>2, <1>3
<1>5. /\ quota'.requests = quota.requests /\ quota'.tokens = s /\ quota'.reserved = left
      /\ quota' = [requests |-> quota.requests, tokens |-> s, reserved |-> left]
  BY <1>0, <1>3 DEF Settled, Quotas
<1>6. /\ now \in Nat /\ now \in Int /\ quota.tokens \in Seq(TokenRecords) /\ Stamped(quota.tokens)
      /\ Counted(quota.tokens) /\ Settlements(spent) /\ Past(spent, now)
      /\ \A i \in DOMAIN quota.tokens : quota.tokens[i].at <= now
  BY <1>0, TypedFacts
<1>7. new \in TokenRecords /\ s \in Seq(TokenRecords)
  <2>1. new \in TokenRecords
    BY <1>4, <1>6 DEF TokenRecords
  <2>2. QED BY <1>6, <2>1
<1>8. record \notin spent /\ record.at = now /\ record.count = count /\ record.id = id
  BY <1>0 DEF UsedOnce
<1> HIDE DEF left, record
<1>9. DayKept(s, paid, now)
  <2>1. DayKept(quota.tokens, spent, now)
    BY DEF QuotaInvariant
  <2>2. [at |-> now, count |-> count] \in TokenRecords
    BY <1>7
  <2>3. DayKept(IF count > 0 THEN Append(quota.tokens, [at |-> now, count |-> count]) ELSE quota.tokens,
                spent \cup {record}, now)
    BY <1>4, <1>6, <1>8, <2>1, <2>2, DaySettles
  <2>4. QED BY <2>3
<1> HIDE DEF new
<1>10. /\ Reservations(left, Open \ {id}) /\ SumFunction(left) \in Nat
       /\ SumFunction(quota.reserved) = SumFunction(left) + quota.reserved[id]
  BY <1>1, <1>2, ReservationGoes DEF left
<1>11. Typed'
  <2>1. left \in [Open' -> Nat] /\ IsFiniteSet(Open')
    BY <1>1, <1>10 DEF Reservations
  <2>2. RequestRecords' = RequestRecords /\ TokenRecords' = TokenRecords
    BY <1>0 DEF RequestRecords, TokenRecords
  <2>3. quota.requests \in Seq(RequestRecords)
    BY <1>0, TypedFacts
  <2> HIDE DEF s
  <2>4. quota' \in Quotas'
    BY <1>5, <1>7, <2>1, <2>2, <2>3 DEF Quotas
  <2>5. paid \subseteq [id : Requests, at : 0 .. now, count : Nat] /\ IsFiniteSet(paid)
    <3>1. record \in [id : Requests, at : 0 .. now, count : Nat]
      BY <1>4, <1>6 DEF record
    <3>2. QED BY <1>0, <3>1, FS_AddElement DEF Typed
  <2> HIDE DEF paid
  <2>6. QED BY <1>0, <1>1, <1>4, <2>1, <2>2, <2>4, <2>5 DEF Typed
<1>12. UsedOnce'
  <2>1. ASSUME NEW other \in accepted PROVE lease'[other.id] # "none"
    <3>1. other.id \in Requests /\ lease[other.id] # "none"
      BY <1>0 DEF Typed, UsedOnce, RequestRecords
    <3>2. QED BY <1>0, <3>1 DEF Typed
  <2>2. ASSUME NEW other \in paid PROVE lease'[other.id] = "final"
    <3>1. CASE other = record
      BY <1>0, <1>8, <3>1 DEF Typed
    <3>2. CASE other \in spent
      <4>1. other.id \in Requests /\ lease[other.id] = "final"
        BY <1>0, <3>2 DEF Typed, UsedOnce
      <4>2. QED BY <1>0, <4>1 DEF Typed
    <3>3. QED BY <3>1, <3>2
  <2> HIDE DEF paid
  <2>3. QED BY <1>0, <1>4, <2>1, <2>2 DEF UsedOnce
<1>13. /\ InDay(paid, now) = InDay(spent, now) + count
       /\ \A u \in 0 .. now : u # now => InDay(paid, u) = InDay(spent, u)
  <2>1. record.count \in Nat
    BY <1>4, <1>8
  <2> HIDE DEF paid
  <2>2. Settling(spent, record, now)
    BY <1>6, <1>8, <2>1 DEF Settling
  <2>3. InDay(spent \cup {record}, now) = InDay(spent, now) + record.count
    BY <2>2, InDaySettles
  <2>4. ASSUME NEW u \in 0 .. now, u # now
        PROVE  InDay(spent \cup {record}, u) = InDay(spent, u)
    BY <2>2, <2>4, InDayBefore
  <2>5. QED BY <1>8, <2>3, <2>4 DEF paid
<1> HIDE DEF paid, s
<1>14. InDay(paid, now) + SumFunction(left) <= TokensPerDay
  BY <1>2, <1>4, <1>10, <1>13, SumFacts
<1>15. DayBound(paid, now)
  <2>1. ASSUME NEW u \in 0 .. now PROVE InDay(paid, u) <= TokensPerDay
    <3>1. CASE u = now
      <4>1. InDay(paid, now) <= TokensPerDay
        BY <1>4, <1>10, <1>13, <1>14, SumFacts
      <4>2. QED BY <3>1, <4>1
    <3>2. CASE u # now
      BY <1>13, <3>2, SumFacts DEF DayBound
    <3>3. QED BY <3>1, <3>2
  <2>2. QED BY <2>1 DEF DayBound
<1>16. HourBound(accepted', now') /\ DayBound(spent', now') /\ HourKept(quota'.requests, accepted', now')
  BY <1>0, <1>4, <1>5, <1>15, SumFacts DEF QuotaInvariant
<1>17. /\ InDay(spent', now') + SumFunction(quota'.reserved) <= TokensPerDay
       /\ DayKept(quota'.tokens, spent', now')
  BY <1>0, <1>4, <1>5, <1>9, <1>14
<1>18. QED BY <1>11, <1>12, <1>16, <1>17, IInvNext

\* Time alone breaks no limit, and makes no record young.
LEMMA TickKeeps ==
  ASSUME QuotaInvariant, Tick
  PROVE  QuotaInvariant'
<1>1. /\ Typed /\ UsedOnce /\ now' = now + 1 /\ quota' = quota /\ lease' = lease
      /\ accepted' = accepted /\ spent' = spent
      /\ HourKept(quota.requests, accepted, now) /\ DayKept(quota.tokens, spent, now)
  BY DEF QuotaInvariant, Tick
<1>2. now \in Nat /\ 0 .. now \subseteq 0 .. now' /\ Hour \in Int /\ Day \in Int /\ now' \in Nat
  BY <1>1, TypedFacts, QuotaAssumption
<1>3. Typed'
  <2>1. RequestRecords \subseteq RequestRecords' /\ TokenRecords \subseteq TokenRecords' /\ Open' = Open
    BY <1>1, <1>2 DEF RequestRecords, TokenRecords, Open
  <2>2. /\ quota.requests \in Seq(RequestRecords) /\ quota.tokens \in Seq(TokenRecords)
        /\ quota \in [requests : Seq(RequestRecords), tokens : Seq(TokenRecords), reserved : [Open -> Nat]]
    BY <1>1, TypedFacts DEF Typed, Quotas
  <2>3. quota.requests \in Seq(RequestRecords') /\ quota.tokens \in Seq(TokenRecords')
    BY <2>1, <2>2, SeqMonotonic
  <2>4. quota' \in Quotas'
    BY <1>1, <2>1, <2>2, <2>3 DEF Quotas
  <2>5. accepted' \subseteq RequestRecords' /\ IsFiniteSet(accepted')
    BY <1>1, <2>1 DEF Typed
  <2>6. spent' \subseteq [id : Requests, at : 0 .. now', count : Nat] /\ IsFiniteSet(spent')
    BY <1>1, <1>2 DEF Typed
  <2>7. QED BY <1>1, <1>2, <2>1, <2>4, <2>5, <2>6 DEF Typed
<1>4. UsedOnce'
  BY <1>1 DEF UsedOnce
<1>5. HourKept(quota'.requests, accepted', now')
  <2>1. ASSUME NEW record \in accepted, now' - Hour < record.at
        PROVE  now - Hour < record.at
    <3>1. record.at \in Int
      BY <1>1, <1>2, TypedFacts DEF Past
    <3>2. QED BY <1>1, <1>2, <2>1, <3>1
  <2>2. QED BY <1>1, <2>1 DEF HourKept
<1>6. DayKept(quota'.tokens, spent', now')
  <2>1. \A w \in Int : now' - Day <= w => now - Day <= w
    BY <1>1, <1>2
  <2>2. QED BY <1>1, <2>1 DEF DayKept
<1>7. HourBound(accepted', now')
  BY <1>1, <1>2, TypedFacts, SumFacts, HourBoundTicks
<1>8. InDay(spent', now') <= InDay(spent, now)
  BY <1>1, <1>2, TypedFacts, InDayTicks
<1>9. InDay(spent', now') \in Nat
  BY <1>1, <1>2, TypedFacts, InDayType
<1>10. InDay(spent', now') + SumFunction(quota'.reserved) <= TokensPerDay
  BY <1>1, <1>8, <1>9, SumFacts
<1>11. DayBound(spent', now')
  <2>1. ASSUME NEW u \in 0 .. now' PROVE InDay(spent', u) <= TokensPerDay
    <3>1. CASE u \in 0 .. now
      BY <1>1, <3>1, SumFacts DEF DayBound
    <3>2. CASE u = now'
      <4>1. InDay(spent', now') <= TokensPerDay
        BY <1>1, <1>9, <1>10, SumFacts
      <4>2. QED BY <3>2, <4>1
    <3>3. QED BY <1>1, <1>2, <3>1, <3>2
  <2>2. QED BY <2>1 DEF DayBound
<1>12. QED BY <1>3, <1>4, <1>5, <1>6, <1>7, <1>10, <1>11, IInvNext

\* A step that changes nothing.
LEMMA StutterKeeps ==
  ASSUME QuotaInvariant, UNCHANGED quotaVars
  PROVE  QuotaInvariant'
<1>1. /\ now' = now /\ quota' = quota /\ lease' = lease /\ accepted' = accepted /\ spent' = spent
  BY DEF quotaVars
<1>2. Typed'
  BY <1>1 DEF QuotaInvariant, Typed, Quotas, RequestRecords, TokenRecords, Open
<1>3. UsedOnce'
  BY <1>1 DEF QuotaInvariant, UsedOnce
<1>4. HourKept(quota'.requests, accepted', now') /\ DayKept(quota'.tokens, spent', now')
  BY <1>1 DEF QuotaInvariant
<1>5. /\ HourBound(accepted', now') /\ DayBound(spent', now')
      /\ InDay(spent', now') + SumFunction(quota'.reserved) <= TokensPerDay
  BY <1>1, SumFacts
<1>6. QED BY <1>2, <1>3, <1>4, <1>5, IInvNext

\* Every step of the quota.
LEMMA StepSound == QuotaInvariant /\ [QuotaNext]_quotaVars => QuotaInvariant'
<1> SUFFICES ASSUME QuotaInvariant, [QuotaNext]_quotaVars PROVE QuotaInvariant'
  OBVIOUS
<1>1. ASSUME NEW id \in Requests, NEW maximum \in Maxima, Acquire(id, maximum) PROVE QuotaInvariant'
  <2>1. PICK q : q = Pruned(quota, now)
    OBVIOUS
  <2>2. Fresh(q) /\ maximum \in Nat
    BY <2>1, PrunedIsFresh, QuotaAssumption
  <2>3. CASE Refused(q, maximum)
    <3>1. quota' = q /\ UNCHANGED <<now, lease, accepted, spent>>
      BY <1>1, <2>1, <2>3 DEF Acquire
    <3>2. QED BY <2>2, <3>1, RefusedKeeps
  <2>4. CASE ~ Refused(q, maximum)
    <3>1. /\ lease[id] = "none" /\ quota' = Admitted(q, id, maximum, now)
          /\ lease' = [lease EXCEPT ![id] = "open"]
          /\ accepted' = accepted \cup {[id |-> id, at |-> now]}
          /\ UNCHANGED <<now, spent>>
      BY <1>1, <2>1, <2>4 DEF Acquire
    <3>2. QED BY <2>2, <2>4, <3>1, AdmittedKeeps
  <2>5. QED BY <2>3, <2>4
<1>2. ASSUME NEW id \in Requests, Cancel(id) PROVE QuotaInvariant'
  BY <1>2, CancelKeeps
<1>3. ASSUME NEW id \in Requests, Settle(id) PROVE QuotaInvariant'
  BY <1>3, SettleKeeps
<1>4. CASE Tick
  BY <1>4, TickKeeps
<1>5. CASE UNCHANGED quotaVars
  BY <1>5, StutterKeeps
<1>6. QED BY <1>1, <1>2, <1>3, <1>4, <1>5 DEF QuotaNext

-----------------------------------------------------------------------------
(* What follows from it.                                                   *)

\* Pruning lazily decides as the whole history would.
LEMMA RefusalsAreExact == QuotaInvariant => RefusalsExact
<1> SUFFICES ASSUME QuotaInvariant, NEW maximum \in Maxima
             PROVE  Refused(Pruned(quota, now), maximum)
                      <=> \/ Cardinality(RequestsIn(now)) >= RequestsPerHour
                          \/ SpentIn(now) + Promised(quota) + maximum > TokensPerDay
  BY DEF RefusalsExact
<1>1. PICK q : q = Pruned(quota, now)
  OBVIOUS
<1>2. Fresh(q)
  BY <1>1, PrunedIsFresh
<1>3. Len(q.requests) = Cardinality(RequestsIn(now)) /\ Total(q.tokens) = SpentIn(now)
  BY <1>2 DEF Fresh, InHour, InDay, RequestsIn, SpentIn
<1>4. Promised(q) = Promised(quota)
  BY <1>2 DEF Fresh, Promised
<1>5. SpentIn(now) \in Nat /\ Promised(quota) \in Nat
  BY SumFacts DEF SpentIn, InDay, Promised
<1>6. maximum \in Nat /\ TokensPerDay \in Nat
  BY QuotaAssumption
<1>7. Refused(q, maximum)
        <=> \/ Cardinality(RequestsIn(now)) >= RequestsPerHour
            \/ SpentIn(now) + Promised(quota) + maximum - TokensPerDay > 0
  BY <1>3, <1>4 DEF Refused, TooManyRequests, Excess
<1>8. SpentIn(now) + Promised(quota) + maximum - TokensPerDay > 0
        <=> SpentIn(now) + Promised(quota) + maximum > TokensPerDay
  BY <1>5, <1>6
<1>9. QED BY <1>1, <1>7, <1>8

\* The larger of two numbers.
LEMMA MaxOfTwo ==
  ASSUME NEW a \in Int, NEW b \in Int
  PROVE  Max({a, b}) \in Int /\ a <= Max({a, b}) /\ b <= Max({a, b})
<1>1. \E m \in {a, b} : \A n \in {a, b} : m >= n
  <2>1. CASE a <= b
    BY <2>1
  <2>2. CASE ~(a <= b)
    BY <2>2
  <2>3. QED BY <2>1, <2>2
<1>2. Max({a, b}) \in {a, b} /\ \A n \in {a, b} : Max({a, b}) >= n
  BY <1>1 DEF Max
<1>3. QED BY <1>2

\* A part of a deque adds up to no more than the whole.
LEMMA TotalAfterBounds ==
  ASSUME NEW T, NEW s \in Seq(T), Counted(s), NEW w
  PROVE  TotalAfter(s, w) <= Total(s)
<1> DEFINE S == {i \in DOMAIN s : w < s[i].at}
           D == DOMAIN s
           f == [i \in S |-> s[i].count]
           g == [i \in D |-> s[i].count]
<1>1. S \in SUBSET D /\ f \in [S -> Nat] /\ g \in [D -> Nat] /\ \A x \in S : f[x] <= g[x]
  BY DEF Counted
<1>2. TotalAfter(s, w) = SumFunction(f) /\ Total(s) = SumFunction(g)
  BY DEF TotalAfter, Total
<1>3. IsFiniteSet(D)
  <2>1. D = 1 .. Len(s) /\ Len(s) \in Nat
    OBVIOUS
  <2>2. QED BY <2>1, FirstNumbers
<1> HIDE DEF S, D, f, g
<1>4. QED BY <1>1, <1>2, <1>3, SumMonotone

\* When record i of s has expired, at most what follows it is left.
LEMMA ExpiryFrees ==
  ASSUME NEW T, NEW s \in Seq(T), Stamped(s), Counted(s), InOrderOfTime(s),
         NEW t \in Int, NEW i \in DOMAIN s, s[i].at <= t - Day
  PROVE  /\ Total(Young(s, t, Day)) \in Nat
         /\ Total(Young(s, t, Day)) + Total(SubSeq(s, 1, i)) <= Total(s)
<1>1. Day \in Int /\ Len(s) \in Nat /\ DOMAIN s = 1 .. Len(s) /\ i \in 0 .. Len(s)
  BY QuotaAssumption
<1>2. PICK w \in Int : w = t - Day
  BY <1>1
<1>3. PICK k \in 0 .. Len(s) :
        /\ Young(s, t, Day) = SubSeq(s, k + 1, Len(s))
        /\ \A j \in 1 .. k : s[j].at <= w
        /\ \A j \in k + 1 .. Len(s) : w < s[j].at
  BY <1>1, <1>2, YoungCuts
<1> DEFINE c == SubSeq(s, k + 1, Len(s))
           rest == SubSeq(s, i + 1, Len(s))
           first == SubSeq(s, 1, i)
<1>4. TotalAfter(c, w) = TotalAfter(s, w)
  BY <1>3, SuffixTotalAfter
<1>5. TotalAfter(rest, w) = TotalAfter(s, w)
  <2>1. ASSUME NEW j \in 1 .. i PROVE s[j].at <= w
    <3>1. j \in DOMAIN s /\ j <= i
      BY <1>1
    <3>2. s[j].at <= s[i].at /\ s[j].at \in Int /\ s[i].at \in Int
      BY <3>1 DEF InOrderOfTime, Stamped
    <3>3. QED BY <1>2, <3>2
  <2>2. QED BY <1>1, <2>1, SuffixTotalAfter
<1>6. TotalAfter(c, w) = Total(c)
  <2>1. /\ DOMAIN c = 1 .. Len(s) - k /\ \A j \in 1 .. Len(s) - k : c[j] = s[j + k]
    BY SuffixFacts
  <2> HIDE DEF c
  <2>2. ASSUME NEW j \in DOMAIN c PROVE w < c[j].at
    <3>1. j + k \in k + 1 .. Len(s) /\ c[j] = s[j + k]
      BY <1>1, <2>1
    <3>2. QED BY <1>3, <3>1
  <2>3. QED BY <2>2, TotalOfYoung
<1>7. TotalAfter(rest, w) <= Total(rest)
  <2>1. rest \in Seq(T) /\ Counted(rest)
    BY <1>1, SuffixFacts, SuffixOfDeque
  <2> HIDE DEF rest
  <2>2. QED BY <2>1, TotalAfterBounds
<1>8. /\ Total(first) \in Nat /\ Total(rest) \in Nat /\ Total(s) = Total(first) + Total(rest)
  BY <1>1, TotalSplits
<1>9. Total(c) \in Nat
  BY TotalSplits
<1> HIDE DEF c, rest, first
<1>10. Total(c) + Total(first) <= Total(s)
  BY <1>4, <1>5, <1>6, <1>7, <1>8, <1>9
<1>11. QED BY <1>3, <1>9, <1>10 DEF c, first

\* When the oldest request has expired, there is room in the hour.
LEMMA HourRetry ==
  ASSUME QuotaInvariant, NEW q, Fresh(q), TooManyRequests(q), NEW maximum
  PROVE  ~ TooManyRequests(Pruned(q, now + RetryAfter(q, maximum, now)))
<1> DEFINE s == q.requests
           d == RetryAfter(q, maximum, now)
<1>1. /\ now \in Int /\ Hour \in Int /\ RequestsPerHour \in Nat /\ RequestsPerHour # 0
      /\ s \in Seq(RequestRecords) /\ Stamped(s) /\ InOrderOfTime(s)
      /\ Len(s) \in Nat /\ DOMAIN s = 1 .. Len(s) /\ Len(s) <= RequestsPerHour
  <2>1. s \in Seq(RequestRecords)
    BY DEF Fresh, Quotas
  <2>2. now \in Int
    BY TypedFacts DEF QuotaInvariant
  <2>3. QED BY <2>1, <2>2, QuotaAssumption DEF Fresh, HourKept
<1>2. Len(s) >= RequestsPerHour
  BY DEF TooManyRequests
<1>3. 1 \in DOMAIN s /\ s[1].at \in Int
  BY <1>1, <1>2 DEF Stamped
<1>4. d = Max({1, s[1].at + Hour - now})
  BY DEF RetryAfter
<1>5. PICK due \in Int : due = s[1].at + Hour - now
  BY <1>1, <1>3
<1>6. d \in Int /\ due <= d
  <2>1. Max({1, due}) \in Int /\ due <= Max({1, due})
    BY MaxOfTwo
  <2>2. QED BY <1>4, <1>5, <2>1
<1> HIDE DEF d, s
<1>7. now + d \in Int /\ s[1].at <= now + d - Hour
  BY <1>1, <1>3, <1>5, <1>6
<1>8. PICK later \in Int : later = now + d
  BY <1>7
<1>9. PICK k \in 0 .. Len(s) :
        /\ Young(s, later, Hour) = SubSeq(s, k + 1, Len(s))
        /\ \A j \in k + 1 .. Len(s) : later - Hour < s[j].at
  BY <1>1, YoungCuts
<1>10. k # 0
  <2>1. SUFFICES ASSUME k = 0 PROVE FALSE
    OBVIOUS
  <2>2. 1 \in k + 1 .. Len(s)
    BY <1>1, <1>3, <2>1
  <2>3. later - Hour < s[1].at
    BY <1>9, <2>2
  <2>4. QED BY <1>1, <1>3, <1>6, <1>7, <1>8, <2>3
<1>11. Len(Young(s, later, Hour)) = Len(s) - k
  BY <1>1, <1>9, SuffixFacts
<1>12. ~ (Len(Young(s, later, Hour)) >= RequestsPerHour)
  BY <1>1, <1>10, <1>11
<1>13. Pruned(q, later).requests = Young(s, later, Hour)
  BY DEF Pruned, s, Fresh, Quotas
<1>14. QED BY <1>8, <1>12, <1>13 DEF TooManyRequests, d

\* When the records have expired that were asked to, the reservation fits.
LEMMA DayRetry ==
  ASSUME QuotaInvariant, NEW q, Fresh(q), ~ TooManyRequests(q), NEW maximum \in Nat,
         Promised(q) + maximum <= TokensPerDay
  PROVE  Excess(Pruned(q, now + RetryAfter(q, maximum, now)), maximum) <= 0
<1> DEFINE s == q.tokens
           d == RetryAfter(q, maximum, now)
           excess == Excess(q, maximum)
           enough == {i \in DOMAIN s : Total(SubSeq(s, 1, i)) >= excess}
<1>1. /\ now \in Int /\ Day \in Int /\ TokensPerDay \in Nat
      /\ s \in Seq(TokenRecords) /\ Stamped(s) /\ Counted(s) /\ InOrderOfTime(s)
      /\ Len(s) \in Nat /\ DOMAIN s = 1 .. Len(s)
  <2>1. s \in Seq(TokenRecords)
    BY DEF Fresh, Quotas
  <2>2. now \in Int
    BY TypedFacts DEF QuotaInvariant
  <2>3. QED BY <2>1, <2>2, QuotaAssumption DEF Fresh, DayKept
<1>2. Promised(q) \in Nat /\ Total(s) \in Nat
  <2>1. Promised(q) \in Nat
    BY SumFacts DEF Promised, Fresh
  <2>2. 0 \in 0 .. Len(s)
    BY <1>1
  <2>3. QED BY <1>1, <2>1, <2>2, TotalSplits
<1>3. excess = Total(s) + Promised(q) + maximum - TokensPerDay
  BY DEF Excess
<1>4. d = IF enough = {} THEN 1 ELSE Max({1, s[Min(enough)].at + Day - now})
  BY DEF RetryAfter
<1>5. excess \in Int
  BY <1>1, <1>2, <1>3
<1>6. \A t : /\ Excess(Pruned(q, t), maximum) = Total(Young(s, t, Day)) + Promised(q) + maximum - TokensPerDay
  BY DEF Excess, Pruned, Promised, Fresh, Quotas
<1> HIDE DEF s, d, excess
<1>7. CASE enough = {}
  <2>1. d = 1
    BY <1>4, <1>7
  <2>2. Len(s) = 0
    <3>1. SUFFICES ASSUME Len(s) # 0 PROVE FALSE
      OBVIOUS
    <3>2. Len(s) \in DOMAIN s
      BY <1>1, <3>1
    <3>3. SubSeq(s, 1, Len(s)) = s
      BY <1>1, SubSeqFull
    <3>4. Total(s) >= excess
      BY <1>1, <1>2, <1>3
    <3>5. Len(s) \in enough
      BY <3>2, <3>3, <3>4
    <3>6. QED BY <1>7, <3>5
  <2>3. PICK later \in Int : later = now + d
    BY <1>1, <2>1
  <2>4. Young(s, later, Day) = s
    <3>1. s = <<>> /\ DOMAIN s = {}
      BY <1>1, <2>2
    <3>2. QED BY <3>1 DEF Young
  <2>5. Total(s) = 0
    <3> DEFINE f == [i \in DOMAIN s |-> s[i].count]
               none == {}
    <3>1. f \in [none -> Nat] /\ Total(s) = SumFunction(f)
      BY <1>1, <2>2 DEF Total
    <3> HIDE DEF f
    <3>2. QED BY <3>1, SumEmpty
  <2>6. Total(Young(s, later, Day)) + Promised(q) + maximum - TokensPerDay <= 0
    BY <1>1, <1>2, <2>4, <2>5
  <2>7. QED BY <1>6, <2>3, <2>6 DEF d
<1>8. CASE enough # {}
  <2>1. enough \in SUBSET Nat
    BY <1>1
  <2>2. \E m \in enough : \A j \in enough : m <= j
    BY <1>8, <2>1, LeastNumber
  <2>3. PICK i : i = Min(enough)
    OBVIOUS
  <2>4. i \in enough
    BY <2>2, <2>3 DEF Min
  <2>5. i \in DOMAIN s /\ Total(SubSeq(s, 1, i)) >= excess /\ s[i].at \in Int
    BY <1>1, <2>4 DEF Stamped
  <2>6. PICK due \in Int : due = s[i].at + Day - now
    BY <1>1, <2>5
  <2> HIDE DEF enough
  <2>7. d \in Int /\ due <= d
    <3>1. Max({1, due}) \in Int /\ due <= Max({1, due})
      BY MaxOfTwo
    <3>2. QED BY <1>4, <1>8, <2>3, <2>6, <3>1
  <2>8. PICK later \in Int : later = now + d
    BY <1>1, <2>7
  <2>9. s[i].at <= later - Day
    BY <1>1, <2>5, <2>6, <2>7, <2>8
  <2>10. /\ Total(Young(s, later, Day)) \in Nat
         /\ Total(Young(s, later, Day)) + Total(SubSeq(s, 1, i)) <= Total(s)
    BY <1>1, <2>5, <2>9, ExpiryFrees
  <2>11. Total(SubSeq(s, 1, i)) \in Nat
    <3>1. i \in 0 .. Len(s)
      BY <1>1, <2>5
    <3>2. QED BY <1>1, <3>1, TotalSplits
  <2>12. Total(Young(s, later, Day)) + Promised(q) + maximum - TokensPerDay <= 0
    BY <1>1, <1>2, <1>3, <1>5, <2>5, <2>10, <2>11, SMTT(30)
  <2>13. QED BY <1>6, <2>8, <2>12 DEF d
<1>9. QED BY <1>7, <1>8

\* Retry-After is long enough.
LEMMA RetryAfterSuffices == QuotaInvariant => RetryAfterEnough
<1> SUFFICES ASSUME QuotaInvariant PROVE RetryAfterEnough
  OBVIOUS
<1>1. PICK q : q = Pruned(quota, now)
  OBVIOUS
<1>2. Fresh(q)
  BY <1>1, PrunedIsFresh
<1>3. ASSUME NEW maximum \in Maxima
      PROVE  LET later == Pruned(q, now + RetryAfter(q, maximum, now))
             IN  /\ TooManyRequests(q) => ~TooManyRequests(later)
                 /\ ~TooManyRequests(q) /\ Promised(q) + maximum <= TokensPerDay
                      => Excess(later, maximum) <= 0
  <2>1. maximum \in Nat
    BY QuotaAssumption
  <2>2. QED BY <1>2, <2>1, HourRetry, DayRetry
<1>4. QED BY <1>1, <1>3 DEF RetryAfterEnough

\* In every reachable state the deques know of both windows what the whole
\* history does.
THEOREM QuotaAlwaysSound == QuotaSpec => []QuotaInvariant
<1>1. QuotaInvariant /\ UNCHANGED quotaVars => QuotaInvariant'
  BY StutterKeeps
<1>2. QED BY QuotaInitSound, StepSound, PTL DEF QuotaSpec

\* In no hour are more requests let in, and in no day more tokens paid for,
\* than the policy says (_GlobalQuota of public_demo.py): for any requests,
\* reservations, limits and lengths of the windows, whatever is refused, rolled
\* back or settled when.
THEOREM WindowsAlwaysRespected == QuotaSpec => []WindowsRespected
<1>1. QuotaInvariant => WindowsRespected
  BY DEF QuotaInvariant
<1>2. QED BY <1>1, QuotaAlwaysSound, PTL

\* acquire of _GlobalQuota refuses exactly what the whole history would, though
\* it prunes lazily and from the heads only, and a client that waits as long as
\* Retry-After says is not refused for the same reason if nothing else happens.
THEOREM DecisionsAlwaysExact == QuotaSpec => []DecisionsExact
<1>1. QuotaInvariant => DecisionsExact
  BY RefusalsAreExact, RetryAfterSuffices DEF DecisionsExact
<1>2. QED BY <1>1, QuotaAlwaysSound, PTL
=============================================================================
