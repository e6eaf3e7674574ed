-------------------------- MODULE PublicDemo_proofs --------------------------
(***************************************************************************)
(* That the handlers of public_demo.py keep what they promise, for any     *)
(* requests, workloads, limits and queue sizes: each has its slot and its  *)
(* reservation exactly between its gate and its end, is counted once, and  *)
(* pays for its work; and all of them together use the gate and the quota  *)
(* as CapacityGate and GlobalQuota specify.                                *)
(*                                                                         *)
(* The invariant relates a handler's place to what it holds and told       *)
(* (HandlersSound), the runner's works to the commands and streams about   *)
(* them (EngineSound), and what a request counted and paid to what its     *)
(* works made (PaymentsSound).  The actions are first sorted into a few    *)
(* kinds of step, by what they change (StepKinds): the invariant is then   *)
(* shown kind by kind.                                                     *)
(***************************************************************************)
EXTENDS PublicDemo, CollectionTheorems

-----------------------------------------------------------------------------
(* The quota's record and its methods.                                     *)

Leases == UNION {[S -> Nat] : S \in SUBSET Requests}

Quotas == [requests : Seq([id : Requests, at : {0}]),
           tokens : Seq([at : {0}, count : Nat \ {0}]),
           reserved : Leases]

Ids(q) == {q.requests[i].id : i \in DOMAIN q.requests}
Entries(q) == {q.requests[i] : i \in DOMAIN q.requests}

\* No request has two records.
IdsDistinct(q) ==
  \A i, j \in DOMAIN q.requests : q.requests[i].id = q.requests[j].id => i = j

\* An empty quota.
LEMMA NewQuotaFacts ==
  /\ Quota!NewQuota \in Quotas /\ IdsDistinct(Quota!NewQuota) /\ Ids(Quota!NewQuota) = {}
  /\ DOMAIN Quota!NewQuota.reserved = {}
<1> DEFINE q == Quota!NewQuota
<1>1. q.requests = <<>> /\ q.tokens = <<>> /\ q.reserved = <<>>
  BY DEF Quota!NewQuota
<1>2. <<>> \in [{} -> Nat] /\ DOMAIN <<>> = {}
  OBVIOUS
<1>3. [{} -> Nat] \in {[S -> Nat] : S \in SUBSET Requests}
  OBVIOUS
<1>4. <<>> \in Leases
  BY <1>2, <1>3 DEF Leases
<1>5. q \in Quotas
  BY <1>4 DEF Quotas, Quota!NewQuota
<1>6. QED BY <1>1, <1>2, <1>5 DEF IdsDistinct, Ids

\* A request is let in: one more record, and its reservation.
LEMMA AdmittedFacts ==
  ASSUME NEW q \in Quotas, NEW r \in Requests, NEW m \in Nat
  PROVE  /\ Quota!Admitted(q, r, m, 0) \in Quotas
         /\ DOMAIN Quota!Admitted(q, r, m, 0).reserved = DOMAIN q.reserved \cup {r}
         /\ Quota!Admitted(q, r, m, 0).reserved[r] = m
         /\ \A other \in DOMAIN q.reserved \ {r} :
              Quota!Admitted(q, r, m, 0).reserved[other] = q.reserved[other]
         /\ IdsDistinct(q) /\ r \notin Ids(q) => IdsDistinct(Quota!Admitted(q, r, m, 0))
         /\ Ids(Quota!Admitted(q, r, m, 0)) = Ids(q) \cup {r}
         /\ Entries(Quota!Admitted(q, r, m, 0)) = Entries(q) \cup {[id |-> r, at |-> 0]}
<1> DEFINE h == Quota!Admitted(q, r, m, 0)
           s == Append(q.requests, [id |-> r, at |-> 0])
           f == [other \in DOMAIN q.reserved \cup {r} |-> IF other = r THEN m ELSE q.reserved[other]]
           n == Len(q.requests)
<1>1. h = [q EXCEPT !.requests = s, !.reserved = f]
  BY Zenon DEF Quota!Admitted
<1>2. PICK S \in SUBSET Requests : q.reserved \in [S -> Nat]
  BY DEF Quotas, Leases
<1>3. f \in [S \cup {r} -> Nat] /\ S \cup {r} \in SUBSET Requests
  BY <1>2
<1>4. f \in Leases
  BY <1>3 DEF Leases
<1>5. /\ q.requests \in Seq([id : Requests, at : {0}]) /\ n \in Nat /\ DOMAIN q.requests = 1 .. n
      /\ [id |-> r, at |-> 0] \in [id : Requests, at : {0}]
  BY DEF Quotas
<1>6. /\ s \in Seq([id : Requests, at : {0}]) /\ DOMAIN s = 1 .. n + 1 /\ s[n + 1] = [id |-> r, at |-> 0]
      /\ \A i \in 1 .. n : s[i] = q.requests[i]
  BY <1>5
<1> HIDE DEF h, s, f
<1>7. h \in Quotas /\ h.requests = s /\ h.reserved = f
  BY <1>1, <1>4, <1>6 DEF Quotas
<1>8. DOMAIN f = DOMAIN q.reserved \cup {r} /\ f[r] = m
      /\ \A other \in DOMAIN q.reserved \ {r} : f[other] = q.reserved[other]
  BY DEF f
<1>9. 1 .. n + 1 = 1 .. n \cup {n + 1} /\ n + 1 \notin 1 .. n
  BY <1>5
<1>10. {s[i] : i \in DOMAIN s} = {q.requests[i] : i \in DOMAIN q.requests} \cup {[id |-> r, at |-> 0]}
  BY <1>5, <1>6, <1>9
<1>11. Ids(h) = Ids(q) \cup {r}
  BY <1>5, <1>6, <1>7, <1>9 DEF Ids
<1>12. ASSUME IdsDistinct(q), r \notin Ids(q) PROVE IdsDistinct(h)
  <2>1. \A i \in 1 .. n : s[i].id # r
    BY <1>5, <1>6, <1>12 DEF Ids
  <2>2. ASSUME NEW i \in 1 .. n + 1, NEW j \in 1 .. n + 1, s[i].id = s[j].id PROVE i = j
    <3>1. CASE i \in 1 .. n /\ j \in 1 .. n
      BY <1>5, <1>6, <1>12, <2>2, <3>1 DEF IdsDistinct
    <3>2. CASE i = n + 1 /\ j = n + 1
      BY <3>2
    <3>3. CASE i = n + 1 /\ j \in 1 .. n
      BY <1>6, <2>1, <2>2, <3>3
    <3>4. CASE j = n + 1 /\ i \in 1 .. n
      BY <1>6, <2>1, <2>2, <3>4
    <3>5. QED BY <1>9, <3>1, <3>2, <3>3, <3>4
  <2>3. QED BY <1>6, <1>7, <2>2 DEF IdsDistinct
<1>13. QED BY <1>7, <1>8, <1>10, <1>11, <1>12 DEF h, Entries

\* A lease ends: its reservation goes, the others stay.
LEMMA UnreservedFacts ==
  ASSUME NEW f \in Leases, NEW r
  PROVE  /\ Quota!Unreserved(f, r) \in Leases
         /\ DOMAIN Quota!Unreserved(f, r) = DOMAIN f \ {r}
         /\ \A other \in DOMAIN f \ {r} : Quota!Unreserved(f, r)[other] = f[other]
<1>1. PICK S \in SUBSET Requests : f \in [S -> Nat]
  BY DEF Leases
<1>2. Quota!Unreserved(f, r) \in [S \ {r} -> Nat] /\ S \ {r} \in SUBSET Requests
  BY <1>1 DEF Quota!Unreserved
<1>3. QED BY <1>1, <1>2 DEF Leases, Quota!Unreserved

\* A settlement keeps the record of the request.
LEMMA SettledFacts ==
  ASSUME NEW q \in Quotas, NEW r \in Requests, NEW n \in Nat
  PROVE  /\ Quota!Settled(q, r, n, 0) \in Quotas
         /\ Quota!Settled(q, r, n, 0).requests = q.requests
         /\ DOMAIN Quota!Settled(q, r, n, 0).reserved = DOMAIN q.reserved \ {r}
         /\ \A other \in DOMAIN q.reserved \ {r} :
              Quota!Settled(q, r, n, 0).reserved[other] = q.reserved[other]
<1> DEFINE h == Quota!Settled(q, r, n, 0)
           s == IF n > 0 THEN Append(q.tokens, [at |-> 0, count |-> n]) ELSE q.tokens
           f == Quota!Unreserved(q.reserved, r)
<1>1. h = [q EXCEPT !.reserved = f, !.tokens = s]
  BY Zenon DEF Quota!Settled
<1>2. q.tokens \in Seq([at : {0}, count : Nat \ {0}]) /\ q.reserved \in Leases
  BY DEF Quotas
<1>3. s \in Seq([at : {0}, count : Nat \ {0}])
  <2>1. CASE n > 0
    <3>1. [at |-> 0, count |-> n] \in [at : {0}, count : Nat \ {0}]
      BY <2>1
    <3>2. QED BY <1>2, <2>1, <3>1
  <2>2. CASE ~(n > 0)
    BY <1>2, <2>2
  <2>3. QED BY <2>1, <2>2
<1>4. /\ f \in Leases /\ DOMAIN f = DOMAIN q.reserved \ {r}
      /\ \A other \in DOMAIN q.reserved \ {r} : f[other] = q.reserved[other]
  BY <1>2, UnreservedFacts
<1> HIDE DEF h, s, f
<1>5. h \in Quotas /\ h.requests = q.requests /\ h.reserved = f
  BY <1>1, <1>3, <1>4 DEF Quotas
<1>6. QED BY <1>4, <1>5 DEF h

\* A rollback takes the record of the request with it.
LEMMA RolledBackFacts ==
  ASSUME NEW q \in Quotas, IdsDistinct(q), NEW r \in Requests
  PROVE  /\ Quota!RolledBack(q, r) \in Quotas
         /\ Quota!RolledBack(q, r).tokens = q.tokens
         /\ DOMAIN Quota!RolledBack(q, r).reserved = DOMAIN q.reserved \ {r}
         /\ \A other \in DOMAIN q.reserved \ {r} :
              Quota!RolledBack(q, r).reserved[other] = q.reserved[other]
         /\ IdsDistinct(Quota!RolledBack(q, r)) /\ Ids(Quota!RolledBack(q, r)) \in SUBSET Ids(q)
         /\ Entries(Quota!RolledBack(q, r)) = {record \in Entries(q) : record.id # r}
<1> DEFINE h == Quota!RolledBack(q, r)
           w == q.requests
           n == Len(w)
           own == {i \in DOMAIN w : w[i].id = r}
           m == Quota!Min(own)
           s == IF own = {} THEN w ELSE SubSeq(w, 1, m - 1) \o SubSeq(w, m + 1, Len(w))
           f == Quota!Unreserved(q.reserved, r)
<1>1. h = [q EXCEPT !.reserved = f, !.requests = s]
  BY Zenon DEF Quota!RolledBack
<1>2. /\ w \in Seq([id : Requests, at : {0}]) /\ n \in Nat /\ DOMAIN w = 1 .. n /\ q.reserved \in Leases
  BY DEF Quotas
<1>3. /\ f \in Leases /\ DOMAIN f = DOMAIN q.reserved \ {r}
      /\ \A other \in DOMAIN q.reserved \ {r} : f[other] = q.reserved[other]
  BY <1>2, UnreservedFacts
<1>4. CASE own = {}
  <2>1. s = w
    BY <1>4
  <2> HIDE DEF f, s, h
  <2>2. h \in Quotas /\ h.requests = w /\ h.reserved = f /\ h.tokens = q.tokens
    BY <1>1, <1>2, <1>3, <2>1 DEF Quotas
  <2>3. \A i \in DOMAIN w : w[i].id # r
    BY <1>4
  <2>4. IdsDistinct(h) /\ Ids(h) = Ids(q)
    BY <2>2 DEF IdsDistinct, Ids
  <2>5. QED BY <1>3, <2>2, <2>3, <2>4 DEF h, Entries
<1>5. CASE own # {}
  <2>1. m \in own
    <3>1. own \in SUBSET Nat
      BY <1>2
    <3>2. \E k \in own : \A j \in own : k <= j
      BY <1>5, <3>1, LeastNumber
    <3>3. m = CHOOSE k \in own : \A j \in own : k <= j
      BY DEF Quota!Min
    <3> HIDE DEF m, own
    <3>4. QED BY <3>2, <3>3
  <2>2. m \in 1 .. n /\ w[m].id = r
    BY <1>2, <2>1
  <2> HIDE DEF m
  <2>3. s = SubSeq(w, 1, m - 1) \o SubSeq(w, m + 1, Len(w))
    BY <1>5
  <2> HIDE DEF s, own, f, h
  <2>4. /\ s \in Seq([id : Requests, at : {0}])
        /\ s = [k \in 1 .. n - 1 |-> IF k < m THEN w[k] ELSE w[k + 1]]
    <3> DEFINE Entry == [id : Requests, at : {0}]
    <3>1. w \in Seq(Entry) /\ m \in DOMAIN w
      BY <1>2, <2>2
    <3> HIDE DEF w, Entry
    <3>2. /\ SubSeq(w, 1, m - 1) \o SubSeq(w, m + 1, Len(w)) \in Seq(Entry)
          /\ SubSeq(w, 1, m - 1) \o SubSeq(w, m + 1, Len(w))
               = [k \in 1 .. Len(w) - 1 |-> IF k < m THEN w[k] ELSE w[k + 1]]
      BY <3>1, CutFacts
    <3>3. QED BY <2>3, <3>2 DEF Entry
  <2>5. h \in Quotas /\ h.requests = s /\ h.reserved = f /\ h.tokens = q.tokens
    BY <1>1, <1>3, <2>4 DEF Quotas
  <2> DEFINE p(k) == IF k < m THEN k ELSE k + 1
  <2>6. ASSUME NEW k \in 1 .. n - 1
        PROVE  p(k) \in 1 .. n /\ p(k) # m /\ s[k] = w[p(k)] /\ k \in Int
    BY <1>2, <2>2, <2>4
  <2>7. ASSUME NEW j \in 1 .. n, j # m PROVE \E k \in 1 .. n - 1 : p(k) = j
    <3>1. CASE j < m
      <4>1. j \in 1 .. n - 1
        BY <1>2, <2>2, <3>1
      <4>2. QED BY <3>1, <4>1
    <3>2. CASE j > m
      <4>1. j - 1 \in 1 .. n - 1 /\ ~(j - 1 < m) /\ (j - 1) + 1 = j
        BY <1>2, <2>2, <3>2
      <4>2. QED BY <4>1
    <3>3. QED BY <1>2, <2>2, <2>7, <3>1, <3>2
  <2>8. \A k, j \in 1 .. n - 1 : p(k) = p(j) => k = j
    <3>1. \A x, y, z \in Int : (IF x < z THEN x ELSE x + 1) = (IF y < z THEN y ELSE y + 1) => x = y
      OBVIOUS
    <3>2. m \in Int
      BY <1>2, <2>2
    <3>3. QED BY <2>6, <3>1, <3>2
  <2>9. \A i, j \in 1 .. n : w[i].id = w[j].id => i = j
    BY <1>2 DEF IdsDistinct
  <2>10. \A j \in 1 .. n : w[j].id = r <=> j = m
    BY <2>2, <2>9
  <2>11. DOMAIN s = 1 .. n - 1
    BY <2>4
  <2> HIDE DEF p, w, n
  <2>12. \A k \in DOMAIN s : \E j \in 1 .. n : j # m /\ s[k] = w[j] /\ j = p(k)
    BY <2>6, <2>11
  <2>13. \A j \in 1 .. n : j # m => \E k \in DOMAIN s : s[k] = w[j]
    BY <2>6, <2>7, <2>11
  <2>14. IdsDistinct(h)
    BY <2>5, <2>8, <2>9, <2>11, <2>12 DEF IdsDistinct
  <2>15. Ids(h) \in SUBSET Ids(q)
    BY <1>2, <2>5, <2>12 DEF Ids, w
  <2>16. {s[k] : k \in DOMAIN s} = {record \in {w[i] : i \in DOMAIN w} : record.id # r}
    BY <1>2, <2>10, <2>12, <2>13
  <2>17. QED BY <1>3, <2>5, <2>14, <2>15, <2>16 DEF h, w, Entries
<1>6. QED BY <1>4, <1>5

-----------------------------------------------------------------------------
(* The invariant.                                                          *)

Early == {"new", "reading", "queued"}
Held == {"acquired", "reserved", "rollback", "waiting", "aborting", "streaming", "closing",
         "inspecting"}
Outcomes == {"completed", "failed", "rejected"}
WorkStates == Ended \cup {"none", "queued", "live"}
Terminals == Ended \cup {"none", "backpressure"}

\* A handler has its slot and its reservation by its place, told the metrics
\* what its place says, and is at a place of its kind.
Placed(r) ==
  /\ r \in holding <=> pc[r] \in Held
  /\ r \in DOMAIN quota.reserved <=> pc[r] \in Held \ {"acquired"}
  /\ r \in DOMAIN quota.reserved => quota.reserved[r] = Reservation(r)
  /\ pc[r] \in Early \cup {"acquired"} => r \notin Ids(quota)
  /\ ~Over(r) => charge[r] = -1

Told(r) ==
  /\ recorded[r] = <<>> \/ \E o \in Outcomes : recorded[r] = <<o>>
  /\ pc[r] \notin {"done", "dropped", "closing", "aborting"} => recorded[r] = <<>>
  /\ pc[r] = "closing" => recorded[r] = <<"completed">>
  /\ pc[r] = "done" => recorded[r] # <<>>
  /\ pc[r] = "aborting" /\ Kind(r) \in {"plain", "story"} => recorded[r] = <<>>

OfItsKind(r) ==
  /\ pc[r] \in {"streaming", "closing"} => Kind(r) \in StreamKinds
  /\ pc[r] = "waiting" => Kind(r) \in {"plain", "story"}
  /\ pc[r] = "inspecting" => Kind(r) = "predict"
  /\ pc[r] = "aborting" => Kind(r) \in {"plain", "story"} \cup StreamKinds
  /\ pc[r] = "rollback" => Kind(r) \in StoryKinds
  /\ Kind(r) = "absent" => pc[r] = "new"

HandlersTyped ==
  /\ workload \in Workloads
  /\ pc \in [Requests -> Places]
  /\ recorded \in [Requests -> Seq(Outcomes)]
  /\ charge \in [Requests -> Int]
  /\ holding \subseteq Requests
  /\ quota \in Quotas /\ IdsDistinct(quota)

HandlersSound ==
  /\ HandlersTyped
  /\ \A r \in Requests : Placed(r) /\ Told(r) /\ OfItsKind(r)

\* The works of a request that the runner took are the first n.
FirstWorks(r, n) == {r} \X (1 .. n)

EngineTyped ==
  /\ engine \in [Works -> [status : WorkStates, tokens : Nat]]
  /\ streams \in [Works -> [emitted : Nat, seen : Nat, terminal : Terminals, ended : BOOLEAN]]
  /\ commands \in Seq([op : {"submit", "cancel", "inspect"}, of : Works \cup Requests])
  /\ counted \in [Requests -> Nat]

\* A stream holds no more than its work made, and ends after it.
WorkSound(w) ==
  /\ engine[w].tokens <= MaxTokens(w[1])
  /\ engine[w].status \notin Ended => engine[w].tokens < MaxTokens(w[1])
  /\ engine[w].status = "none" => engine[w].tokens = 0
  /\ engine[w].status # "none" => w \in WorksOf(w[1]) /\ pc[w[1]] \notin Early \cup {"acquired"}
  /\ streams[w].seen <= streams[w].emitted
  /\ streams[w].emitted <= engine[w].tokens
  /\ streams[w].terminal # "none" => engine[w].status \in Ended
  /\ streams[w].ended => streams[w].terminal # "none" /\ streams[w].seen = streams[w].emitted

\* A work that is to be submitted is queued, and once.
QueueSound ==
  /\ \A i \in DOMAIN commands :
       commands[i].op = "submit" => /\ commands[i].of \in Works
                                    /\ engine[commands[i].of].status = "queued"
  /\ \A i \in DOMAIN commands : commands[i].op = "cancel" => commands[i].of \in Works
  /\ \A i, j \in DOMAIN commands :
       commands[i].op = "submit" /\ commands[j].op = "submit" /\ commands[i].of = commands[j].of => i = j

\* Works are submitted in order while the handler keeps the loop, and never all
\* of them if the runner refuses one.
SubmitSound(r) ==
  /\ pc[r] = "reserved" /\ Kind(r) # "predict" =>
       \E n \in Nat : n < Cardinality(WorksOf(r)) /\ Submitted(r) = FirstWorks(r, n)
  /\ pc[r] = "rollback" => Submitted(r) # WorksOf(r)

EngineSound ==
  /\ EngineTyped
  /\ \A w \in Works : WorkSound(w)
  /\ QueueSound
  /\ \A r \in Requests : SubmitSound(r)

SeenBy(r) == SumFunction([w \in WorksOf(r) |-> streams[w].seen])

\* What a stream counted is what its reader saw, or, once it completed, what
\* its work made.
CountSound(r) ==
  /\ Kind(r) = "storyStream" => counted[r] = SeenBy(r)
  /\ Kind(r) = "stream" /\ recorded[r] = <<"completed">> =>
       counted[r] = engine[<<r, 1>>].tokens /\ engine[<<r, 1>>].status \in Ended
  /\ Kind(r) = "stream" /\ recorded[r] # <<"completed">> => counted[r] = streams[<<r, 1>>].seen
  /\ Kind(r) = "storyStream" /\ recorded[r] = <<"completed">> => \A w \in WorksOf(r) : streams[w].ended

AllEnded(r) == \A w \in WorksOf(r) : engine[w].status \in Ended

\* The price of a completed request, and of a story whatever became of it.
Completed(r, price) ==
  /\ Kind(r) = "predict" => price = 0
  /\ Kind(r) \in StreamKinds => price = counted[r]
  /\ Kind(r) \in {"plain", "story"} => price = Generated(r) /\ AllEnded(r)

CoversStory(r, price) ==
  Kind(r) = "story" /\ Submitted(r) = WorksOf(r) =>
    \/ price = Reservation(r)
    \/ price >= Generated(r) /\ AllEnded(r)

Paid(r) ==
  /\ pc[r] = "done" /\ recorded[r] = <<"completed">> => Completed(r, charge[r])
  /\ Over(r) => CoversStory(r, charge[r])

PaymentsSound == \A r \in Requests : CountSound(r) /\ Paid(r)

IInv == HandlersSound /\ EngineSound /\ PaymentsSound

-----------------------------------------------------------------------------
(* What a step does.                                                       *)

\* Nothing but a command that submits nothing.
Still ==
  /\ UNCHANGED <<workload, holding, quota, charge, pc, recorded, counted, engine, streams>>
  /\ \/ commands' = commands
     \/ \E w \in Works : commands' = Append(commands, [op |-> "cancel", of |-> w])
     \/ \E r \in Requests : commands' = Append(commands, [op |-> "inspect", of |-> r])

\* The handler of r goes on and tells the metrics s.
Passes(r, place, s) ==
  \/ pc[r] = "new" /\ place = "reading" /\ s = recorded[r] /\ Kind(r) # "absent"
  \/ pc[r] = "reading" /\ place \in {"queued", "acquired"} /\ s = recorded[r]
  \/ pc[r] = "queued" /\ place = "acquired" /\ s = recorded[r]
  \/ pc[r] \in {"reading", "queued", "acquired"} /\ place = "done"
       /\ s \in {<<"failed">>, <<"rejected">>}
  \/ pc[r] = "reserved" /\ place = "rollback" /\ s = recorded[r] /\ Kind(r) \in StoryKinds
  \/ pc[r] = "reserved" /\ place = "inspecting" /\ s = recorded[r] /\ Kind(r) = "predict"
  \/ pc[r] = "waiting" /\ place = "aborting" /\ s = recorded[r]
  \/ pc[r] = "streaming" /\ place = "aborting" /\ s = <<"failed">>
  \/ pc[r] = "closing" /\ place = "aborting" /\ s = recorded[r]

Moves(r, place, s) ==
  /\ UNCHANGED <<workload, quota, charge, counted, engine, streams, commands>>
  /\ Passes(r, place, s)
  /\ pc' = [pc EXCEPT ![r] = place]
  /\ recorded' = [recorded EXCEPT ![r] = s]
  /\ holding' = IF place \in Held THEN holding \cup {r} ELSE holding \ {r}

\* The handler of r ends, tells the metrics s and pays the price.
EndsAt(r, place, s) ==
  \/ /\ recorded[r] = <<>> /\ place = "done"
     /\ \/ s \in {<<"failed">>, <<"rejected">>}
        \/ s = <<"completed">> /\ Kind(r) \notin StreamKinds
  \/ recorded[r] # <<>> /\ place = "done" /\ s = recorded[r]
  \/ place = "dropped" /\ s = recorded[r]

Ends(r, place, s, price) ==
  /\ UNCHANGED <<workload, counted, engine, streams, commands>>
  /\ pc[r] \in Held \ {"acquired"}
  /\ EndsAt(r, place, s)
  /\ pc' = [pc EXCEPT ![r] = place]
  /\ recorded' = [recorded EXCEPT ![r] = s]
  /\ holding' = holding \ {r}
  /\ charge' = [charge EXCEPT ![r] = price]
  /\ \/ price \in 0 .. Reservation(r) /\ quota' = Quota!Settled(quota, r, price, 0)
     \/ price = RolledBack /\ quota' = Quota!RolledBack(quota, r)
  /\ place = "done" /\ s = <<"completed">> => Completed(r, price)
  /\ CoversStory(r, price)

\* Only the worker acts.
WorkerActs ==
  /\ UNCHANGED <<workload, holding, quota, charge, pc, recorded, counted>>
  /\ TakeCommand \/ EndTick \/ WorkerFails

Step ==
  \/ Still
  \/ WorkerActs
  \/ \E w \in Works : UNCHANGED workload /\ (ReadToken(w) \/ ReadLast(w) \/ ReadBranchEnd(w))
  \/ \E r \in Requests :
       \/ \E place \in Places, s \in Seq(Outcomes) : Moves(r, place, s)
       \/ UNCHANGED workload /\ Reserve(r)
       \/ UNCHANGED workload /\ SubmitNext(r)
       \/ \E place \in Places, s \in Seq(Outcomes), price \in Int : Ends(r, place, s, price)

-----------------------------------------------------------------------------
(* Works and prices.                                                       *)

\* What a request may ask for, and the works that makes.
LEMMA KindFacts ==
  ASSUME workload \in Workloads, NEW r \in Requests
  PROVE  /\ Kind(r) \in Kinds /\ MaxTokens(r) \in Nat \ {0}
         /\ Kind(r) \in {"predict", "absent"} => WorksOf(r) = {}
         /\ Kind(r) \in StoryKinds => WorksOf(r) = FirstWorks(r, BranchCount)
         /\ Kind(r) \in {"plain", "stream"} => WorksOf(r) = FirstWorks(r, 1) /\ WorksOf(r) = {<<r, 1>>}
<1>1. workload.kind \in [Requests -> Kinds] /\ workload.maxTokens \in [Requests -> 1 .. TokensPerDay]
  BY PolicyAssumption
<1>2. Kind(r) \in Kinds /\ MaxTokens(r) \in 1 .. TokensPerDay
  BY <1>1 DEF Kind, MaxTokens
<1>3. MaxTokens(r) \in Nat \ {0}
  BY <1>2, PolicyAssumption
<1>4. Kind(r) \in {"predict", "absent"} => WorksOf(r) = {}
  BY DEF WorksOf, StoryKinds
<1>5. Kind(r) \in StoryKinds => WorksOf(r) = FirstWorks(r, BranchCount)
  BY DEF WorksOf, StoryKinds, FirstWorks
<1>6. Kind(r) \in {"plain", "stream"} => WorksOf(r) = {<<r, 1>>}
  BY DEF WorksOf, StoryKinds
<1>7. FirstWorks(r, 1) = {<<r, 1>>}
  <2>1. 1 .. 1 = {1}
    OBVIOUS
  <2>2. QED BY <2>1 DEF FirstWorks
<1>8. QED BY <1>2, <1>3, <1>4, <1>5, <1>6, <1>7

\* The first n works of a request are n.
LEMMA FirstWorksFacts ==
  ASSUME NEW r, NEW n \in Nat
  PROVE  /\ IsFiniteSet(FirstWorks(r, n)) /\ Cardinality(FirstWorks(r, n)) = n
         /\ \A w \in FirstWorks(r, n) : w[1] = r /\ w[2] \in 1 .. n /\ w = <<r, w[2]>>
         /\ \A k \in 1 .. n : <<r, k>> \in FirstWorks(r, n)
<1>1. IsFiniteSet(1 .. n) /\ Cardinality(1 .. n) = n
  BY FirstNumbers
<1>2. [k \in 1 .. n |-> <<r, k>>] \in Bijection(1 .. n, FirstWorks(r, n))
  <2> DEFINE h == [k \in 1 .. n |-> <<r, k>>]
  <2>1. h \in [1 .. n -> FirstWorks(r, n)]
    BY DEF FirstWorks
  <2>2. \A j, k \in 1 .. n : h[j] = h[k] => j = k
    OBVIOUS
  <2>3. \A w \in FirstWorks(r, n) : \E k \in 1 .. n : h[k] = w
    BY DEF FirstWorks
  <2> HIDE DEF h
  <2>4. h \in Bijection(1 .. n, FirstWorks(r, n))
    BY <2>1, <2>2, <2>3 DEF Bijection, Injection, IsInjective, Surjection
  <2>5. QED BY <2>4 DEF h
<1>3. ExistsBijection(1 .. n, FirstWorks(r, n))
  BY <1>2 DEF ExistsBijection
<1>4. IsFiniteSet(FirstWorks(r, n)) /\ Cardinality(FirstWorks(r, n)) = n
  BY <1>1, <1>3, FS_Bijection
<1>5. QED BY <1>4 DEF FirstWorks

\* The works of a request are finitely many, and its reservation covers each.
LEMMA WorksFacts ==
  ASSUME workload \in Workloads, NEW r \in Requests
  PROVE  /\ WorksOf(r) \in SUBSET Works /\ IsFiniteSet(WorksOf(r))
         /\ Cardinality(WorksOf(r)) \in Nat
         /\ \A w \in WorksOf(r) : w \in Works /\ w[1] = r
         /\ Reservation(r) \in Nat
         /\ Kind(r) # "predict" => Reservation(r) = MaxTokens(r) * Cardinality(WorksOf(r))
         /\ Kind(r) \in StoryKinds => Cardinality(WorksOf(r)) = BranchCount
         /\ Kind(r) \in {"plain", "stream"} => Cardinality(WorksOf(r)) = 1
<1>1. CASE Kind(r) \in {"predict", "absent"}
  <2>1. WorksOf(r) = {} /\ IsFiniteSet(WorksOf(r)) /\ Cardinality(WorksOf(r)) = 0
    BY <1>1, KindFacts, FS_EmptySet
  <2>2. MaxTokens(r) * 0 = 0 /\ Kind(r) \notin StoryKinds /\ Kind(r) \notin {"plain", "stream"}
    BY <1>1, KindFacts DEF StoryKinds
  <2>3. QED BY <2>1, <2>2 DEF Reservation
<1>2. ASSUME NEW n \in Nat, n >= 1, n <= BranchCount, WorksOf(r) = FirstWorks(r, n), Kind(r) # "predict"
      PROVE  /\ WorksOf(r) \in SUBSET Works /\ IsFiniteSet(WorksOf(r))
             /\ Cardinality(WorksOf(r)) = n
             /\ \A w \in WorksOf(r) : w \in Works /\ w[1] = r
             /\ Reservation(r) = MaxTokens(r) * n /\ Reservation(r) \in Nat
  <2>1. 1 .. n \in SUBSET (1 .. BranchCount)
    BY <1>2, PolicyAssumption
  <2>2. WorksOf(r) \in SUBSET Works
    BY <1>2, <2>1 DEF FirstWorks, Works
  <2>3. MaxTokens(r) * n \in Nat
    BY KindFacts
  <2>4. QED BY <1>2, <2>2, <2>3, FirstWorksFacts DEF Reservation
<1>3. CASE Kind(r) \in StoryKinds
  <2>1. BranchCount \in Nat /\ BranchCount >= 1 /\ BranchCount <= BranchCount
    BY PolicyAssumption
  <2>2. Kind(r) # "predict" /\ Kind(r) \notin {"plain", "stream"}
    BY <1>3 DEF StoryKinds
  <2>3. WorksOf(r) = FirstWorks(r, BranchCount)
    BY <1>3, KindFacts
  <2>4. QED BY <1>2, <1>3, <2>1, <2>2, <2>3
<1>4. CASE Kind(r) \in {"plain", "stream"}
  <2>1. 1 \in Nat /\ 1 >= 1 /\ 1 <= BranchCount
    BY PolicyAssumption
  <2>2. Kind(r) # "predict" /\ Kind(r) \notin StoryKinds
    BY <1>4 DEF StoryKinds
  <2>3. WorksOf(r) = FirstWorks(r, 1)
    BY <1>4, KindFacts
  <2>4. QED BY <1>2, <1>4, <2>1, <2>2, <2>3
<1>5. QED BY <1>1, <1>3, <1>4, KindFacts DEF Kinds, StoryKinds

\* What a request generated, or its reader saw, its reservation covers.
LEMMA SumsCovered ==
  ASSUME IInv, NEW r \in Requests
  PROVE  /\ Generated(r) \in Nat /\ SeenBy(r) \in Nat
         /\ Generated(r) <= Reservation(r) /\ SeenBy(r) <= Reservation(r)
         /\ Kind(r) = "predict" => Generated(r) = 0 /\ Reservation(r) = 0
<1>1. workload \in Workloads /\ EngineTyped /\ \A w \in Works : WorkSound(w)
  BY DEF IInv, HandlersSound, HandlersTyped, EngineSound
<1> DEFINE S == WorksOf(r)
           m == MaxTokens(r)
           f == [w \in S |-> engine[w].tokens]
           g == [w \in S |-> streams[w].seen]
<1>2. IsFiniteSet(S) /\ m \in Nat /\ \A w \in S : w \in Works /\ w[1] = r
  BY <1>1, WorksFacts, KindFacts
<1>3. ASSUME NEW w \in S PROVE engine[w].tokens \in 0 .. m /\ streams[w].seen \in 0 .. m
  <2>1. w \in Works /\ w[1] = r
    BY <1>2
  <2>2. engine[w].tokens \in Nat /\ streams[w].seen \in Nat /\ streams[w].emitted \in Nat
    BY <1>1, <2>1 DEF EngineTyped
  <2>3. engine[w].tokens <= m /\ streams[w].seen <= streams[w].emitted
        /\ streams[w].emitted <= engine[w].tokens
    BY <1>1, <2>1 DEF WorkSound
  <2>4. QED BY <1>2, <2>2, <2>3
<1>4. f \in [S -> 0 .. m] /\ g \in [S -> 0 .. m] /\ f \in [S -> Nat] /\ g \in [S -> Nat]
  BY <1>2, <1>3
<1>5. SumFunction(f) = Generated(r) /\ SumFunction(g) = SeenBy(r)
  BY DEF Generated, SeenBy
<1> DEFINE c == Cardinality(S)
<1>6. c \in Nat
  BY <1>1, WorksFacts
<1>7. Reservation(r) = IF Kind(r) = "predict" THEN 0 ELSE m * c
  BY DEF Reservation
<1>8. Kind(r) = "predict" => S = {}
  BY <1>1, KindFacts
<1> HIDE DEF f, g, S, m
<1>9. /\ SumFunction(f) \in Nat /\ SumFunction(g) \in Nat
      /\ SumFunction(f) <= m * Cardinality(S) /\ SumFunction(g) <= m * Cardinality(S)
  BY <1>2, <1>4, SumType, SumBound
<1>10. CASE Kind(r) = "predict"
  <2>1. SumFunction(f) = 0 /\ SumFunction(g) = 0
    <3>1. f \in [{} -> Nat] /\ g \in [{} -> Nat]
      BY <1>4, <1>8, <1>10
    <3>2. QED BY <3>1, SumEmpty
  <2>2. QED BY <1>5, <1>7, <1>10, <2>1
<1>11. CASE Kind(r) # "predict"
  BY <1>5, <1>7, <1>9, <1>11
<1>12. QED BY <1>10, <1>11

\* A stream never counts more than its reservation.
LEMMA CountCovered ==
  ASSUME IInv, NEW r \in Requests
  PROVE  counted[r] \in Nat /\ (Kind(r) \in StreamKinds => counted[r] <= Reservation(r))
<1>1. /\ workload \in Workloads /\ EngineTyped /\ CountSound(r) /\ \A w \in Works : WorkSound(w)
  BY DEF IInv, HandlersSound, HandlersTyped, EngineSound, PaymentsSound
<1>2. counted[r] \in Nat
  BY <1>1 DEF EngineTyped
<1>3. CASE Kind(r) = "storyStream"
  <2>1. counted[r] = SeenBy(r)
    BY <1>1, <1>3 DEF CountSound
  <2>2. QED BY <1>2, <2>1, SumsCovered
<1>4. CASE Kind(r) = "stream"
  <2> DEFINE w == <<r, 1>>
  <2>1. w \in WorksOf(r) /\ Reservation(r) = MaxTokens(r) * 1 /\ MaxTokens(r) \in Nat
    BY <1>1, <1>4, KindFacts, WorksFacts
  <2>2. w \in Works /\ w[1] = r
    BY <1>1, <2>1, WorksFacts
  <2>3. /\ engine[w].tokens <= MaxTokens(r) /\ streams[w].seen <= streams[w].emitted
        /\ streams[w].emitted <= engine[w].tokens
        /\ engine[w].tokens \in Nat /\ streams[w].seen \in Nat /\ streams[w].emitted \in Nat
    BY <1>1, <2>2 DEF WorkSound, EngineTyped
  <2>4. counted[r] = engine[w].tokens \/ counted[r] = streams[w].seen
    BY <1>1, <1>4 DEF CountSound
  <2> HIDE DEF w
  <2>5. QED BY <1>2, <2>1, <2>3, <2>4
<1>5. QED BY <1>2, <1>3, <1>4 DEF StreamKinds

\* What the invariant says of one handler.
LEMMA AtHandler ==
  ASSUME IInv, NEW r \in Requests
  PROVE  /\ workload \in Workloads /\ pc \in [Requests -> Places] /\ recorded \in [Requests -> Seq(Outcomes)]
         /\ charge \in [Requests -> Int] /\ holding \subseteq Requests /\ quota \in Quotas /\ IdsDistinct(quota)
         /\ Placed(r) /\ Told(r) /\ OfItsKind(r) /\ SubmitSound(r) /\ CountSound(r) /\ Paid(r)
         /\ Kind(r) \in Kinds
BY KindFacts DEF IInv, HandlersSound, HandlersTyped, EngineSound, PaymentsSound

\* Telling the metrics for the first time.
LEMMA RecordFacts ==
  ASSUME recorded \in [Requests -> Seq(Outcomes)], NEW r \in Requests
  PROVE  /\ recorded[r] \in Seq(Outcomes)
         /\ UNCHANGED recorded => recorded' = [recorded EXCEPT ![r] = recorded[r]]
         /\ \A o \in Outcomes :
              /\ <<o>> \in Seq(Outcomes) /\ <<o>> # <<>>
              /\ recorded[r] = <<>> /\ Record(r, o) => recorded' = [recorded EXCEPT ![r] = <<o>>]
<1>1. recorded[r] \in Seq(Outcomes)
  OBVIOUS
<1>2. UNCHANGED recorded => recorded' = [recorded EXCEPT ![r] = recorded[r]]
  OBVIOUS
<1>3. ASSUME NEW o \in Outcomes
      PROVE  /\ <<o>> \in Seq(Outcomes) /\ <<o>> # <<>>
             /\ recorded[r] = <<>> /\ Record(r, o) => recorded' = [recorded EXCEPT ![r] = <<o>>]
  <2>1. Append(<<>>, o) = <<o>> /\ <<o>> \in Seq(Outcomes) /\ <<o>> # <<>>
    OBVIOUS
  <2>2. ASSUME recorded[r] = <<>>, Record(r, o) PROVE recorded' = [recorded EXCEPT ![r] = <<o>>]
    <3>1. recorded' = [recorded EXCEPT ![r] = Append(recorded[r], o)]
      BY <2>2 DEF Record
    <3>2. QED BY <2>1, <2>2, <3>1
  <2>3. QED BY <2>1, <2>2
<1>4. QED BY <1>1, <1>2, <1>3

\* Arrive moves the handler.
LEMMA ArriveMoves ==
  ASSUME IInv, UNCHANGED workload, NEW r \in Requests, Arrive(r)
  PROVE  Moves(r, "reading", recorded[r]) /\ recorded[r] \in Seq(Outcomes)
<1>1. /\ pc[r] = "new" /\ Kind(r) # "absent" /\ pc' = [pc EXCEPT ![r] = "reading"]
      /\ UNCHANGED recorded /\ holding' = holding
      /\ UNCHANGED <<workload, quota, charge, counted, engine, streams, commands>>
  BY DEF Arrive, At, Go, Waits, gateVars, quotaVars, handlerVars, threadVars, runnerVars
<1>2. recorded[r] \in Seq(Outcomes) /\ <<"rejected">> \in Seq(Outcomes) /\ <<"failed">> \in Seq(Outcomes)
  BY AtHandler, RecordFacts DEF Outcomes
<1>3. recorded' = [recorded EXCEPT ![r] = recorded[r]]
  BY <1>1, AtHandler, RecordFacts
<1>4. Passes(r, "reading", recorded[r])
  BY <1>1 DEF Passes
<1>5. holding' = IF "reading" \in Held THEN holding \cup {r} ELSE holding \ {r}
  BY <1>1, AtHandler DEF Placed, Held
<1>6. QED BY <1>1, <1>2, <1>3, <1>4, <1>5 DEF Moves

\* AcquireSlot moves the handler.
LEMMA AcquireSlotMoves ==
  ASSUME IInv, UNCHANGED workload, NEW r \in Requests, AcquireSlot(r)
  PROVE  Moves(r, "acquired", recorded[r]) /\ recorded[r] \in Seq(Outcomes)
<1>1. /\ pc[r] = "reading" /\ pc' = [pc EXCEPT ![r] = "acquired"]
      /\ UNCHANGED recorded /\ holding' = holding \cup {r}
      /\ UNCHANGED <<workload, quota, charge, counted, engine, streams, commands>>
  BY DEF AcquireSlot, At, Gate!AcquireNow, Go, Waits, gateVars, quotaVars, handlerVars, threadVars, runnerVars
<1>2. recorded[r] \in Seq(Outcomes) /\ <<"rejected">> \in Seq(Outcomes) /\ <<"failed">> \in Seq(Outcomes)
  BY AtHandler, RecordFacts DEF Outcomes
<1>3. recorded' = [recorded EXCEPT ![r] = recorded[r]]
  BY <1>1, AtHandler, RecordFacts
<1>4. Passes(r, "acquired", recorded[r])
  BY <1>1 DEF Passes
<1>5. holding' = IF "acquired" \in Held THEN holding \cup {r} ELSE holding \ {r}
  BY <1>1, AtHandler DEF Placed, Held
<1>6. QED BY <1>1, <1>2, <1>3, <1>4, <1>5 DEF Moves

\* WaitForSlot moves the handler.
LEMMA WaitForSlotMoves ==
  ASSUME IInv, UNCHANGED workload, NEW r \in Requests, WaitForSlot(r)
  PROVE  Moves(r, "queued", recorded[r]) /\ recorded[r] \in Seq(Outcomes)
<1>1. /\ pc[r] = "reading" /\ pc' = [pc EXCEPT ![r] = "queued"]
      /\ UNCHANGED recorded /\ holding' = holding
      /\ UNCHANGED <<workload, quota, charge, counted, engine, streams, commands>>
  BY DEF WaitForSlot, At, Gate!Wait, Go, Waits, gateVars, quotaVars, handlerVars, threadVars, runnerVars
<1>2. recorded[r] \in Seq(Outcomes) /\ <<"rejected">> \in Seq(Outcomes) /\ <<"failed">> \in Seq(Outcomes)
  BY AtHandler, RecordFacts DEF Outcomes
<1>3. recorded' = [recorded EXCEPT ![r] = recorded[r]]
  BY <1>1, AtHandler, RecordFacts
<1>4. Passes(r, "queued", recorded[r])
  BY <1>1 DEF Passes
<1>5. holding' = IF "queued" \in Held THEN holding \cup {r} ELSE holding \ {r}
  BY <1>1, AtHandler DEF Placed, Held
<1>6. QED BY <1>1, <1>2, <1>3, <1>4, <1>5 DEF Moves

\* FindLineFull moves the handler.
LEMMA FindLineFullMoves ==
  ASSUME IInv, UNCHANGED workload, NEW r \in Requests, FindLineFull(r)
  PROVE  Moves(r, "done", <<"rejected">>) /\ <<"rejected">> \in Seq(Outcomes)
<1>1. /\ pc[r] = "reading" /\ pc' = [pc EXCEPT ![r] = "done"]
      /\ Record(r, "rejected") /\ holding' = holding
      /\ UNCHANGED <<workload, quota, charge, counted, engine, streams, commands>>
  BY DEF FindLineFull, At, Go, Waits, gateVars, quotaVars, handlerVars, threadVars, runnerVars
<1>2. recorded[r] \in Seq(Outcomes) /\ <<"rejected">> \in Seq(Outcomes) /\ <<"failed">> \in Seq(Outcomes)
  BY AtHandler, RecordFacts DEF Outcomes
<1>3. recorded' = [recorded EXCEPT ![r] = <<"rejected">>]
  <2>1. recorded[r] = <<>> /\ "rejected" \in Outcomes
    BY <1>1, AtHandler DEF Told, Outcomes
  <2>2. QED BY <1>1, <2>1, AtHandler, RecordFacts
<1>4. Passes(r, "done", <<"rejected">>)
  BY <1>1 DEF Passes
<1>5. holding' = IF "done" \in Held THEN holding \cup {r} ELSE holding \ {r}
  BY <1>1, AtHandler DEF Placed, Held
<1>6. QED BY <1>1, <1>2, <1>3, <1>4, <1>5 DEF Moves

\* GetSlot moves the handler.
LEMMA GetSlotMoves ==
  ASSUME IInv, UNCHANGED workload, NEW r \in Requests, GetSlot(r)
  PROVE  Moves(r, "acquired", recorded[r]) /\ recorded[r] \in Seq(Outcomes)
<1>1. /\ pc[r] = "queued" /\ pc' = [pc EXCEPT ![r] = "acquired"]
      /\ UNCHANGED recorded /\ holding' = holding \cup {r}
      /\ UNCHANGED <<workload, quota, charge, counted, engine, streams, commands>>
  BY DEF GetSlot, At, Gate!Resume, Go, Waits, gateVars, quotaVars, handlerVars, threadVars, runnerVars
<1>2. recorded[r] \in Seq(Outcomes) /\ <<"rejected">> \in Seq(Outcomes) /\ <<"failed">> \in Seq(Outcomes)
  BY AtHandler, RecordFacts DEF Outcomes
<1>3. recorded' = [recorded EXCEPT ![r] = recorded[r]]
  BY <1>1, AtHandler, RecordFacts
<1>4. Passes(r, "acquired", recorded[r])
  BY <1>1 DEF Passes
<1>5. holding' = IF "acquired" \in Held THEN holding \cup {r} ELSE holding \ {r}
  BY <1>1, AtHandler DEF Placed, Held
<1>6. QED BY <1>1, <1>2, <1>3, <1>4, <1>5 DEF Moves

\* StopWaiting moves the handler.
LEMMA StopWaitingMoves ==
  ASSUME IInv, UNCHANGED workload, NEW r \in Requests, StopWaiting(r)
  PROVE  Moves(r, "done", <<"failed">>) /\ <<"failed">> \in Seq(Outcomes)
<1>1. /\ pc[r] = "queued" /\ pc' = [pc EXCEPT ![r] = "done"]
      /\ Record(r, "failed") /\ holding' = holding
      /\ UNCHANGED <<workload, quota, charge, counted, engine, streams, commands>>
  BY DEF StopWaiting, At, Gate!Withdraw, Go, Waits, gateVars, quotaVars, handlerVars, threadVars, runnerVars
<1>2. recorded[r] \in Seq(Outcomes) /\ <<"rejected">> \in Seq(Outcomes) /\ <<"failed">> \in Seq(Outcomes)
  BY AtHandler, RecordFacts DEF Outcomes
<1>3. recorded' = [recorded EXCEPT ![r] = <<"failed">>]
  <2>1. recorded[r] = <<>> /\ "failed" \in Outcomes
    BY <1>1, AtHandler DEF Told, Outcomes
  <2>2. QED BY <1>1, <2>1, AtHandler, RecordFacts
<1>4. Passes(r, "done", <<"failed">>)
  BY <1>1 DEF Passes
<1>5. holding' = IF "done" \in Held THEN holding \cup {r} ELSE holding \ {r}
  BY <1>1, AtHandler DEF Placed, Held
<1>6. QED BY <1>1, <1>2, <1>3, <1>4, <1>5 DEF Moves

\* FindQuotaFull moves the handler.
LEMMA FindQuotaFullMoves ==
  ASSUME IInv, UNCHANGED workload, NEW r \in Requests, FindQuotaFull(r)
  PROVE  Moves(r, "done", <<"rejected">>) /\ <<"rejected">> \in Seq(Outcomes)
<1>1. /\ pc[r] = "acquired" /\ pc' = [pc EXCEPT ![r] = "done"]
      /\ Record(r, "rejected") /\ holding' = holding \ {r}
      /\ UNCHANGED <<workload, quota, charge, counted, engine, streams, commands>>
  BY DEF FindQuotaFull, GiveBack, Gate!Release, Go, Waits, gateVars, quotaVars, handlerVars, threadVars, runnerVars
<1>2. recorded[r] \in Seq(Outcomes) /\ <<"rejected">> \in Seq(Outcomes) /\ <<"failed">> \in Seq(Outcomes)
  BY AtHandler, RecordFacts DEF Outcomes
<1>3. recorded' = [recorded EXCEPT ![r] = <<"rejected">>]
  <2>1. recorded[r] = <<>> /\ "rejected" \in Outcomes
    BY <1>1, AtHandler DEF Told, Outcomes
  <2>2. QED BY <1>1, <2>1, AtHandler, RecordFacts
<1>4. Passes(r, "done", <<"rejected">>)
  BY <1>1 DEF Passes
<1>5. holding' = IF "done" \in Held THEN holding \cup {r} ELSE holding \ {r}
  BY <1>1, AtHandler DEF Placed, Held
<1>6. QED BY <1>1, <1>2, <1>3, <1>4, <1>5 DEF Moves

\* BeginRollback moves the handler.
LEMMA BeginRollbackMoves ==
  ASSUME IInv, UNCHANGED workload, NEW r \in Requests, BeginRollback(r)
  PROVE  Moves(r, "rollback", recorded[r]) /\ recorded[r] \in Seq(Outcomes)
<1>1. /\ pc[r] = "reserved" /\ Kind(r) \in StoryKinds /\ pc' = [pc EXCEPT ![r] = "rollback"]
      /\ UNCHANGED recorded /\ holding' = holding
      /\ UNCHANGED <<workload, quota, charge, counted, engine, streams, commands>>
  BY DEF BeginRollback, Go, Waits, gateVars, quotaVars, handlerVars, threadVars, runnerVars
<1>2. recorded[r] \in Seq(Outcomes) /\ <<"rejected">> \in Seq(Outcomes) /\ <<"failed">> \in Seq(Outcomes)
  BY AtHandler, RecordFacts DEF Outcomes
<1>3. recorded' = [recorded EXCEPT ![r] = recorded[r]]
  BY <1>1, AtHandler, RecordFacts
<1>4. Passes(r, "rollback", recorded[r])
  BY <1>1 DEF Passes
<1>5. holding' = IF "rollback" \in Held THEN holding \cup {r} ELSE holding \ {r}
  BY <1>1, AtHandler DEF Placed, Held
<1>6. QED BY <1>1, <1>2, <1>3, <1>4, <1>5 DEF Moves

\* Abort moves the handler.
LEMMA AbortMoves ==
  ASSUME IInv, UNCHANGED workload, NEW r \in Requests, Abort(r)
  PROVE  Moves(r, "aborting", recorded[r]) /\ recorded[r] \in Seq(Outcomes)
<1>1. /\ pc[r] = "waiting" /\ pc' = [pc EXCEPT ![r] = "aborting"]
      /\ UNCHANGED recorded /\ holding' = holding
      /\ UNCHANGED <<workload, quota, charge, counted, engine, streams, commands>>
  BY DEF Abort, At, Go, Waits, gateVars, quotaVars, handlerVars, threadVars, runnerVars
<1>2. recorded[r] \in Seq(Outcomes) /\ <<"rejected">> \in Seq(Outcomes) /\ <<"failed">> \in Seq(Outcomes)
  BY AtHandler, RecordFacts DEF Outcomes
<1>3. recorded' = [recorded EXCEPT ![r] = recorded[r]]
  BY <1>1, AtHandler, RecordFacts
<1>4. Passes(r, "aborting", recorded[r])
  BY <1>1 DEF Passes
<1>5. holding' = IF "aborting" \in Held THEN holding \cup {r} ELSE holding \ {r}
  BY <1>1, AtHandler DEF Placed, Held
<1>6. QED BY <1>1, <1>2, <1>3, <1>4, <1>5 DEF Moves

\* StartInspection moves the handler.
LEMMA StartInspectionMoves ==
  ASSUME IInv, UNCHANGED workload, NEW r \in Requests, StartInspection(r)
  PROVE  Moves(r, "inspecting", recorded[r]) /\ recorded[r] \in Seq(Outcomes)
<1>1. /\ pc[r] = "reserved" /\ Kind(r) = "predict" /\ pc' = [pc EXCEPT ![r] = "inspecting"]
      /\ UNCHANGED recorded /\ holding' = holding
      /\ UNCHANGED <<workload, quota, charge, counted, engine, streams, commands>>
  BY DEF StartInspection, Go, Waits, gateVars, quotaVars, handlerVars, threadVars, runnerVars
<1>2. recorded[r] \in Seq(Outcomes) /\ <<"rejected">> \in Seq(Outcomes) /\ <<"failed">> \in Seq(Outcomes)
  BY AtHandler, RecordFacts DEF Outcomes
<1>3. recorded' = [recorded EXCEPT ![r] = recorded[r]]
  BY <1>1, AtHandler, RecordFacts
<1>4. Passes(r, "inspecting", recorded[r])
  BY <1>1 DEF Passes
<1>5. holding' = IF "inspecting" \in Held THEN holding \cup {r} ELSE holding \ {r}
  BY <1>1, AtHandler DEF Placed, Held
<1>6. QED BY <1>1, <1>2, <1>3, <1>4, <1>5 DEF Moves

\* LeaveReading moves the handler.
LEMMA LeaveReadingMoves ==
  ASSUME IInv, UNCHANGED workload, NEW r \in Requests, LeaveReading(r)
  PROVE  \E s \in Seq(Outcomes) : Moves(r, "done", s)
<1>1. /\ pc[r] = "reading" /\ pc' = [pc EXCEPT ![r] = "done"]
      /\ (\E outcome \in {"rejected", "failed"} : Record(r, outcome)) /\ holding' = holding
      /\ UNCHANGED <<workload, quota, charge, counted, engine, streams, commands>>
  BY DEF LeaveReading, At, Go, Waits, gateVars, quotaVars, handlerVars, threadVars, runnerVars
<1>2. PICK o \in {"rejected", "failed"} : Record(r, o)
  BY <1>1
<1>3. o \in Outcomes /\ recorded[r] = <<>>
  BY <1>1, <1>2, AtHandler DEF Told, Outcomes
<1>4. <<o>> \in Seq(Outcomes) /\ recorded' = [recorded EXCEPT ![r] = <<o>>]
  BY <1>2, <1>3, AtHandler, RecordFacts
<1>5. Passes(r, "done", <<o>>)
  BY <1>1, <1>2 DEF Passes
<1>6. holding' = holding \ {r}
  BY <1>1, AtHandler DEF Placed, Held
<1>7. Moves(r, "done", <<o>>)
  BY <1>1, <1>4, <1>5, <1>6 DEF Moves, Held
<1>8. QED BY <1>4, <1>7

\* BreakStream moves the handler, and tells the metrics unless its end was told.
LEMMA BreakStreamMoves ==
  ASSUME IInv, UNCHANGED workload, NEW r \in Requests, BreakStream(r)
  PROVE  \E s \in Seq(Outcomes) : Moves(r, "aborting", s)
<1>1. /\ pc[r] \in {"streaming", "closing"} /\ pc' = [pc EXCEPT ![r] = "aborting"]
      /\ RecordOnce(r, "failed") /\ holding' = holding
      /\ UNCHANGED <<workload, quota, charge, counted, engine, streams, commands>>
  BY DEF BreakStream, At, Go, Waits, gateVars, quotaVars, handlerVars, threadVars, runnerVars
<1>2. holding' = holding \cup {r}
  BY <1>1, AtHandler DEF Placed, Held
<1>3. CASE pc[r] = "streaming"
  <2>1. recorded[r] = <<>> /\ Record(r, "failed") /\ "failed" \in Outcomes
    BY <1>1, <1>3, AtHandler DEF Told, RecordOnce, Outcomes
  <2>2. <<"failed">> \in Seq(Outcomes) /\ recorded' = [recorded EXCEPT ![r] = <<"failed">>]
    BY <2>1, AtHandler, RecordFacts
  <2>3. Moves(r, "aborting", <<"failed">>)
    BY <1>1, <1>2, <1>3, <2>2 DEF Moves, Passes, Held
  <2>4. QED BY <2>2, <2>3
<1>4. CASE pc[r] = "closing"
  <2>1. recorded[r] = <<"completed">> /\ <<"completed">> # <<>>
    BY <1>4, AtHandler DEF Told
  <2>2. UNCHANGED recorded
    BY <1>1, <2>1 DEF RecordOnce
  <2>3. recorded[r] \in Seq(Outcomes) /\ recorded' = [recorded EXCEPT ![r] = recorded[r]]
    BY <2>2, AtHandler, RecordFacts
  <2>4. Moves(r, "aborting", recorded[r])
    BY <1>1, <1>2, <1>4, <2>3 DEF Moves, Passes, Held
  <2>5. QED BY <2>3, <2>4
<1>5. QED BY <1>1, <1>3, <1>4

\* A story that the runner took nothing of, or not all of, owes nothing.
LEMMA NothingOwed ==
  ASSUME IInv, NEW r \in Requests, NEW price,
         Submitted(r) = {} \/ pc[r] = "rollback" \/ Kind(r) # "story"
  PROVE  CoversStory(r, price)
<1>1. CASE Submitted(r) = {}
  <2>1. Kind(r) = "story" => Cardinality(WorksOf(r)) = BranchCount /\ BranchCount # 0
    BY AtHandler, WorksFacts, PolicyAssumption DEF StoryKinds
  <2>2. Cardinality({}) = 0
    BY FS_EmptySet
  <2>3. Kind(r) = "story" => WorksOf(r) # {}
    BY <2>1, <2>2
  <2>4. QED BY <1>1, <2>3 DEF CoversStory
<1>2. CASE pc[r] = "rollback"
  BY <1>2, AtHandler DEF SubmitSound, CoversStory
<1>3. CASE Kind(r) # "story"
  BY <1>3 DEF CoversStory
<1>4. QED BY <1>1, <1>2, <1>3

\* An end that settles or rolls back, from the parts of the step.
LEMMA EndsBy ==
  ASSUME IInv, NEW r \in Requests, NEW place \in {"done", "dropped"}, NEW s \in Seq(Outcomes), NEW price,
         UNCHANGED <<workload, counted, engine, streams, commands>>,
         pc[r] \in Held \ {"acquired"}, EndsAt(r, place, s),
         pc' = [pc EXCEPT ![r] = place], recorded' = [recorded EXCEPT ![r] = s], holding' = holding \ {r},
         \/ price \in 0 .. Reservation(r) /\ SettleLease(r, price)
         \/ price = RolledBack /\ CancelLease(r),
         place = "done" /\ s = <<"completed">> => Completed(r, price),
         CoversStory(r, price)
  PROVE  \E p \in Places, t \in Seq(Outcomes), n \in Int : Ends(r, p, t, n)
<1>1. Reservation(r) \in Nat
  BY AtHandler, WorksFacts
<1>2. price \in Int
  BY <1>1 DEF RolledBack
<1>3. /\ charge' = [charge EXCEPT ![r] = price]
      /\ \/ price \in 0 .. Reservation(r) /\ quota' = Quota!Settled(quota, r, price, 0)
         \/ price = RolledBack /\ quota' = Quota!RolledBack(quota, r)
  BY DEF SettleLease, CancelLease
<1>4. Ends(r, place, s, price)
  BY <1>3 DEF Ends
<1>5. place \in Places
  BY DEF Places
<1>6. QED BY <1>2, <1>4, <1>5

\* A prompt that cannot be framed ends the request.
LEMMA RefuseFramingEnds ==
  ASSUME IInv, UNCHANGED workload, NEW r \in Requests, RefuseFraming(r)
  PROVE  \E p \in Places, t \in Seq(Outcomes), n \in Int : Ends(r, p, t, n)
<1>1. /\ pc[r] = "reserved" /\ pc' = [pc EXCEPT ![r] = "done"] /\ holding' = holding \ {r}
      /\ Record(r, "rejected")
      /\ UndoLease(r)
      /\ UNCHANGED <<workload, counted, engine, streams, commands>>
      /\ \A w \in WorksOf(r) : engine[w].status = "none"
  BY DEF RefuseFraming, GiveBack, Gate!Release, Go, Waits, gateVars, quotaVars, handlerVars, threadVars, runnerVars
<1>2. pc[r] \in Held \ {"acquired"} /\ "rejected" \in Outcomes /\ "failed" \in Outcomes /\ "completed" \in Outcomes
      /\ Reservation(r) \in Nat
  BY <1>1, AtHandler, WorksFacts DEF Held, Outcomes
<1>9. Submitted(r) = {}
  BY <1>1 DEF Submitted
<1>3. recorded[r] = <<>> /\ <<"rejected">> \in Seq(Outcomes) /\ recorded' = [recorded EXCEPT ![r] = <<"rejected">>]
  BY <1>1, <1>2, AtHandler, RecordFacts DEF Told
<1>4. EndsAt(r, "done", <<"rejected">>)
  BY <1>3 DEF EndsAt
<1> DEFINE price == IF Kind(r) \in StoryKinds THEN 0 ELSE RolledBack
<1>5. \/ price \in 0 .. Reservation(r) /\ SettleLease(r, price)
      \/ price = RolledBack /\ CancelLease(r)
  BY <1>1, <1>2 DEF UndoLease
<1>6. CoversStory(r, price)
  BY <1>9, NothingOwed
<1>7. ~("done" = "done" /\ <<"rejected">> = <<"completed">>)
  OBVIOUS
<1> HIDE DEF price
<1>8. QED
  BY <1>1, <1>2, <1>3, <1>4, <1>5, <1>6, <1>7, EndsBy

\* A refused submission ends the request.
LEMMA SubmitRefusedEnds ==
  ASSUME IInv, UNCHANGED workload, NEW r \in Requests, SubmitRefused(r)
  PROVE  \E p \in Places, t \in Seq(Outcomes), n \in Int : Ends(r, p, t, n)
<1>1. /\ pc[r] = "reserved" /\ pc' = [pc EXCEPT ![r] = "done"] /\ holding' = holding \ {r}
      /\ Record(r, "rejected")
      /\ UndoLease(r)
      /\ UNCHANGED <<workload, counted, engine, streams, commands>> /\ Submitted(r) = {}
  BY DEF SubmitRefused, GiveBack, Gate!Release, Go, Waits, gateVars, quotaVars, handlerVars, threadVars, runnerVars
<1>2. pc[r] \in Held \ {"acquired"} /\ "rejected" \in Outcomes /\ "failed" \in Outcomes /\ "completed" \in Outcomes
      /\ Reservation(r) \in Nat
  BY <1>1, AtHandler, WorksFacts DEF Held, Outcomes
<1>9. Submitted(r) = {}
  BY <1>1
<1>3. recorded[r] = <<>> /\ <<"rejected">> \in Seq(Outcomes) /\ recorded' = [recorded EXCEPT ![r] = <<"rejected">>]
  BY <1>1, <1>2, AtHandler, RecordFacts DEF Told
<1>4. EndsAt(r, "done", <<"rejected">>)
  BY <1>3 DEF EndsAt
<1> DEFINE price == IF Kind(r) \in StoryKinds THEN 0 ELSE RolledBack
<1>5. \/ price \in 0 .. Reservation(r) /\ SettleLease(r, price)
      \/ price = RolledBack /\ CancelLease(r)
  BY <1>1, <1>2 DEF UndoLease
<1>6. CoversStory(r, price)
  BY <1>9, NothingOwed
<1>7. ~("done" = "done" /\ <<"rejected">> = <<"completed">>)
  OBVIOUS
<1> HIDE DEF price
<1>8. QED
  BY <1>1, <1>2, <1>3, <1>4, <1>5, <1>6, <1>7, EndsBy

\* The end of a rollback ends the request.
LEMMA EndRollbackEnds ==
  ASSUME IInv, UNCHANGED workload, NEW r \in Requests, EndRollback(r)
  PROVE  \E p \in Places, t \in Seq(Outcomes), n \in Int : Ends(r, p, t, n)
<1>1. /\ pc[r] = "rollback" /\ pc' = [pc EXCEPT ![r] = "done"] /\ holding' = holding \ {r}
      /\ Record(r, "rejected")
      /\ SettleLease(r, 0)
      /\ UNCHANGED <<workload, counted, engine, streams, commands>>
  BY DEF EndRollback, GiveBack, Gate!Release, Go, Waits, gateVars, quotaVars, handlerVars, threadVars, runnerVars
<1>2. pc[r] \in Held \ {"acquired"} /\ "rejected" \in Outcomes /\ "failed" \in Outcomes /\ "completed" \in Outcomes
      /\ Reservation(r) \in Nat
  BY <1>1, AtHandler, WorksFacts DEF Held, Outcomes
<1>3. recorded[r] = <<>> /\ <<"rejected">> \in Seq(Outcomes) /\ recorded' = [recorded EXCEPT ![r] = <<"rejected">>]
  BY <1>1, <1>2, AtHandler, RecordFacts DEF Told
<1>4. EndsAt(r, "done", <<"rejected">>)
  BY <1>3 DEF EndsAt
<1>5. 0 \in 0 .. Reservation(r)
  BY <1>2
<1>6. CoversStory(r, 0)
  BY <1>1, NothingOwed
<1>7. <<"rejected">> # <<"completed">>
  OBVIOUS
<1>8. QED
  BY <1>1, <1>2, <1>3, <1>4, <1>5, <1>6, <1>7, EndsBy

\* The results of all works end the request.
LEMMA AnsweredEnds ==
  ASSUME IInv, UNCHANGED workload, NEW r \in Requests, Answered(r)
  PROVE  \E p \in Places, t \in Seq(Outcomes), n \in Int : Ends(r, p, t, n)
<1>1. /\ pc[r] = "waiting" /\ pc' = [pc EXCEPT ![r] = "done"] /\ holding' = holding \ {r}
      /\ Record(r, IF Statuses(r) = {"finished"} THEN "completed" ELSE "failed")
      /\ SettleLease(r, Settlement(r))
      /\ UNCHANGED <<workload, counted, engine, streams, commands>> /\ Statuses(r) \subseteq Ended
  BY DEF Answered, At, GiveBack, Gate!Release, Go, Waits, gateVars, quotaVars, handlerVars, threadVars, runnerVars
<1>2. pc[r] \in Held \ {"acquired"} /\ "rejected" \in Outcomes /\ "failed" \in Outcomes /\ "completed" \in Outcomes
      /\ Reservation(r) \in Nat
  BY <1>1, AtHandler, WorksFacts DEF Held, Outcomes
<1> DEFINE o == IF Statuses(r) = {"finished"} THEN "completed" ELSE "failed"
           price == Settlement(r)
<1>3. recorded[r] = <<>> /\ <<o>> \in Seq(Outcomes) /\ recorded' = [recorded EXCEPT ![r] = <<o>>]
  <2>1. recorded[r] = <<>> /\ o \in Outcomes /\ Record(r, o)
    BY <1>1, <1>2, AtHandler DEF Told
  <2> HIDE DEF o
  <2>2. QED BY <2>1, AtHandler, RecordFacts
<1>9. Kind(r) \in {"plain", "story"}
  BY <1>1, AtHandler DEF OfItsKind
<1>4. EndsAt(r, "done", <<o>>)
  BY <1>3, <1>9 DEF EndsAt, StreamKinds
<1>10. AllEnded(r)
  BY <1>1 DEF AllEnded, Statuses
<1>5. price \in 0 .. Reservation(r) /\ SettleLease(r, price)
  <2>1. price = Generated(r) \/ price = Reservation(r)
    BY DEF Settlement
  <2>2. QED BY <1>1, <1>2, <2>1, SumsCovered
<1>6. CoversStory(r, price)
  <2>1. price = Generated(r) \/ price = Reservation(r)
    BY DEF Settlement
  <2>2. Generated(r) >= Generated(r)
    BY SumsCovered
  <2>3. QED BY <1>10, <2>1, <2>2 DEF CoversStory
<1>7. <<o>> = <<"completed">> => Completed(r, price)
  <2>1. <<"failed">> # <<"completed">>
    OBVIOUS
  <2>2. <<o>> = <<"completed">> => Statuses(r) = {"finished"}
    BY <2>1
  <2>3. Statuses(r) = {"finished"} => price = Generated(r)
    BY DEF Settlement
  <2> HIDE DEF o, price
  <2>4. QED BY <1>9, <1>10, <2>2, <2>3 DEF Completed, StreamKinds
<1> HIDE DEF o, price
<1>8. QED
  BY <1>1, <1>2, <1>3, <1>4, <1>5, <1>6, <1>7, EndsBy

\* The end of the cleanup ends the request.
LEMMA EndAbortEnds ==
  ASSUME IInv, UNCHANGED workload, NEW r \in Requests, EndAbort(r)
  PROVE  \E p \in Places, t \in Seq(Outcomes), n \in Int : Ends(r, p, t, n)
<1>1. /\ pc[r] = "aborting" /\ pc' = [pc EXCEPT ![r] = "done"] /\ holding' = holding \ {r}
      /\ RecordOnce(r, "failed")
      /\ SettleLease(r, AbortPrice(r))
      /\ UNCHANGED <<workload, counted, engine, streams, commands>>
  BY DEF EndAbort, At, GiveBack, Gate!Release, Go, Waits, gateVars, quotaVars, handlerVars, threadVars, runnerVars
<1>2. pc[r] \in Held \ {"acquired"} /\ "rejected" \in Outcomes /\ "failed" \in Outcomes /\ "completed" \in Outcomes
      /\ Reservation(r) \in Nat
  BY <1>1, AtHandler, WorksFacts DEF Held, Outcomes
<1> DEFINE s == IF recorded[r] = <<>> THEN <<"failed">> ELSE recorded[r]
           price == AbortPrice(r)
<1>3. s \in Seq(Outcomes) /\ recorded' = [recorded EXCEPT ![r] = s]
  BY <1>1, <1>2, AtHandler, RecordFacts DEF RecordOnce
<1>4. EndsAt(r, "done", s)
  BY DEF EndsAt
<1>9. Kind(r) \in {"plain", "story", "stream", "storyStream"}
  BY <1>1, AtHandler DEF OfItsKind, StreamKinds
<1>5. price \in 0 .. Reservation(r) /\ SettleLease(r, price)
  <2>1. 0 \in 0 .. Reservation(r) /\ Reservation(r) \in 0 .. Reservation(r)
    BY <1>2
  <2>2. Kind(r) \in StreamKinds => counted[r] \in 0 .. Reservation(r)
    BY <1>2, CountCovered
  <2>3. price \in 0 .. Reservation(r)
    BY <1>9, <2>1, <2>2 DEF AbortPrice, StreamKinds
  <2>4. QED BY <1>1, <2>3
<1>6. CoversStory(r, price)
  BY DEF CoversStory, AbortPrice
<1>7. s = <<"completed">> => Completed(r, price)
  <2> SUFFICES ASSUME s = <<"completed">> PROVE Completed(r, price)
    OBVIOUS
  <2>1. <<"failed">> # <<"completed">>
    OBVIOUS
  <2>2. recorded[r] = <<"completed">> /\ recorded[r] # <<>>
    BY <2>1
  <2>3. Kind(r) \in {"stream", "storyStream"}
    BY <1>1, <1>9, <2>2, AtHandler DEF Told
  <2>4. price = counted[r]
    BY <2>2, <2>3 DEF AbortPrice
  <2> HIDE DEF price
  <2>5. QED BY <2>3, <2>4 DEF Completed, StreamKinds
<1> HIDE DEF s, price
<1>8. QED
  BY <1>1, <1>2, <1>3, <1>4, <1>5, <1>6, <1>7, EndsBy

\* The server cancels the cleanup of a completion.
LEMMA AbortInterruptedEnds ==
  ASSUME IInv, UNCHANGED workload, NEW r \in Requests, AbortInterrupted(r)
  PROVE  \E p \in Places, t \in Seq(Outcomes), n \in Int : Ends(r, p, t, n)
<1>1. /\ pc[r] = "aborting" /\ pc' = [pc EXCEPT ![r] = "dropped"] /\ holding' = holding \ {r}
      /\ UNCHANGED recorded
      /\ SettleLease(r, 0)
      /\ UNCHANGED <<workload, counted, engine, streams, commands>> /\ Kind(r) = "plain"
  BY DEF AbortInterrupted, At, Gate!Release, Go, Waits, gateVars, quotaVars, handlerVars, threadVars, runnerVars
<1>2. pc[r] \in Held \ {"acquired"} /\ "rejected" \in Outcomes /\ "failed" \in Outcomes /\ "completed" \in Outcomes
      /\ Reservation(r) \in Nat
  BY <1>1, AtHandler, WorksFacts DEF Held, Outcomes
<1>3. recorded[r] \in Seq(Outcomes) /\ recorded' = [recorded EXCEPT ![r] = recorded[r]]
  BY <1>1, AtHandler, RecordFacts
<1>4. EndsAt(r, "dropped", recorded[r])
  BY DEF EndsAt
<1>5. 0 \in 0 .. Reservation(r)
  BY <1>2
<1>6. CoversStory(r, 0)
  BY <1>1, NothingOwed
<1>7. "dropped" # "done"
  OBVIOUS
<1>8. QED
  BY <1>1, <1>2, <1>3, <1>4, <1>5, <1>6, <1>7, EndsBy

\* The generator of a stream returns.
LEMMA CloseStreamEnds ==
  ASSUME IInv, UNCHANGED workload, NEW r \in Requests, CloseStream(r)
  PROVE  \E p \in Places, t \in Seq(Outcomes), n \in Int : Ends(r, p, t, n)
<1>1. /\ pc[r] = "closing" /\ pc' = [pc EXCEPT ![r] = "done"] /\ holding' = holding \ {r}
      /\ UNCHANGED recorded
      /\ SettleLease(r, counted[r])
      /\ UNCHANGED <<workload, counted, engine, streams, commands>>
  BY DEF CloseStream, At, GiveBack, Gate!Release, Go, Waits,
         gateVars, quotaVars, handlerVars, threadVars, runnerVars
<1>2. pc[r] \in Held \ {"acquired"} /\ "rejected" \in Outcomes /\ "failed" \in Outcomes /\ "completed" \in Outcomes
      /\ Reservation(r) \in Nat
  BY <1>1, AtHandler, WorksFacts DEF Held, Outcomes
<1>3. recorded[r] \in Seq(Outcomes) /\ recorded' = [recorded EXCEPT ![r] = recorded[r]]
  BY <1>1, AtHandler, RecordFacts
<1>9. recorded[r] # <<>> /\ Kind(r) \in StreamKinds
  <2>1. <<"completed">> # <<>>
    OBVIOUS
  <2>2. recorded[r] = <<"completed">>
    BY <1>1, AtHandler DEF Told
  <2>3. Kind(r) \in StreamKinds
    BY <1>1, AtHandler DEF OfItsKind
  <2>4. QED BY <2>1, <2>2, <2>3
<1>4. EndsAt(r, "done", recorded[r])
  BY <1>9 DEF EndsAt
<1>5. counted[r] \in 0 .. Reservation(r)
  BY <1>2, <1>9, CountCovered
<1>6. CoversStory(r, counted[r])
  BY <1>9, NothingOwed DEF StreamKinds
<1>7. Completed(r, counted[r])
  BY <1>9 DEF Completed, StreamKinds
<1>8. QED
  BY <1>1, <1>2, <1>3, <1>4, <1>5, <1>6, <1>7, EndsBy

\* An inspection ends, in any way.
LEMMA EndInspectionEnds ==
  ASSUME IInv, UNCHANGED workload, NEW r \in Requests, EndInspection(r)
  PROVE  \E p \in Places, t \in Seq(Outcomes), n \in Int : Ends(r, p, t, n)
<1>1. /\ pc[r] = "inspecting" /\ pc' = [pc EXCEPT ![r] = "done"] /\ holding' = holding \ {r}
      /\ (\E outcome \in {"failed", "completed"} : Record(r, outcome))
      /\ SettleLease(r, 0)
      /\ UNCHANGED <<workload, counted, engine, streams, commands>>
  BY DEF EndInspection, At, GiveBack, Gate!Release, Go, Waits,
         gateVars, quotaVars, handlerVars, threadVars, runnerVars
<1>2. pc[r] \in Held \ {"acquired"} /\ "rejected" \in Outcomes /\ "failed" \in Outcomes /\ "completed" \in Outcomes
      /\ Reservation(r) \in Nat
  BY <1>1, AtHandler, WorksFacts DEF Held, Outcomes
<1>9. Kind(r) = "predict" /\ recorded[r] = <<>>
  BY <1>1, AtHandler DEF Told, OfItsKind
<1>10. PICK o \in {"failed", "completed"} : Record(r, o)
  BY <1>1
<1>3. <<o>> \in Seq(Outcomes) /\ recorded' = [recorded EXCEPT ![r] = <<o>>]
  BY <1>2, <1>9, <1>10, AtHandler, RecordFacts
<1>4. EndsAt(r, "done", <<o>>)
  BY <1>9, <1>10 DEF EndsAt, StreamKinds
<1>5. 0 \in 0 .. Reservation(r)
  BY <1>2
<1>6. CoversStory(r, 0)
  BY <1>9, NothingOwed
<1>7. Completed(r, 0)
  BY <1>9 DEF Completed, StreamKinds
<1>8. QED
  BY <1>1, <1>2, <1>3, <1>4, <1>5, <1>6, <1>7, EndsBy

\* A refused inspection ends the request.
LEMMA InspectionRefusedEnds ==
  ASSUME IInv, UNCHANGED workload, NEW r \in Requests, InspectionRefused(r)
  PROVE  \E p \in Places, t \in Seq(Outcomes), n \in Int : Ends(r, p, t, n)
<1>1. /\ pc[r] = "inspecting" /\ pc' = [pc EXCEPT ![r] = "done"] /\ holding' = holding \ {r}
      /\ Record(r, "rejected")
      /\ CancelLease(r)
      /\ UNCHANGED <<workload, counted, engine, streams, commands>>
  BY DEF InspectionRefused, At, GiveBack, Gate!Release, Go, Waits,
         gateVars, quotaVars, handlerVars, threadVars, runnerVars
<1>2. pc[r] \in Held \ {"acquired"} /\ "rejected" \in Outcomes /\ "failed" \in Outcomes /\ "completed" \in Outcomes
      /\ Reservation(r) \in Nat
  BY <1>1, AtHandler, WorksFacts DEF Held, Outcomes
<1>9. Kind(r) = "predict"
  BY <1>1, AtHandler DEF OfItsKind
<1>3. recorded[r] = <<>> /\ <<"rejected">> \in Seq(Outcomes) /\ recorded' = [recorded EXCEPT ![r] = <<"rejected">>]
  BY <1>1, <1>2, AtHandler, RecordFacts DEF Told
<1>4. EndsAt(r, "done", <<"rejected">>)
  BY <1>3 DEF EndsAt
<1>5. RolledBack = RolledBack
  OBVIOUS
<1>6. CoversStory(r, RolledBack)
  BY <1>9, NothingOwed
<1>7. <<"rejected">> # <<"completed">>
  OBVIOUS
<1>8. QED
  BY <1>1, <1>2, <1>3, <1>4, <1>5, <1>6, <1>7, EndsBy

\* What waits, or what a thread does, is still.
LEMMA StillSteps ==
  /\ \A r \in Requests : UNCHANGED workload /\ (InterruptWaiter(r) \/ CancelNext(r)) => Still
  /\ \A r \in Requests : UNCHANGED workload /\ (PutInspection(r) \/ InspectionTimesOut(r)) => Still
  /\ \A w \in Works : UNCHANGED workload /\ (PutCancel(w) \/ CancelGivesUp(w)) => Still
  /\ UNCHANGED workload /\ BeginTick => Still
  /\ UNCHANGED vars => Still
<1>1. ASSUME NEW r \in Requests, UNCHANGED workload, InterruptWaiter(r) PROVE Still
  BY <1>1 DEF Still, InterruptWaiter, Gate!Interrupt, Waits, quotaVars, threadVars, runnerVars
<1>2. ASSUME NEW r \in Requests, UNCHANGED workload, CancelNext(r) PROVE Still
  BY <1>2 DEF Still, CancelNext, gateVars, quotaVars, runnerVars
<1>3. ASSUME NEW r \in Requests, UNCHANGED workload, PutInspection(r) PROVE Still
  <2>1. /\ UNCHANGED <<workload, holding, quota, charge, pc, recorded, counted, engine, streams>>
        /\ commands' = commands \/ commands' = Append(commands, [op |-> "inspect", of |-> r])
    BY <1>3 DEF PutInspection, gateVars, quotaVars, handlerVars
  <2>2. QED BY <2>1 DEF Still
<1>4. ASSUME NEW r \in Requests, UNCHANGED workload, InspectionTimesOut(r) PROVE Still
  BY <1>4 DEF Still, InspectionTimesOut, gateVars, quotaVars, handlerVars, runnerVars
<1>5. ASSUME NEW w \in Works, UNCHANGED workload, PutCancel(w) PROVE Still
  <2>1. /\ UNCHANGED <<workload, holding, quota, charge, pc, recorded, counted, engine, streams>>
        /\ commands' = Append(commands, [op |-> "cancel", of |-> w])
    BY <1>5 DEF PutCancel, gateVars, quotaVars, handlerVars
  <2>2. QED BY <2>1 DEF Still
<1>6. ASSUME NEW w \in Works, UNCHANGED workload, CancelGivesUp(w) PROVE Still
  BY <1>6 DEF Still, CancelGivesUp, gateVars, quotaVars, handlerVars, runnerVars
<1>7. ASSUME UNCHANGED workload, BeginTick PROVE Still
  BY <1>7 DEF Still, BeginTick, gateVars, quotaVars, handlerVars, threadVars
<1>8. ASSUME UNCHANGED vars PROVE Still
  BY <1>8 DEF Still, vars, gateVars, quotaVars, handlerVars, threadVars, runnerVars
<1>9. QED BY <1>1, <1>2, <1>3, <1>4, <1>5, <1>6, <1>7, <1>8

\* What the worker does leaves the handlers alone.
LEMMA WorkerSteps == UNCHANGED workload /\ (TakeCommand \/ EndTick \/ WorkerFails) => WorkerActs
<1>1. TakeCommand => UNCHANGED <<holding, quota, charge, pc, recorded, counted>>
  BY DEF TakeCommand, gateVars, quotaVars, handlerVars
<1>2. EndTick => UNCHANGED <<holding, quota, charge, pc, recorded, counted>>
  BY DEF EndTick, gateVars, quotaVars, handlerVars
<1>3. WorkerFails => UNCHANGED <<holding, quota, charge, pc, recorded, counted>>
  BY DEF WorkerFails, gateVars, quotaVars, handlerVars
<1>4. QED BY <1>1, <1>2, <1>3 DEF WorkerActs

\* Every step is of one of these kinds.
LEMMA StepKinds ==
  ASSUME IInv, [Next]_vars
  PROVE  Step
<1>1. ASSUME Still PROVE Step
  BY <1>1 DEF Step
<1>2. ASSUME NEW r \in Requests, NEW p \in Places, NEW s \in Seq(Outcomes), Moves(r, p, s) PROVE Step
  BY <1>2 DEF Step
<1>3. ASSUME NEW r \in Requests,
             \E p \in Places, t \in Seq(Outcomes), n \in Int : Ends(r, p, t, n)
      PROVE  Step
  BY <1>3 DEF Step
<1>4. "reading" \in Places /\ "acquired" \in Places /\ "queued" \in Places /\ "done" \in Places
      /\ "rollback" \in Places /\ "aborting" \in Places /\ "inspecting" \in Places
  BY DEF Places
<1>5. ASSUME NEW r \in Requests, HandlerStep(r) PROVE Step
  <2>1. UNCHANGED workload
    BY <1>5 DEF HandlerStep
  <2>2. CASE Reserve(r)
    BY <2>1, <2>2 DEF Step
  <2>3. CASE FindQuotaFull(r)
    BY <1>2, <1>4, <2>1, <2>3, FindQuotaFullMoves
  <2>4. CASE RefuseFraming(r)
    BY <1>3, <2>1, <2>4, RefuseFramingEnds
  <2>5. CASE SubmitNext(r)
    BY <2>1, <2>5 DEF Step
  <2>6. CASE SubmitRefused(r)
    BY <1>3, <2>1, <2>6, SubmitRefusedEnds
  <2>7. CASE BeginRollback(r)
    BY <1>2, <1>4, <2>1, <2>7, BeginRollbackMoves
  <2>8. CASE CancelNext(r)
    BY <1>1, <2>1, <2>8, StillSteps
  <2>9. CASE EndRollback(r)
    BY <1>3, <2>1, <2>9, EndRollbackEnds
  <2>10. CASE EndAbort(r)
    BY <1>3, <2>1, <2>10, EndAbortEnds
  <2>11. CASE GetSlot(r)
    BY <1>2, <1>4, <2>1, <2>11, GetSlotMoves
  <2>12. CASE StopWaiting(r)
    BY <1>2, <1>4, <2>1, <2>12, StopWaitingMoves
  <2>13. CASE CloseStream(r)
    BY <1>3, <2>1, <2>13, CloseStreamEnds
  <2>14. CASE StartInspection(r)
    BY <1>2, <1>4, <2>1, <2>14, StartInspectionMoves
  <2>15. CASE InspectionRefused(r)
    BY <1>3, <2>1, <2>15, InspectionRefusedEnds
  <2>16. QED
    BY <1>5, <2>2, <2>3, <2>4, <2>5, <2>6, <2>7, <2>8, <2>9, <2>10, <2>11, <2>12, <2>13, <2>14, <2>15
    DEF HandlerStep
<1>6. ASSUME NEW r \in Requests, Deadline(r) PROVE Step
  <2>1. UNCHANGED workload
    BY <1>6 DEF Deadline
  <2>2. CASE LeaveReading(r)
    BY <1>2, <1>4, <2>1, <2>2, LeaveReadingMoves
  <2>3. CASE InterruptWaiter(r)
    BY <1>1, <2>1, <2>3, StillSteps
  <2>4. CASE Abort(r)
    BY <1>2, <1>4, <2>1, <2>4, AbortMoves
  <2>5. CASE BreakStream(r)
    BY <1>2, <1>4, <2>1, <2>5, BreakStreamMoves
  <2>6. CASE EndInspection(r)
    BY <1>3, <2>1, <2>6, EndInspectionEnds
  <2>7. QED BY <1>6, <2>2, <2>3, <2>4, <2>5, <2>6 DEF Deadline
<1>7. ASSUME NEW r \in Requests, Client(r) PROVE Step
  <2>1. UNCHANGED workload
    BY <1>7 DEF Client
  <2>2. CASE Arrive(r)
    BY <1>2, <1>4, <2>1, <2>2, ArriveMoves
  <2>3. CASE AcquireSlot(r)
    BY <1>2, <1>4, <2>1, <2>3, AcquireSlotMoves
  <2>4. CASE WaitForSlot(r)
    BY <1>2, <1>4, <2>1, <2>4, WaitForSlotMoves
  <2>5. CASE FindLineFull(r)
    BY <1>2, <1>4, <2>1, <2>5, FindLineFullMoves
  <2>6. CASE Answered(r)
    BY <1>3, <2>1, <2>6, AnsweredEnds
  <2>7. CASE AbortInterrupted(r)
    BY <1>3, <2>1, <2>7, AbortInterruptedEnds
  <2>8. QED BY <1>7, <2>2, <2>3, <2>4, <2>5, <2>6, <2>7 DEF Client
<1>8. ASSUME NEW r \in Requests, Inspector(r) PROVE Step
  BY <1>1, <1>8, StillSteps DEF Inspector
<1>9. ASSUME NEW w \in Works, Reader(w) PROVE Step
  BY <1>9 DEF Reader, Step
<1>10. ASSUME NEW w \in Works, Thread(w) PROVE Step
  BY <1>1, <1>10, StillSteps DEF Thread
<1>11. ASSUME Runner PROVE Step
  <2>1. CASE BeginTick
    BY <1>1, <1>11, <2>1, StillSteps DEF Runner
  <2>2. CASE TakeCommand \/ EndTick \/ WorkerFails
    BY <1>11, <2>2, WorkerSteps DEF Runner, Step
  <2>3. QED BY <1>11, <2>1, <2>2 DEF Runner
<1>12. CASE UNCHANGED vars
  BY <1>1, <1>12, StillSteps
<1>13. QED
  BY <1>5, <1>6, <1>7, <1>8, <1>9, <1>10, <1>11, <1>12 DEF Next

\* The workload is chosen once.
LEMMA SameWorkload ==
  ASSUME UNCHANGED workload, NEW r \in Requests
  PROVE  /\ Kind(r)' = Kind(r) /\ MaxTokens(r)' = MaxTokens(r) /\ WorksOf(r)' = WorksOf(r)
         /\ Reservation(r)' = Reservation(r)
<1>1. Kind(r)' = Kind(r) /\ MaxTokens(r)' = MaxTokens(r)
  BY DEF Kind, MaxTokens
<1>2. WorksOf(r)' = WorksOf(r)
  BY <1>1 DEF WorksOf
<1>3. QED BY <1>1, <1>2 DEF Reservation

\* A handler that a step leaves alone.
LEMMA SameHandler ==
  ASSUME UNCHANGED workload, NEW q \in Requests, Placed(q), Told(q), OfItsKind(q),
         pc'[q] = pc[q], recorded'[q] = recorded[q], charge'[q] = charge[q],
         q \in holding' <=> q \in holding,
         q \in DOMAIN quota'.reserved <=> q \in DOMAIN quota.reserved,
         q \in DOMAIN quota.reserved => quota'.reserved[q] = quota.reserved[q],
         q \in Ids(quota') => q \in Ids(quota)
  PROVE  Placed(q)' /\ Told(q)' /\ OfItsKind(q)'
<1>1. Kind(q)' = Kind(q) /\ Reservation(q)' = Reservation(q)
  BY SameWorkload
<1>2. Placed(q)'
  BY <1>1 DEF Placed, Over
<1>3. Told(q)'
  BY <1>1 DEF Told
<1>4. OfItsKind(q)'
  BY <1>1 DEF OfItsKind
<1>5. QED BY <1>2, <1>3, <1>4

\* A step that leaves every handler alone.
LEMMA HandlersLeftAlone ==
  ASSUME HandlersSound, UNCHANGED <<workload, holding, quota, charge, pc, recorded>>
  PROVE  HandlersSound'
<1>1. HandlersTyped'
  BY DEF HandlersSound, HandlersTyped, IdsDistinct
<1>2. ASSUME NEW q \in Requests PROVE Placed(q)' /\ Told(q)' /\ OfItsKind(q)'
  <2>1. Placed(q) /\ Told(q) /\ OfItsKind(q)
    BY DEF HandlersSound
  <2>2. QED BY <2>1, SameHandler
<1>3. QED BY <1>1, <1>2 DEF HandlersSound

\* In a step that changes one handler's place and what it told, the others
\* stay as they are.
LEMMA OthersLeftAlone ==
  ASSUME HandlersTyped, NEW r \in Requests, NEW q \in Requests, q # r, NEW place, NEW s,
         Placed(q), Told(q), OfItsKind(q), UNCHANGED workload,
         pc' = [pc EXCEPT ![r] = place], recorded' = [recorded EXCEPT ![r] = s],
         charge'[q] = charge[q],
         q \in holding' <=> q \in holding,
         DOMAIN quota'.reserved \ {r} = DOMAIN quota.reserved \ {r},
         \A other \in DOMAIN quota.reserved \ {r} : quota'.reserved[other] = quota.reserved[other],
         Ids(quota') \ {r} \subseteq Ids(quota)
  PROVE  Placed(q)' /\ Told(q)' /\ OfItsKind(q)'
<1>1. pc'[q] = pc[q] /\ recorded'[q] = recorded[q]
  BY DEF HandlersTyped
<1>2. /\ q \in DOMAIN quota'.reserved <=> q \in DOMAIN quota.reserved
      /\ q \in DOMAIN quota.reserved => quota'.reserved[q] = quota.reserved[q]
      /\ q \in Ids(quota') => q \in Ids(quota)
  OBVIOUS
<1>3. QED BY <1>1, <1>2, SameHandler

\* A handler that goes on, before it owes anything or while it does.
LEMMA MovesHandlers ==
  ASSUME HandlersSound, NEW r \in Requests, NEW place \in Places, NEW s \in Seq(Outcomes),
         Moves(r, place, s)
  PROVE  HandlersSound'
<1>1. /\ UNCHANGED <<workload, quota, charge>> /\ Passes(r, place, s)
      /\ pc' = [pc EXCEPT ![r] = place] /\ recorded' = [recorded EXCEPT ![r] = s]
      /\ holding' = IF place \in Held THEN holding \cup {r} ELSE holding \ {r}
  BY DEF Moves
<1>2. HandlersTyped /\ Placed(r) /\ Told(r) /\ OfItsKind(r)
  BY DEF HandlersSound
<1>3. HandlersTyped'
  BY <1>1, <1>2 DEF HandlersTyped, IdsDistinct
<1>4. ASSUME NEW q \in Requests, q # r PROVE Placed(q)' /\ Told(q)' /\ OfItsKind(q)'
  <2>1. Placed(q) /\ Told(q) /\ OfItsKind(q)
    BY DEF HandlersSound
  <2>2. /\ charge'[q] = charge[q] /\ (q \in holding' <=> q \in holding)
        /\ DOMAIN quota'.reserved \ {r} = DOMAIN quota.reserved \ {r}
        /\ \A other \in DOMAIN quota.reserved \ {r} : quota'.reserved[other] = quota.reserved[other]
        /\ Ids(quota') \ {r} \subseteq Ids(quota)
    BY <1>1, <1>4
  <2>3. QED BY <1>1, <1>2, <1>4, <2>1, <2>2, OthersLeftAlone
<1>5. pc'[r] = place /\ recorded'[r] = s /\ pc[r] \in Places
  BY <1>1, <1>2 DEF HandlersTyped
<1>6. Kind(r)' = Kind(r) /\ Reservation(r)' = Reservation(r) /\ Ids(quota)' = Ids(quota)
  BY <1>1, SameWorkload
<1>7. r \in holding' <=> place \in Held
  BY <1>1
<1>8. Placed(r)'
  <2>1. /\ pc[r] \in Held \ {"acquired"} <=> place \in Held \ {"acquired"}
        /\ place \in Early \cup {"acquired"} => pc[r] \in Early \cup {"acquired"}
        /\ pc[r] \notin {"done", "dropped"}
    BY <1>1 DEF Passes, Held, Early
  <2>2. QED BY <1>1, <1>2, <1>5, <1>6, <1>7, <2>1 DEF Placed, Over
<1>9. Told(r)'
  <2>1. <<"failed">> # <<>> /\ <<"rejected">> # <<>>
    OBVIOUS
  <2>2. "failed" \in Outcomes /\ "rejected" \in Outcomes
    BY DEF Outcomes
  <2>3. QED BY <1>1, <1>2, <1>5, <1>6, <2>1, <2>2 DEF Passes, Told, OfItsKind, StreamKinds
<1>10. OfItsKind(r)'
  BY <1>1, <1>2, <1>5, <1>6 DEF Passes, OfItsKind, StoryKinds, StreamKinds
<1>11. QED BY <1>3, <1>4, <1>8, <1>9, <1>10 DEF HandlersSound

\* A handler that reserves its tokens.
LEMMA ReserveHandlers ==
  ASSUME HandlersSound, UNCHANGED workload, NEW r \in Requests, Reserve(r)
  PROVE  HandlersSound'
<1>1. /\ pc[r] = "acquired" /\ quota' = Quota!Admitted(quota, r, Reservation(r), 0)
      /\ pc' = [pc EXCEPT ![r] = "reserved"] /\ UNCHANGED <<holding, charge, recorded>>
  BY DEF Reserve, Go, gateVars
<1>2. HandlersTyped /\ Placed(r) /\ Told(r) /\ OfItsKind(r)
  BY DEF HandlersSound
<1>3. Reservation(r) \in Nat /\ quota \in Quotas /\ IdsDistinct(quota) /\ workload \in Workloads
  BY <1>2, WorksFacts DEF HandlersTyped
<1>4. r \notin Ids(quota) /\ r \notin DOMAIN quota.reserved /\ r \in holding
  BY <1>1, <1>2 DEF Placed, Held, Early
<1>5. /\ quota' \in Quotas
      /\ DOMAIN quota'.reserved = DOMAIN quota.reserved \cup {r}
      /\ quota'.reserved[r] = Reservation(r)
      /\ \A other \in DOMAIN quota.reserved \ {r} : quota'.reserved[other] = quota.reserved[other]
      /\ IdsDistinct(quota') /\ Ids(quota') = Ids(quota) \cup {r}
  <2> DEFINE m == Reservation(r)
             h == Quota!Admitted(quota, r, m, 0)
  <2>1. m \in Nat
    BY <1>3
  <2>2. quota' = h
    BY <1>1
  <2> HIDE DEF m
  <2>3. /\ h \in Quotas
        /\ DOMAIN h.reserved = DOMAIN quota.reserved \cup {r} /\ h.reserved[r] = m
        /\ \A other \in DOMAIN quota.reserved \ {r} : h.reserved[other] = quota.reserved[other]
        /\ IdsDistinct(quota) /\ r \notin Ids(quota) => IdsDistinct(h)
        /\ Ids(h) = Ids(quota) \cup {r}
    <3>1. quota \in Quotas
      BY <1>3
    <3>2. QED BY <2>1, <3>1, AdmittedFacts
  <2> HIDE DEF h
  <2>4. IdsDistinct(h)
    BY <1>3, <1>4, <2>3
  <2>5. IdsDistinct(quota') /\ Ids(quota') = Ids(quota) \cup {r}
    BY <2>2, <2>3, <2>4 DEF IdsDistinct, Ids
  <2>6. QED BY <2>2, <2>3, <2>5 DEF m
<1>6. HandlersTyped'
  <2>1. "reserved" \in Places
    BY DEF Places
  <2>2. IdsDistinct(quota)'
    BY <1>5 DEF IdsDistinct
  <2>3. QED BY <1>1, <1>2, <1>5, <2>1, <2>2 DEF HandlersTyped
<1>7. ASSUME NEW q \in Requests, q # r PROVE Placed(q)' /\ Told(q)' /\ OfItsKind(q)'
  <2>1. Placed(q) /\ Told(q) /\ OfItsKind(q)
    BY DEF HandlersSound
  <2>2. pc'[q] = pc[q]
    BY <1>1, <1>2, <1>7 DEF HandlersTyped
  <2>3. QED BY <1>1, <1>5, <1>7, <2>1, <2>2, SameHandler
<1>8. pc'[r] = "reserved"
  BY <1>1, <1>2 DEF HandlersTyped
<1>9. Kind(r)' = Kind(r) /\ Reservation(r)' = Reservation(r)
  BY SameWorkload
<1>10. Placed(r)'
  BY <1>1, <1>2, <1>4, <1>5, <1>8, <1>9 DEF Placed, Held, Early, Over
<1>11. Told(r)' /\ OfItsKind(r)'
  BY <1>1, <1>2, <1>8, <1>9 DEF Told, OfItsKind
<1>12. QED BY <1>6, <1>7, <1>10, <1>11 DEF HandlersSound

\* A handler that ends.
LEMMA EndsHandlers ==
  ASSUME HandlersSound, NEW r \in Requests, NEW place \in Places, NEW s \in Seq(Outcomes),
         NEW price \in Int, Ends(r, place, s, price)
  PROVE  HandlersSound'
<1>1. /\ UNCHANGED workload /\ pc[r] \in Held \ {"acquired"} /\ EndsAt(r, place, s)
      /\ pc' = [pc EXCEPT ![r] = place] /\ recorded' = [recorded EXCEPT ![r] = s]
      /\ holding' = holding \ {r} /\ charge' = [charge EXCEPT ![r] = price]
      /\ \/ price \in 0 .. Reservation(r) /\ quota' = Quota!Settled(quota, r, price, 0)
         \/ price = RolledBack /\ quota' = Quota!RolledBack(quota, r)
  BY DEF Ends
<1>2. HandlersTyped /\ Placed(r) /\ Told(r) /\ OfItsKind(r)
  BY DEF HandlersSound
<1>3. Reservation(r) \in Nat /\ quota \in Quotas /\ IdsDistinct(quota) /\ workload \in Workloads
  BY <1>2, WorksFacts DEF HandlersTyped
<1>4. /\ quota' \in Quotas /\ IdsDistinct(quota')
      /\ DOMAIN quota'.reserved = DOMAIN quota.reserved \ {r}
      /\ \A other \in DOMAIN quota.reserved \ {r} : quota'.reserved[other] = quota.reserved[other]
      /\ Ids(quota') \subseteq Ids(quota)
  <2>1. CASE price \in 0 .. Reservation(r) /\ quota' = Quota!Settled(quota, r, price, 0)
    <3>1. price \in Nat
      BY <1>3, <2>1
    <3>2. /\ Quota!Settled(quota, r, price, 0) \in Quotas
          /\ Quota!Settled(quota, r, price, 0).requests = quota.requests
          /\ DOMAIN Quota!Settled(quota, r, price, 0).reserved = DOMAIN quota.reserved \ {r}
          /\ \A other \in DOMAIN quota.reserved \ {r} :
               Quota!Settled(quota, r, price, 0).reserved[other] = quota.reserved[other]
      BY <1>3, <3>1, SettledFacts
    <3>3. IdsDistinct(quota') /\ Ids(quota') = Ids(quota)
      BY <1>3, <2>1, <3>2 DEF IdsDistinct, Ids
    <3>4. QED BY <2>1, <3>2, <3>3
  <2>2. CASE quota' = Quota!RolledBack(quota, r)
    <3>1. /\ Quota!RolledBack(quota, r) \in Quotas
          /\ DOMAIN Quota!RolledBack(quota, r).reserved = DOMAIN quota.reserved \ {r}
          /\ \A other \in DOMAIN quota.reserved \ {r} :
               Quota!RolledBack(quota, r).reserved[other] = quota.reserved[other]
          /\ IdsDistinct(Quota!RolledBack(quota, r)) /\ Ids(Quota!RolledBack(quota, r)) \in SUBSET Ids(quota)
      BY <1>3, RolledBackFacts
    <3>2. QED BY <2>2, <3>1
  <2>3. QED BY <1>1, <2>1, <2>2
<1>5. HandlersTyped'
  <2>1. IdsDistinct(quota)'
    BY <1>4 DEF IdsDistinct
  <2>2. QED BY <1>1, <1>2, <1>4, <2>1 DEF HandlersTyped
<1>6. ASSUME NEW q \in Requests, q # r PROVE Placed(q)' /\ Told(q)' /\ OfItsKind(q)'
  <2>1. Placed(q) /\ Told(q) /\ OfItsKind(q)
    BY DEF HandlersSound
  <2>2. charge'[q] = charge[q]
    BY <1>1, <1>2, <1>6 DEF HandlersTyped
  <2>3. q \in holding' <=> q \in holding
    BY <1>1, <1>6
  <2>4. DOMAIN quota'.reserved \ {r} = DOMAIN quota.reserved \ {r} /\ Ids(quota') \ {r} \subseteq Ids(quota)
    BY <1>4
  <2>5. QED BY <1>1, <1>2, <1>4, <1>6, <2>1, <2>2, <2>3, <2>4, OthersLeftAlone
<1>7. pc'[r] = place /\ recorded'[r] = s /\ charge'[r] = price
  BY <1>1, <1>2 DEF HandlersTyped
<1>8. Kind(r)' = Kind(r) /\ Reservation(r)' = Reservation(r) /\ Kind(r) # "absent"
  <2>1. pc[r] # "new"
    BY <1>1 DEF Held
  <2>2. QED BY <1>1, <1>2, <2>1, SameWorkload DEF OfItsKind
<1>9. place \in {"done", "dropped"}
  BY <1>1 DEF EndsAt
<1>10. r \notin holding' /\ r \notin DOMAIN quota'.reserved
  BY <1>1, <1>4
<1>11. Placed(r)'
  BY <1>7, <1>9, <1>10 DEF Placed, Held, Early, Over
<1>12. Told(r)'
  <2>1. /\ s # <<>> \/ place = "dropped"
        /\ s = <<>> \/ \E o \in Outcomes : s = <<o>>
    <3>1. <<"completed">> # <<>> /\ <<"failed">> # <<>> /\ <<"rejected">> # <<>>
      OBVIOUS
    <3>2. {"completed", "failed", "rejected"} = Outcomes
      BY DEF Outcomes
    <3>3. recorded[r] = <<>> \/ \E o \in Outcomes : recorded[r] = <<o>>
      BY <1>2 DEF Told
    <3>4. QED BY <1>1, <3>1, <3>2, <3>3 DEF EndsAt
  <2>2. QED BY <1>7, <1>9, <2>1 DEF Told
<1>13. OfItsKind(r)'
  BY <1>7, <1>8, <1>9 DEF OfItsKind
<1>14. QED BY <1>5, <1>6, <1>11, <1>12, <1>13 DEF HandlersSound

\* The request of a work.
LEMMA WorkFacts ==
  ASSUME NEW w \in Works
  PROVE  w[1] \in Requests /\ w = <<w[1], w[2]>> /\ w[2] \in 1 .. BranchCount
BY DEF Works

\* What the invariant says of one work.
LEMMA AtWork ==
  ASSUME EngineSound, NEW w \in Works
  PROVE  /\ engine \in [Works -> [status : WorkStates, tokens : Nat]]
         /\ streams \in [Works -> [emitted : Nat, seen : Nat, terminal : Terminals, ended : BOOLEAN]]
         /\ engine[w] \in [status : WorkStates, tokens : Nat]
         /\ streams[w] \in [emitted : Nat, seen : Nat, terminal : Terminals, ended : BOOLEAN]
         /\ WorkSound(w)
BY DEF EngineSound, EngineTyped

\* A work that a step leaves alone.
LEMMA SameWork ==
  ASSUME UNCHANGED workload, NEW w \in Works, WorkSound(w),
         engine'[w] = engine[w], streams'[w] = streams[w],
         pc'[w[1]] \in Early \cup {"acquired"} => pc[w[1]] \in Early \cup {"acquired"}
  PROVE  WorkSound(w)'
<1>1. MaxTokens(w[1])' = MaxTokens(w[1]) /\ WorksOf(w[1])' = WorksOf(w[1])
  BY WorkFacts, SameWorkload
<1>2. QED BY <1>1 DEF WorkSound

\* The works the runner took of a request.
LEMMA SameSubmitted ==
  ASSUME UNCHANGED workload, NEW r \in Requests,
         \A w \in WorksOf(r) : engine'[w].status = "none" <=> engine[w].status = "none"
  PROVE  Submitted(r)' = Submitted(r)
<1>1. WorksOf(r)' = WorksOf(r)
  BY SameWorkload
<1>2. QED BY <1>1 DEF Submitted

\* Submission, when a step takes nothing more of a request.
LEMMA SameSubmit ==
  ASSUME UNCHANGED workload, NEW r \in Requests, SubmitSound(r),
         \A w \in WorksOf(r) : engine'[w].status = "none" <=> engine[w].status = "none",
         pc'[r] \in {"reserved", "rollback"} => pc'[r] = pc[r]
  PROVE  SubmitSound(r)'
<1>1. Submitted(r)' = Submitted(r)
  BY SameSubmitted
<1>2. WorksOf(r)' = WorksOf(r) /\ Kind(r)' = Kind(r)
  BY SameWorkload
<1>3. QED BY <1>1, <1>2 DEF SubmitSound

\* The queue, when a command leaves it.
LEMMA TakenQueue ==
  ASSUME EngineTyped, QueueSound, commands # <<>>, commands' = Tail(commands),
         \A w \in Works :
           /\ engine[w].status = "queued"
           /\ ~(Head(commands).op = "submit" /\ Head(commands).of = w)
           => engine'[w].status = "queued"
  PROVE  /\ commands' \in Seq([op : {"submit", "cancel", "inspect"}, of : Works \cup Requests])
         /\ QueueSound'
<1> DEFINE n == Len(commands)
           Entry == [op : {"submit", "cancel", "inspect"}, of : Works \cup Requests]
<1>1. commands \in Seq(Entry) /\ n \in Nat /\ n > 0 /\ DOMAIN commands = 1 .. n
  BY DEF EngineTyped
<1>2. /\ commands' \in Seq(Entry) /\ DOMAIN commands' = 1 .. n - 1
      /\ \A i \in 1 .. n - 1 : commands'[i] = commands[i + 1]
  BY <1>1
<1>3. \A i \in 1 .. n - 1 : i + 1 \in 1 .. n /\ i + 1 # 1
  BY <1>1
<1>4. Head(commands) = commands[1] /\ 1 \in 1 .. n
  BY <1>1
<1>5. ASSUME NEW i \in DOMAIN commands', commands'[i].op = "submit"
      PROVE  commands'[i].of \in Works /\ engine'[commands'[i].of].status = "queued"
  <2> DEFINE w == commands[i + 1].of
  <2>1. commands'[i] = commands[i + 1] /\ i + 1 \in 1 .. n /\ i + 1 # 1
    BY <1>2, <1>3
  <2>2. w \in Works /\ engine[w].status = "queued"
    BY <1>1, <1>5, <2>1 DEF QueueSound
  <2>3. ~(Head(commands).op = "submit" /\ Head(commands).of = w)
    BY <1>1, <1>4, <1>5, <2>1 DEF QueueSound
  <2>4. engine'[w].status = "queued"
    BY <2>2, <2>3
  <2>5. QED BY <2>1, <2>2, <2>4
<1>6. \A i \in DOMAIN commands' : commands'[i].op = "cancel" => commands'[i].of \in Works
  BY <1>1, <1>2, <1>3 DEF QueueSound
<1>7. ASSUME NEW i \in DOMAIN commands', NEW j \in DOMAIN commands',
             commands'[i].op = "submit", commands'[j].op = "submit", commands'[i].of = commands'[j].of
      PROVE  i = j
  <2>1. /\ commands'[i] = commands[i + 1] /\ i + 1 \in 1 .. n
        /\ commands'[j] = commands[j + 1] /\ j + 1 \in 1 .. n
    BY <1>2, <1>3
  <2>2. i + 1 = j + 1
    BY <1>1, <1>7, <2>1 DEF QueueSound
  <2>3. i \in Int /\ j \in Int
    BY <1>2
  <2>4. QED BY <2>2, <2>3
<1>8. QED BY <1>2, <1>5, <1>6, <1>7 DEF QueueSound

\* The queue, when a command joins it.
LEMMA JoinedQueue ==
  ASSUME EngineTyped, QueueSound,
         NEW c \in [op : {"submit", "cancel", "inspect"}, of : Works \cup Requests],
         commands' = Append(commands, c),
         c.op \in {"submit", "cancel"} => c.of \in Works,
         \A w \in Works : engine[w].status = "queued" => engine'[w].status = "queued",
         c.op = "submit" => engine[c.of].status # "queued" /\ engine'[c.of].status = "queued"
  PROVE  /\ commands' \in Seq([op : {"submit", "cancel", "inspect"}, of : Works \cup Requests])
         /\ QueueSound'
<1> DEFINE n == Len(commands)
           Entry == [op : {"submit", "cancel", "inspect"}, of : Works \cup Requests]
<1>1. commands \in Seq(Entry) /\ n \in Nat /\ DOMAIN commands = 1 .. n
  BY DEF EngineTyped
<1>2. /\ commands' \in Seq(Entry) /\ DOMAIN commands' = 1 .. n + 1 /\ commands'[n + 1] = c
      /\ \A i \in 1 .. n : commands'[i] = commands[i]
  BY <1>1
<1>3. 1 .. n + 1 = 1 .. n \cup {n + 1}
  BY <1>1
<1>4. ASSUME NEW i \in DOMAIN commands', commands'[i].op = "submit"
      PROVE  commands'[i].of \in Works /\ engine'[commands'[i].of].status = "queued"
  <2>1. CASE i = n + 1
    BY <1>2, <1>4, <2>1
  <2>2. CASE i \in 1 .. n
    <3>1. commands'[i] = commands[i] /\ commands[i].of \in Works /\ engine[commands[i].of].status = "queued"
      BY <1>1, <1>2, <1>4, <2>2 DEF QueueSound
    <3>2. QED BY <3>1
  <2>3. QED BY <1>2, <1>3, <2>1, <2>2
<1>5. \A i \in DOMAIN commands' : commands'[i].op = "cancel" => commands'[i].of \in Works
  BY <1>1, <1>2, <1>3 DEF QueueSound
<1>6. ASSUME NEW i \in 1 .. n, commands[i].op = "submit", c.op = "submit"
      PROVE  commands[i].of # c.of
  BY <1>1, <1>6 DEF QueueSound
<1>7. ASSUME NEW i \in 1 .. n + 1, NEW j \in 1 .. n + 1,
             commands'[i].op = "submit", commands'[j].op = "submit", commands'[i].of = commands'[j].of
      PROVE  i = j
  <2>1. CASE i \in 1 .. n /\ j \in 1 .. n
    BY <1>1, <1>2, <1>7, <2>1 DEF QueueSound
  <2>2. CASE i = n + 1 /\ j \in 1 .. n
    BY <1>2, <1>6, <1>7, <2>2
  <2>3. CASE i \in 1 .. n /\ j = n + 1
    BY <1>2, <1>6, <1>7, <2>3
  <2>4. QED BY <1>3, <2>1, <2>2, <2>3
<1>8. QED BY <1>2, <1>4, <1>5, <1>7 DEF QueueSound

\* The queue, when a step leaves it alone.
LEMMA SameQueue ==
  ASSUME EngineTyped, QueueSound, UNCHANGED commands,
         \A w \in Works : engine[w].status = "queued" => engine'[w].status = "queued"
  PROVE  /\ commands' \in Seq([op : {"submit", "cancel", "inspect"}, of : Works \cup Requests])
         /\ QueueSound'
BY DEF EngineTyped, QueueSound

\* A step that leaves the works alone.
LEMMA WorksLeftAlone ==
  ASSUME EngineSound, UNCHANGED <<workload, engine, streams, counted>>,
         commands' \in Seq([op : {"submit", "cancel", "inspect"}, of : Works \cup Requests]),
         QueueSound',
         \A r \in Requests : pc'[r] \in Early \cup {"acquired"} => pc[r] \in Early \cup {"acquired"},
         \A r \in Requests : SubmitSound(r)'
  PROVE  EngineSound'
<1>1. EngineTyped'
  BY DEF EngineSound, EngineTyped
<1>2. ASSUME NEW w \in Works PROVE WorkSound(w)'
  <2>1. w[1] \in Requests /\ WorkSound(w)
    BY WorkFacts DEF EngineSound
  <2>2. QED BY <2>1, SameWork
<1>3. QED BY <1>1, <1>2 DEF EngineSound

\* A call that joins the queue disturbs no work.
LEMMA StillEngine ==
  ASSUME EngineSound, Still
  PROVE  EngineSound'
<1>1. UNCHANGED <<workload, pc, counted, engine, streams>>
  BY DEF Still
<1>2. EngineTyped /\ QueueSound
  BY DEF EngineSound
<1>3. /\ commands' \in Seq([op : {"submit", "cancel", "inspect"}, of : Works \cup Requests])
      /\ QueueSound'
  <2>1. CASE commands' = commands
    BY <1>1, <1>2, <2>1, SameQueue
  <2>2. ASSUME NEW w \in Works, commands' = Append(commands, [op |-> "cancel", of |-> w])
        PROVE  /\ commands' \in Seq([op : {"submit", "cancel", "inspect"}, of : Works \cup Requests])
               /\ QueueSound'
    <3> DEFINE c == [op |-> "cancel", of |-> w]
    <3>1. c \in [op : {"submit", "cancel", "inspect"}, of : Works \cup Requests] /\ c.op = "cancel" /\ c.of = w
      OBVIOUS
    <3> HIDE DEF c
    <3>2. commands' = Append(commands, c)
      BY <2>2 DEF c
    <3>3. QED BY <1>1, <1>2, <3>1, <3>2, JoinedQueue
  <2>3. ASSUME NEW r \in Requests, commands' = Append(commands, [op |-> "inspect", of |-> r])
        PROVE  /\ commands' \in Seq([op : {"submit", "cancel", "inspect"}, of : Works \cup Requests])
               /\ QueueSound'
    <3> DEFINE c == [op |-> "inspect", of |-> r]
    <3>1. c \in [op : {"submit", "cancel", "inspect"}, of : Works \cup Requests] /\ c.op = "inspect"
      OBVIOUS
    <3> HIDE DEF c
    <3>2. commands' = Append(commands, c)
      BY <2>3 DEF c
    <3>3. QED BY <1>1, <1>2, <3>1, <3>2, JoinedQueue
  <2>4. QED BY <2>1, <2>2, <2>3 DEF Still
<1>4. ASSUME NEW r \in Requests PROVE SubmitSound(r)'
  <2>1. SubmitSound(r)
    BY DEF EngineSound
  <2>2. QED BY <1>1, <2>1, SameSubmit
<1>5. QED BY <1>1, <1>3, <1>4, WorksLeftAlone

\* The handlers' own steps leave the works and the queue alone.
LEMMA MovesEngine ==
  ASSUME IInv, NEW r \in Requests, NEW place \in Places, NEW s \in Seq(Outcomes), Moves(r, place, s)
  PROVE  EngineSound'
<1>1. /\ UNCHANGED <<workload, counted, engine, streams, commands>> /\ Passes(r, place, s)
      /\ pc' = [pc EXCEPT ![r] = place]
  BY DEF Moves
<1>2. /\ EngineSound /\ EngineTyped /\ QueueSound /\ pc \in [Requests -> Places] /\ workload \in Workloads
  BY DEF IInv, EngineSound, HandlersSound, HandlersTyped
<1>3. /\ commands' \in Seq([op : {"submit", "cancel", "inspect"}, of : Works \cup Requests])
      /\ QueueSound'
  BY <1>1, <1>2, SameQueue
<1>4. /\ place \in Early \cup {"acquired"} => pc[r] \in Early \cup {"acquired"}
      /\ place \in {"reserved", "rollback"} => place = "rollback" /\ pc[r] = "reserved" /\ Kind(r) \in StoryKinds
  BY <1>1 DEF Passes, Early
<1>5. pc'[r] = place /\ \A q \in Requests \ {r} : pc'[q] = pc[q]
  BY <1>1, <1>2
<1>6. \A q \in Requests : pc'[q] \in Early \cup {"acquired"} => pc[q] \in Early \cup {"acquired"}
  BY <1>4, <1>5
<1>7. ASSUME NEW q \in Requests PROVE SubmitSound(q)'
  <2>1. SubmitSound(q)
    BY <1>2 DEF EngineSound
  <2>2. CASE q # r \/ place \notin {"reserved", "rollback"}
    BY <1>1, <1>5, <2>1, <2>2, SameSubmit
  <2>3. CASE q = r /\ place \in {"reserved", "rollback"}
    <3>1. place = "rollback" /\ pc[r] = "reserved" /\ Kind(r) \in StoryKinds
      BY <1>4, <2>3
    <3>2. Kind(r) # "predict"
      BY <3>1 DEF StoryKinds
    <3>3. PICK n \in Nat : n < Cardinality(WorksOf(r)) /\ Submitted(r) = FirstWorks(r, n)
      BY <2>1, <2>3, <3>1, <3>2 DEF SubmitSound
    <3>4. Cardinality(FirstWorks(r, n)) = n /\ Cardinality(WorksOf(r)) \in Nat
      BY <1>2, FirstWorksFacts, WorksFacts
    <3>5. Submitted(r) # WorksOf(r)
      BY <3>3, <3>4
    <3>6. Submitted(r)' = Submitted(r) /\ WorksOf(r)' = WorksOf(r)
      BY <1>1, SameSubmitted, SameWorkload
    <3>7. pc'[r] # "reserved"
      BY <1>5, <3>1
    <3>8. QED BY <2>3, <3>5, <3>6, <3>7 DEF SubmitSound
  <2>4. QED BY <2>2, <2>3
<1>8. QED BY <1>1, <1>2, <1>3, <1>6, <1>7, WorksLeftAlone

\* Nor does a handler that ends.
LEMMA EndsEngine ==
  ASSUME IInv, NEW r \in Requests, NEW place \in Places, NEW s \in Seq(Outcomes), NEW price \in Int,
         Ends(r, place, s, price)
  PROVE  EngineSound'
<1>1. /\ UNCHANGED <<workload, counted, engine, streams, commands>> /\ place \in {"done", "dropped"}
      /\ pc' = [pc EXCEPT ![r] = place]
  BY DEF Ends, EndsAt
<1>2. /\ EngineSound /\ EngineTyped /\ QueueSound /\ pc \in [Requests -> Places]
  BY DEF IInv, EngineSound, HandlersSound, HandlersTyped
<1>3. /\ commands' \in Seq([op : {"submit", "cancel", "inspect"}, of : Works \cup Requests])
      /\ QueueSound'
  BY <1>1, <1>2, SameQueue
<1>4. pc'[r] = place /\ \A q \in Requests \ {r} : pc'[q] = pc[q]
  BY <1>1, <1>2
<1>5. \A q \in Requests : pc'[q] \in Early \cup {"acquired"} => pc[q] \in Early \cup {"acquired"}
  BY <1>1, <1>4 DEF Early
<1>6. ASSUME NEW q \in Requests PROVE SubmitSound(q)'
  <2>1. SubmitSound(q)
    BY <1>2 DEF EngineSound
  <2>2. pc'[q] \in {"reserved", "rollback"} => pc'[q] = pc[q]
    BY <1>1, <1>4
  <2>3. QED BY <1>1, <2>1, <2>2, SameSubmit
<1>7. QED BY <1>1, <1>2, <1>3, <1>5, <1>6, WorksLeftAlone

\* A handler that reserves has submitted nothing yet.
LEMMA ReserveEngine ==
  ASSUME IInv, UNCHANGED workload, NEW r \in Requests, Reserve(r)
  PROVE  EngineSound'
<1>1. /\ UNCHANGED <<counted, engine, streams, commands>> /\ pc[r] = "acquired"
      /\ pc' = [pc EXCEPT ![r] = "reserved"]
  BY DEF Reserve, Go, Waits, runnerVars
<1>2. /\ EngineSound /\ EngineTyped /\ QueueSound /\ pc \in [Requests -> Places] /\ workload \in Workloads
  BY DEF IInv, EngineSound, HandlersSound, HandlersTyped
<1>3. /\ commands' \in Seq([op : {"submit", "cancel", "inspect"}, of : Works \cup Requests])
      /\ QueueSound'
  BY <1>1, <1>2, SameQueue
<1>4. pc'[r] = "reserved" /\ \A q \in Requests \ {r} : pc'[q] = pc[q]
  BY <1>1, <1>2
<1>5. \A q \in Requests : pc'[q] \in Early \cup {"acquired"} => pc[q] \in Early \cup {"acquired"}
  BY <1>4 DEF Early
<1>6. SubmitSound(r)'
  <2>1. ASSUME NEW w \in WorksOf(r) PROVE engine[w].status = "none"
    <3>1. w \in Works /\ w[1] = r
      BY <1>2, WorksFacts
    <3>2. WorkSound(w)
      BY <1>2, <3>1 DEF EngineSound
    <3>3. QED BY <1>1, <3>1, <3>2 DEF WorkSound
  <2>2. Submitted(r) = {}
    BY <2>1 DEF Submitted
  <2>3. FirstWorks(r, 0) = {}
    BY DEF FirstWorks
  <2>4. Submitted(r)' = Submitted(r) /\ WorksOf(r)' = WorksOf(r) /\ Kind(r)' = Kind(r)
    BY <1>1, SameSubmitted, SameWorkload
  <2>5. ASSUME Kind(r) # "predict" PROVE 0 < Cardinality(WorksOf(r))
    <3>1. Kind(r) # "absent" /\ Kind(r) \in Kinds
      BY <1>1, AtHandler DEF OfItsKind
    <3>2. Kind(r) \in StoryKinds \/ Kind(r) \in {"plain", "stream"}
      BY <2>5, <3>1 DEF Kinds
    <3>3. QED BY <1>2, <3>2, WorksFacts, PolicyAssumption
  <2>6. Kind(r) # "predict" => 0 \in Nat /\ 0 < Cardinality(WorksOf(r)) /\ Submitted(r) = FirstWorks(r, 0)
    BY <2>2, <2>3, <2>5
  <2>7. QED BY <1>4, <2>4, <2>6 DEF SubmitSound
<1>7. ASSUME NEW q \in Requests PROVE SubmitSound(q)'
  <2>1. SubmitSound(q)
    BY <1>2 DEF EngineSound
  <2>2. QED BY <1>1, <1>4, <1>6, <2>1, SameSubmit
<1>8. QED BY <1>1, <1>2, <1>3, <1>5, <1>7, WorksLeftAlone

\* The works a request has after one more is submitted.
LEMMA NextSubmitted ==
  ASSUME IInv, NEW r \in Requests, pc[r] = "reserved", Kind(r) # "predict"
  PROVE  \E n \in Nat :
           /\ n < Cardinality(WorksOf(r)) /\ Submitted(r) = FirstWorks(r, n)
           /\ Cardinality(Submitted(r)) = n
           /\ <<r, n + 1>> \in WorksOf(r) /\ <<r, n + 1>> \in Works
           /\ Submitted(r) \cup {<<r, n + 1>>} = FirstWorks(r, n + 1)
           /\ WorksOf(r) = FirstWorks(r, Cardinality(WorksOf(r)))
           /\ <<r, n + 1>> \notin Submitted(r) /\ engine[<<r, n + 1>>].status = "none"
<1>1. /\ workload \in Workloads /\ EngineSound /\ SubmitSound(r)
  BY DEF IInv, EngineSound, HandlersSound, HandlersTyped
<1>2. PICK n \in Nat : n < Cardinality(WorksOf(r)) /\ Submitted(r) = FirstWorks(r, n)
  BY <1>1 DEF SubmitSound
<1> DEFINE N == Cardinality(WorksOf(r))
<1>3. N \in Nat /\ Cardinality(FirstWorks(r, n)) = n
  BY <1>1, WorksFacts, FirstWorksFacts
<1>4. WorksOf(r) = FirstWorks(r, N)
  <2>1. Kind(r) \in Kinds /\ Kind(r) # "absent"
    BY AtHandler DEF OfItsKind
  <2>2. Kind(r) \in StoryKinds \/ Kind(r) \in {"plain", "stream"}
    BY <2>1 DEF Kinds
  <2>3. QED BY <1>1, <2>2, WorksFacts, KindFacts
<1> HIDE DEF N
<1>5. n + 1 \in 1 .. N /\ n + 1 \in 1 .. n + 1 /\ n + 1 \notin 1 .. n
  BY <1>2, <1>3 DEF N
<1>6. <<r, n + 1>> \in WorksOf(r)
  BY <1>4, <1>5 DEF FirstWorks
<1>7. <<r, n + 1>> \in Works
  BY <1>1, <1>6, WorksFacts
<1>8. FirstWorks(r, n) \cup {<<r, n + 1>>} = FirstWorks(r, n + 1)
  <2>1. 1 .. n + 1 = 1 .. n \cup {n + 1}
    OBVIOUS
  <2>2. QED BY <2>1 DEF FirstWorks
<1>9. <<r, n + 1>> \notin FirstWorks(r, n)
  BY <1>5 DEF FirstWorks
<1>10. engine[<<r, n + 1>>].status = "none"
  BY <1>2, <1>6, <1>9 DEF Submitted
<1>11. QED BY <1>2, <1>3, <1>4, <1>6, <1>7, <1>8, <1>9, <1>10 DEF N

\* A work is submitted.
LEMMA SubmitEngine ==
  ASSUME IInv, UNCHANGED workload, NEW r \in Requests, SubmitNext(r)
  PROVE  /\ EngineSound' /\ UNCHANGED <<holding, quota, charge, recorded, counted, streams>>
         /\ pc[r] = "reserved" /\ \A w \in Works : w[1] # r => engine'[w] = engine[w]
         /\ \E place \in {"reserved", "streaming", "waiting"} :
              /\ pc' = [pc EXCEPT ![r] = place]
              /\ place = "streaming" => Kind(r) \in StreamKinds
              /\ place = "waiting" => Kind(r) \in {"plain", "story"}
         /\ \A w \in Works : engine[w].status # "none" => engine'[w] = engine[w]
<1>1. /\ pc[r] = "reserved" /\ Kind(r) # "predict"
      /\ UNCHANGED <<holding, quota, charge, recorded, counted, streams>>
  BY DEF SubmitNext, gateVars, quotaVars
<1>2. /\ EngineSound /\ EngineTyped /\ QueueSound /\ pc \in [Requests -> Places] /\ workload \in Workloads
      /\ OfItsKind(r) /\ Kind(r) \in Kinds
  BY AtHandler DEF IInv, EngineSound, HandlersSound, HandlersTyped
<1>3. PICK n \in Nat :
        /\ n < Cardinality(WorksOf(r)) /\ Submitted(r) = FirstWorks(r, n)
        /\ Cardinality(Submitted(r)) = n
        /\ <<r, n + 1>> \in WorksOf(r) /\ <<r, n + 1>> \in Works
        /\ Submitted(r) \cup {<<r, n + 1>>} = FirstWorks(r, n + 1)
        /\ WorksOf(r) = FirstWorks(r, Cardinality(WorksOf(r)))
        /\ <<r, n + 1>> \notin Submitted(r) /\ engine[<<r, n + 1>>].status = "none"
  BY <1>1, NextSubmitted
<1> DEFINE w == <<r, n + 1>>
           last == Submitted(r) \cup {w} = WorksOf(r)
           c == [op |-> "submit", of |-> w]
           place == IF ~last THEN "reserved" ELSE IF Kind(r) \in StreamKinds THEN "streaming" ELSE "waiting"
<1>4. /\ commands' = Append(commands, c)
      /\ engine' = [engine EXCEPT ![w].status = "queued"]
      /\ pc' = IF ~last THEN pc
               ELSE [pc EXCEPT ![r] = IF Kind(r) \in StreamKinds THEN "streaming" ELSE "waiting"]
  BY <1>3 DEF SubmitNext
<1>5. pc' = [pc EXCEPT ![r] = place] /\ place \in {"reserved", "streaming", "waiting"}
  <2>1. pc = [pc EXCEPT ![r] = "reserved"]
    BY <1>1, <1>2
  <2>2. QED BY <1>4, <2>1
<1>6. /\ place = "streaming" => Kind(r) \in StreamKinds
      /\ place = "waiting" => Kind(r) \in {"plain", "story"}
      /\ place = "reserved" => ~last
  <2>1. Kind(r) # "absent"
    BY <1>1, <1>2 DEF OfItsKind
  <2>2. QED BY <1>1, <1>2, <2>1 DEF Kinds, StoryKinds, StreamKinds
<1>7. w \in Works /\ w \in WorksOf(r) /\ w[1] = r /\ engine[w].status = "none"
  BY <1>3
<1>8. c \in [op : {"submit", "cancel", "inspect"}, of : Works \cup Requests] /\ c.op = "submit" /\ c.of = w
  BY <1>7
<1>9. /\ Submitted(r) = FirstWorks(r, n) /\ Submitted(r) \cup {w} = FirstWorks(r, n + 1)
      /\ WorksOf(r) = FirstWorks(r, Cardinality(WorksOf(r))) /\ n < Cardinality(WorksOf(r))
  BY <1>3
<1> HIDE DEF w, c, place
<1>10. /\ engine' \in [Works -> [status : WorkStates, tokens : Nat]]
       /\ engine'[w].status = "queued" /\ engine'[w].tokens = engine[w].tokens
       /\ \A v \in Works : v # w => engine'[v] = engine[v]
  <2>1. "queued" \in WorkStates
    BY DEF WorkStates
  <2>2. QED BY <1>2, <1>4, <1>7, <2>1 DEF EngineTyped
<1>11. pc'[r] = place /\ \A q \in Requests \ {r} : pc'[q] = pc[q]
  BY <1>2, <1>5
<1>12. /\ commands' \in Seq([op : {"submit", "cancel", "inspect"}, of : Works \cup Requests])
       /\ QueueSound'
  <2>1. \A v \in Works : engine[v].status = "queued" => engine'[v].status = "queued"
    BY <1>10
  <2>2. c.op \in {"submit", "cancel"} => c.of \in Works
    BY <1>7, <1>8
  <2>3. c.op = "submit" => engine[c.of].status # "queued" /\ engine'[c.of].status = "queued"
    BY <1>7, <1>8, <1>10
  <2>4. QED BY <1>2, <1>4, <1>8, <2>1, <2>2, <2>3, JoinedQueue
<1>13. EngineTyped'
  BY <1>1, <1>2, <1>10, <1>12 DEF EngineTyped
<1>14. ASSUME NEW v \in Works PROVE WorkSound(v)'
  <2>1. WorkSound(v) /\ v[1] \in Requests
    BY <1>2, WorkFacts DEF EngineSound
  <2>2. pc'[v[1]] \in Early \cup {"acquired"} => pc[v[1]] \in Early \cup {"acquired"}
    BY <1>5, <1>11, <2>1 DEF Early
  <2>3. CASE v # w
    BY <1>1, <1>10, <2>1, <2>2, <2>3, SameWork
  <2>4. CASE v = w
    <3>1. MaxTokens(r)' = MaxTokens(r) /\ WorksOf(r)' = WorksOf(r)
      BY SameWorkload
    <3>2. WorkSound(w)
      BY <2>1, <2>4
    <3>3. streams'[w] = streams[w]
      BY <1>1
    <3>4. pc'[r] \notin Early \cup {"acquired"}
      BY <1>5, <1>11 DEF Early
    <3>5. "queued" \notin Ended /\ "none" \notin Ended /\ "queued" # "none"
      BY DEF Ended
    <3>6. WorkSound(w)'
      BY <1>7, <1>10, <3>1, <3>2, <3>3, <3>4, <3>5 DEF WorkSound
    <3>7. QED BY <2>4, <3>6
  <2>5. QED BY <2>3, <2>4
<1>15. Submitted(r)' = Submitted(r) \cup {w}
  <2>1. WorksOf(r)' = WorksOf(r) /\ WorksOf(r) \in SUBSET Works
    BY <1>2, SameWorkload, WorksFacts
  <2>2. QED BY <1>7, <1>10, <2>1 DEF Submitted
<1>16. SubmitSound(r)'
  <2> DEFINE N == Cardinality(WorksOf(r))
  <2>1. WorksOf(r)' = WorksOf(r) /\ Kind(r)' = Kind(r) /\ N \in Nat
    BY <1>2, SameWorkload, WorksFacts
  <2>2. pc'[r] = "reserved" => n + 1 < N
    <3>1. SUFFICES ASSUME place = "reserved" PROVE n + 1 < N
      BY <1>11
    <3>2. FirstWorks(r, n + 1) # FirstWorks(r, N)
      BY <1>6, <1>9, <3>1
    <3>3. n + 1 # N
      BY <3>2
    <3>4. QED BY <1>9, <2>1, <3>3
  <2>3. pc'[r] # "rollback"
    BY <1>5, <1>11
  <2>4. Submitted(r)' = FirstWorks(r, n + 1)
    BY <1>9, <1>15
  <2>5. pc'[r] = "reserved" => \E k \in Nat : k < Cardinality(WorksOf(r)') /\ Submitted(r)' = FirstWorks(r, k)
    BY <2>1, <2>2, <2>4
  <2>6. QED BY <2>3, <2>5 DEF SubmitSound
<1>17. ASSUME NEW q \in Requests PROVE SubmitSound(q)'
  <2>1. SubmitSound(q)
    BY <1>2 DEF EngineSound
  <2>2. CASE q # r
    <3>1. \A v \in WorksOf(q) : v \in Works /\ v # w
      BY <1>2, <1>7, <2>2, WorksFacts
    <3>2. \A v \in WorksOf(q) : engine'[v].status = "none" <=> engine[v].status = "none"
      BY <1>10, <3>1
    <3>3. QED BY <1>11, <2>1, <2>2, <3>2, SameSubmit
  <2>3. QED BY <1>16, <2>2
<1>18. EngineSound'
  BY <1>12, <1>13, <1>14, <1>17 DEF EngineSound
<1>19. \A v \in Works : v[1] # r => engine'[v] = engine[v]
  BY <1>7, <1>10
<1>20. \A v \in Works : engine[v].status # "none" => engine'[v] = engine[v]
  BY <1>7, <1>10
<1>21. QED BY <1>1, <1>5, <1>6, <1>18, <1>19, <1>20

\* What the worker does changes no work that ended, and no reader's state.
EndedStay ==
  \A w \in Works :
    /\ engine[w].status \in Ended => engine'[w] = engine[w]
    /\ engine'[w].status = "none" <=> engine[w].status = "none"
    /\ streams'[w].seen = streams[w].seen /\ streams'[w].ended = streams[w].ended

\* A work and its stream as they may become in a step of the worker.
Advanced(w, e, s) ==
  /\ engine[w].status \in {"queued", "live"}
  /\ e \in [status : Ended \cup {"live"}, tokens : Nat]
  /\ s \in [emitted : Nat, seen : Nat, terminal : Terminals, ended : BOOLEAN]
  /\ e.tokens <= MaxTokens(w[1])
  /\ e.status = "live" => e.tokens < MaxTokens(w[1]) /\ s.terminal = streams[w].terminal
  /\ s.seen = streams[w].seen /\ s.ended = streams[w].ended
  /\ s.emitted >= streams[w].emitted /\ s.emitted <= e.tokens

\* The states of works and streams do not overlap.
LEMMA StatusFacts ==
  /\ {"none", "queued", "live"} \cap Ended = {} /\ Ended \cup {"live"} \subseteq WorkStates
  /\ "none" # "queued" /\ "none" # "live" /\ "queued" # "live"
  /\ Ended \subseteq Terminals /\ "backpressure" \in Terminals /\ "none" \notin Ended \cup {"live"}
  /\ {"finished", "cancelled", "failed", "lost"} = Ended
BY DEF Ended, WorkStates, Terminals

\* A work that has not ended has no terminal event yet.
LEMMA OpenStream ==
  ASSUME EngineSound, NEW w \in Works, engine[w].status \in {"queued", "live"}
  PROVE  streams[w].terminal = "none" /\ ~streams[w].ended
<1>1. WorkSound(w) /\ engine[w].status \notin Ended
  BY StatusFacts DEF EngineSound
<1>2. streams[w].ended \in BOOLEAN
  BY AtWork
<1>3. QED BY <1>1, <1>2 DEF WorkSound

\* A work that advances stays sound.
LEMMA AdvancedSound ==
  ASSUME EngineSound, UNCHANGED <<workload, pc>>, NEW w \in Works,
         Advanced(w, engine'[w], streams'[w])
  PROVE  WorkSound(w)'
<1> DEFINE e == engine'[w]
           s == streams'[w]
<1>1. /\ WorkSound(w) /\ w[1] \in Requests /\ Advanced(w, e, s)
      /\ streams[w].terminal = "none" /\ ~streams[w].ended
      /\ streams[w].seen \in Nat /\ streams[w].emitted \in Nat
  <2>1. engine[w].status \in {"queued", "live"}
    BY DEF Advanced
  <2>2. QED BY <2>1, AtWork, OpenStream, WorkFacts
<1>2. MaxTokens(w[1])' = MaxTokens(w[1]) /\ WorksOf(w[1])' = WorksOf(w[1]) /\ pc'[w[1]] = pc[w[1]]
  BY <1>1, SameWorkload
<1>3. /\ engine[w].status # "none"
      /\ e.status \in Ended \cup {"live"} /\ e.tokens \in Nat
      /\ s.emitted \in Nat /\ s.seen = streams[w].seen /\ ~s.ended
      /\ s.emitted >= streams[w].emitted /\ s.emitted <= e.tokens
      /\ e.tokens <= MaxTokens(w[1])
      /\ e.status = "live" => e.tokens < MaxTokens(w[1]) /\ s.terminal = "none"
  BY <1>1, StatusFacts DEF Advanced
<1> HIDE DEF e, s
<1>4. w \in WorksOf(w[1]) /\ pc[w[1]] \notin Early \cup {"acquired"} /\ streams[w].seen <= streams[w].emitted
  BY <1>1, <1>3 DEF WorkSound
<1>5. e.status \notin Ended => e.status = "live"
  BY <1>3
<1>6. e.status # "none"
  BY <1>3, StatusFacts
<1>7. s.seen <= s.emitted
  BY <1>1, <1>3, <1>4
<1>8. s.terminal # "none" => e.status \in Ended
  BY <1>3
<1>9. QED BY <1>2, <1>3, <1>4, <1>5, <1>6, <1>7, <1>8 DEF WorkSound, e, s

\* Each work advances or stays.
LEMMA WorksAdvance ==
  ASSUME EngineSound, workload \in Workloads, UNCHANGED <<workload, pc, counted>>,
         engine' \in [Works -> [status : WorkStates, tokens : Nat]],
         streams' \in [Works -> [emitted : Nat, seen : Nat, terminal : Terminals, ended : BOOLEAN]],
         commands' \in Seq([op : {"submit", "cancel", "inspect"}, of : Works \cup Requests]),
         QueueSound',
         \A w \in Works : \/ engine'[w] = engine[w] /\ streams'[w] = streams[w]
                          \/ Advanced(w, engine'[w], streams'[w])
  PROVE  EngineSound' /\ EndedStay
<1>1. EngineTyped'
  BY DEF EngineSound, EngineTyped
<1>2. ASSUME NEW w \in Works PROVE WorkSound(w)'
  <2>1. CASE engine'[w] = engine[w] /\ streams'[w] = streams[w]
    <3>1. WorkSound(w)
      BY AtWork
    <3>2. QED BY <2>1, <3>1, SameWork
  <2>2. CASE Advanced(w, engine'[w], streams'[w])
    BY <2>2, AdvancedSound
  <2>3. QED BY <2>1, <2>2
<1>3. EndedStay
  <2>1. ASSUME NEW w \in Works, Advanced(w, engine'[w], streams'[w])
        PROVE  /\ engine[w].status \notin Ended
               /\ engine'[w].status # "none" /\ engine[w].status # "none"
               /\ streams'[w].seen = streams[w].seen /\ streams'[w].ended = streams[w].ended
    <3>1. /\ engine[w].status \in {"queued", "live"}
          /\ engine'[w].status \in Ended \cup {"live"}
          /\ streams'[w].seen = streams[w].seen /\ streams'[w].ended = streams[w].ended
      BY <2>1 DEF Advanced
    <3>2. QED BY <3>1, StatusFacts
  <2>2. ASSUME NEW w \in Works
        PROVE  /\ engine[w].status \in Ended => engine'[w] = engine[w]
               /\ engine'[w].status = "none" <=> engine[w].status = "none"
               /\ streams'[w].seen = streams[w].seen /\ streams'[w].ended = streams[w].ended
    <3>1. CASE engine'[w] = engine[w] /\ streams'[w] = streams[w]
      BY <3>1
    <3>2. CASE Advanced(w, engine'[w], streams'[w])
      BY <2>1, <3>2
    <3>3. QED BY <3>1, <3>2
  <2>3. QED BY <2>2 DEF EndedStay
<1>4. ASSUME NEW r \in Requests PROVE SubmitSound(r)'
  <2>1. SubmitSound(r)
    BY DEF EngineSound
  <2>3. \A w \in WorksOf(r) : w \in Works
    BY WorksFacts
  <2>4. \A w \in WorksOf(r) : engine'[w].status = "none" <=> engine[w].status = "none"
    BY <1>3, <2>3 DEF EndedStay
  <2>5. QED BY <2>1, <2>4, SameSubmit
<1>5. QED BY <1>1, <1>2, <1>3, <1>4 DEF EngineSound

StreamStates == [emitted : Nat, seen : Nat, terminal : Terminals, ended : BOOLEAN]

\* Closing a stream changes only its terminal event.
LEMMA ClosedFacts ==
  ASSUME NEW s \in StreamStates, NEW t \in Ended \cup {"backpressure"}
  PROVE  /\ Closed(s, t) \in StreamStates
         /\ Closed(s, t).emitted = s.emitted /\ Closed(s, t).seen = s.seen /\ Closed(s, t).ended = s.ended
<1>1. t \in Terminals
  BY DEF Terminals
<1>2. QED BY <1>1 DEF Closed, StreamStates

\* A work ends with its tokens, and its stream with it.
LEMMA EndAdvances ==
  ASSUME EngineSound, workload \in Workloads, NEW w \in Works, engine[w].status = "live",
         NEW t \in Ended, End(w, t, engine[w].tokens)
  PROVE  /\ engine' \in [Works -> [status : WorkStates, tokens : Nat]]
         /\ streams' \in [Works -> StreamStates]
         /\ Advanced(w, engine'[w], streams'[w])
         /\ \A v \in Works : v # w => engine'[v] = engine[v] /\ streams'[v] = streams[v]
<1> DEFINE e == [status |-> t, tokens |-> engine[w].tokens]
           s == IF Streamed(w) THEN Closed(streams[w], t) ELSE streams[w]
<1>1. engine' = [engine EXCEPT ![w] = e] /\ streams' = [streams EXCEPT ![w] = s]
  BY Zenon DEF End
<1>2. /\ engine \in [Works -> [status : WorkStates, tokens : Nat]] /\ streams \in [Works -> StreamStates]
      /\ engine[w].tokens \in Nat /\ streams[w] \in StreamStates /\ WorkSound(w)
  BY AtWork DEF StreamStates
<1>3. t \in WorkStates
  BY StatusFacts
<1>4. e \in [status : WorkStates, tokens : Nat] /\ e \in [status : Ended \cup {"live"}, tokens : Nat]
      /\ e.status = t /\ e.tokens = engine[w].tokens /\ t # "live"
  BY <1>2, <1>3, StatusFacts
<1>5. s \in StreamStates /\ s.emitted = streams[w].emitted /\ s.seen = streams[w].seen
      /\ s.ended = streams[w].ended
  BY <1>2, ClosedFacts
<1>6. /\ streams[w].emitted \in Nat /\ streams[w].emitted <= engine[w].tokens
      /\ engine[w].tokens <= MaxTokens(w[1])
  BY <1>2 DEF WorkSound, StreamStates
<1> HIDE DEF e, s
<1>7. /\ engine' \in [Works -> [status : WorkStates, tokens : Nat]] /\ streams' \in [Works -> StreamStates]
      /\ engine'[w] = e /\ streams'[w] = s
      /\ \A v \in Works : v # w => engine'[v] = engine[v] /\ streams'[v] = streams[v]
  BY <1>1, <1>2, <1>4, <1>5
<1>8. Advanced(w, e, s)
  BY <1>4, <1>5, <1>6 DEF Advanced, StreamStates
<1>9. QED BY <1>7, <1>8

\* A work makes a token.
LEMMA TokenAdvances ==
  ASSUME EngineSound, workload \in Workloads, NEW w \in Works, engine[w].status = "live", MakeToken(w)
  PROVE  /\ engine' \in [Works -> [status : WorkStates, tokens : Nat]]
         /\ streams' \in [Works -> StreamStates]
         /\ Advanced(w, engine'[w], streams'[w])
         /\ \A v \in Works : v # w => engine'[v] = engine[v] /\ streams'[v] = streams[v]
<1> DEFINE n == engine[w].tokens + 1
           m == MaxTokens(w[1])
           a == [streams[w] EXCEPT !.emitted = @ + 1]
<1>1. /\ engine \in [Works -> [status : WorkStates, tokens : Nat]] /\ streams \in [Works -> StreamStates]
      /\ engine[w] \in [status : WorkStates, tokens : Nat]
      /\ engine[w].tokens \in Nat /\ streams[w] \in StreamStates /\ WorkSound(w)
      /\ streams[w].emitted \in Nat /\ m \in Nat
  BY AtWork, WorkFacts, KindFacts DEF StreamStates
<1>2. n <= m /\ n \in Nat /\ streams[w].emitted <= engine[w].tokens
  BY <1>1, StatusFacts DEF WorkSound
<1>3. SUFFICES ASSUME NEW e \in [status : Ended \cup {"live"}, tokens : Nat], NEW s \in StreamStates,
                      engine' = [engine EXCEPT ![w] = e], streams' = [streams EXCEPT ![w] = s],
                      e.tokens = n, e.status = "live" => n < m /\ s.terminal = streams[w].terminal,
                      s.seen = streams[w].seen, s.ended = streams[w].ended,
                      s.emitted \in {streams[w].emitted, streams[w].emitted + 1}
               PROVE  /\ engine' \in [Works -> [status : WorkStates, tokens : Nat]]
                      /\ streams' \in [Works -> StreamStates]
                      /\ Advanced(w, engine'[w], streams'[w])
                      /\ \A v \in Works : v # w => engine'[v] = engine[v] /\ streams'[v] = streams[v]
  <2>1. CASE Overflows(w)
    <3> DEFINE e == [status |-> "cancelled", tokens |-> n]
               s == Closed(streams[w], "backpressure")
    <3>1. engine' = [engine EXCEPT ![w] = e] /\ streams' = [streams EXCEPT ![w] = s]
      BY <2>1, Zenon DEF MakeToken
    <3>2. e \in [status : Ended \cup {"live"}, tokens : Nat] /\ e.tokens = n /\ e.status # "live"
      BY <1>2, StatusFacts
    <3>3. s \in StreamStates /\ s.emitted = streams[w].emitted /\ s.seen = streams[w].seen
          /\ s.ended = streams[w].ended
      BY <1>1, ClosedFacts
    <3> HIDE DEF e, s, n, m
    <3>4. QED BY <1>3, <3>1, <3>2, <3>3
  <2>2. CASE ~Overflows(w)
    <3> DEFINE more == [engine[w] EXCEPT !.tokens = n]
    <3>1. PICK last \in BOOLEAN :
            /\ last \in IF n = m THEN {TRUE} ELSE IF Kind(w[1]) \in StoryKinds THEN BOOLEAN ELSE {FALSE}
            /\ engine' = [engine EXCEPT ![w] = IF last THEN [more EXCEPT !.status = "finished"] ELSE more]
            /\ streams' = IF ~Streamed(w) THEN streams
                          ELSE [streams EXCEPT ![w] = IF last THEN Closed(a, "finished") ELSE a]
      BY <2>2 DEF MakeToken
    <3> DEFINE e == IF last THEN [more EXCEPT !.status = "finished"] ELSE more
               s == IF ~Streamed(w) THEN streams[w] ELSE IF last THEN Closed(a, "finished") ELSE a
    <3>2. engine' = [engine EXCEPT ![w] = e] /\ streams' = [streams EXCEPT ![w] = s]
      <4>1. streams = [streams EXCEPT ![w] = streams[w]]
        BY <1>1
      <4>2. QED BY <3>1, <4>1
    <3>3. e \in [status : Ended \cup {"live"}, tokens : Nat] /\ e.tokens = n
          /\ e.status = IF last THEN "finished" ELSE "live"
      BY <1>1, <1>2, StatusFacts
    <3>4. e.status = "live" => n < m /\ ~last
      <4>1. "finished" # "live"
        OBVIOUS
      <4>2. ~last => n # m
        BY <3>1
      <4>3. n # m => n < m
        BY <1>1, <1>2
      <4>4. QED BY <3>3, <4>1, <4>2, <4>3
    <3>5. /\ a \in StreamStates /\ a.emitted = streams[w].emitted + 1 /\ a.seen = streams[w].seen
          /\ a.ended = streams[w].ended /\ a.terminal = streams[w].terminal
      BY <1>1 DEF StreamStates
    <3>6. /\ s \in StreamStates /\ s.seen = streams[w].seen /\ s.ended = streams[w].ended
          /\ s.emitted \in {streams[w].emitted, streams[w].emitted + 1}
          /\ ~last => s.terminal = streams[w].terminal
      <4> HIDE DEF a
      <4>1. "finished" \in Ended \cup {"backpressure"}
        BY StatusFacts
      <4>2. /\ Closed(a, "finished") \in StreamStates /\ Closed(a, "finished").emitted = a.emitted
            /\ Closed(a, "finished").seen = a.seen /\ Closed(a, "finished").ended = a.ended
        BY <3>5, <4>1, ClosedFacts
      <4>3. QED BY <1>1, <3>5, <4>2
    <3> HIDE DEF e, s, n, m, a
    <3>7. QED BY <1>3, <3>2, <3>3, <3>4, <3>6
  <2>3. QED BY <2>1, <2>2
<1>4. e.status \in WorkStates /\ e \in [status : WorkStates, tokens : Nat]
  BY StatusFacts
<1> HIDE DEF n, m
<1>5. /\ engine' \in [Works -> [status : WorkStates, tokens : Nat]] /\ streams' \in [Works -> StreamStates]
      /\ engine'[w] = e /\ streams'[w] = s
      /\ \A v \in Works : v # w => engine'[v] = engine[v] /\ streams'[v] = streams[v]
  BY <1>1, <1>3, <1>4
<1>6. s.emitted >= streams[w].emitted /\ s.emitted <= e.tokens /\ e.tokens <= MaxTokens(w[1])
  BY <1>1, <1>2, <1>3 DEF n, m
<1>7. Advanced(w, e, s)
  BY <1>3, <1>6 DEF Advanced, StreamStates, n, m
<1>8. QED BY <1>5, <1>7

\* The worker takes a command.
LEMMA TakeCommandEngine ==
  ASSUME EngineSound, workload \in Workloads, UNCHANGED workload, TakeCommand
  PROVE  EngineSound' /\ EndedStay
<1> DEFINE c == Head(commands)
           Entry == [op : {"submit", "cancel", "inspect"}, of : Works \cup Requests]
<1>1. /\ commands # <<>> /\ commands' = Tail(commands) /\ UNCHANGED <<pc, counted>>
      /\ CASE c.op = "submit" -> ProcessSubmit(c.of)
           [] c.op = "cancel" -> ProcessCancel(c.of)
           [] c.op = "inspect" -> ProcessInspection(c.of)
  BY DEF TakeCommand, handlerVars
<1>2. EngineTyped /\ QueueSound
  BY DEF EngineSound
<1>3. /\ c \in Entry /\ 1 \in DOMAIN commands /\ c = commands[1]
  <2>1. commands \in Seq(Entry) /\ commands # <<>>
    BY <1>1, <1>2 DEF EngineTyped
  <2> HIDE DEF Entry
  <2>2. QED BY <2>1
<1>4. /\ engine \in [Works -> [status : WorkStates, tokens : Nat]] /\ streams \in [Works -> StreamStates]
  BY <1>2 DEF EngineTyped, StreamStates
<1>5. SUFFICES ASSUME engine' \in [Works -> [status : WorkStates, tokens : Nat]],
                      streams' \in [Works -> StreamStates],
                      \A w \in Works : \/ engine'[w] = engine[w] /\ streams'[w] = streams[w]
                                       \/ Advanced(w, engine'[w], streams'[w]),
                      \A w \in Works : engine[w].status = "queued" /\ ~(c.op = "submit" /\ c.of = w)
                                         => engine'[w].status = "queued"
               PROVE  EngineSound' /\ EndedStay
  <2>1. CASE c.op = "submit"
    <3> DEFINE w == c.of
               e == [engine[w] EXCEPT !.status = "live"]
    <3>1. w \in Works /\ engine[w].status = "queued"
      BY <1>2, <1>3, <2>1 DEF QueueSound
    <3>2. engine' = [engine EXCEPT ![w].status = "live"] /\ UNCHANGED streams
      BY <1>1, <2>1 DEF ProcessSubmit
    <3>3. engine' = [engine EXCEPT ![w] = e]
      BY <3>2
    <3>4. /\ WorkSound(w) /\ engine[w] \in [status : WorkStates, tokens : Nat]
          /\ streams[w] \in StreamStates
      BY <3>1, AtWork DEF StreamStates
    <3>5. /\ e \in [status : Ended \cup {"live"}, tokens : Nat] /\ e.status = "live"
          /\ e \in [status : WorkStates, tokens : Nat]
          /\ e.tokens = engine[w].tokens
      BY <3>4, StatusFacts
    <3>6. /\ engine[w].tokens < MaxTokens(w[1]) /\ engine[w].tokens <= MaxTokens(w[1])
          /\ streams[w].emitted <= engine[w].tokens
      BY <3>1, <3>4, StatusFacts DEF WorkSound
    <3>7. streams[w].emitted >= streams[w].emitted
      BY <3>4 DEF StreamStates
    <3> HIDE DEF e, w
    <3>8. Advanced(w, e, streams[w])
      BY <3>1, <3>4, <3>5, <3>6, <3>7 DEF Advanced, StreamStates
    <3>9. /\ engine' \in [Works -> [status : WorkStates, tokens : Nat]] /\ engine'[w] = e
          /\ \A v \in Works : v # w => engine'[v] = engine[v]
      BY <1>4, <3>1, <3>3, <3>5
    <3>10. streams' \in [Works -> StreamStates] /\ \A v \in Works : streams'[v] = streams[v]
      BY <1>4, <3>2
    <3>11. \A v \in Works : \/ engine'[v] = engine[v] /\ streams'[v] = streams[v]
                            \/ Advanced(v, engine'[v], streams'[v])
      BY <3>8, <3>9, <3>10
    <3>12. \A v \in Works : engine[v].status = "queued" /\ v # w => engine'[v].status = "queued"
      BY <3>9
    <3>13. \A v \in Works : engine[v].status = "queued" /\ ~(c.op = "submit" /\ c.of = v)
                                         => engine'[v].status = "queued"
      BY <2>1, <3>12 DEF w
    <3>14. QED BY <1>5, <3>9, <3>10, <3>11, <3>13
  <2>2. CASE c.op = "cancel"
    <3> DEFINE w == c.of
    <3>1. w \in Works
      BY <1>2, <1>3, <2>2 DEF QueueSound
    <3>2. IF engine[w].status = "live" THEN End(w, "cancelled", engine[w].tokens)
          ELSE UNCHANGED <<engine, streams>>
      BY <1>1, <2>2 DEF ProcessCancel
    <3> HIDE DEF w
    <3>3. CASE engine[w].status = "live"
      <4>1. "cancelled" \in Ended
        BY StatusFacts
      <4>2. /\ engine' \in [Works -> [status : WorkStates, tokens : Nat]] /\ streams' \in [Works -> StreamStates]
            /\ Advanced(w, engine'[w], streams'[w])
            /\ \A v \in Works : v # w => engine'[v] = engine[v] /\ streams'[v] = streams[v]
        BY <3>1, <3>2, <3>3, <4>1, EndAdvances
      <4>3. \A v \in Works : \/ engine'[v] = engine[v] /\ streams'[v] = streams[v]
                             \/ Advanced(v, engine'[v], streams'[v])
        BY <4>2
      <4>4. \A v \in Works : engine[v].status = "queued" => engine'[v].status = "queued"
        BY <3>3, <4>2
      <4>5. QED BY <1>5, <4>2, <4>3, <4>4
    <3>4. CASE engine[w].status # "live"
      BY <1>4, <1>5, <3>2, <3>4
    <3>5. QED BY <3>3, <3>4
  <2>3. CASE c.op = "inspect"
    <3>1. UNCHANGED <<engine, streams>>
      BY <1>1, <2>3 DEF ProcessInspection
    <3>2. QED BY <1>4, <1>5, <3>1
  <2>4. QED BY <1>3, <2>1, <2>2, <2>3
<1>6. \A w \in Works : engine[w].status = "queued" /\ ~(Head(commands).op = "submit" /\ Head(commands).of = w)
                                         => engine'[w].status = "queued"
  BY <1>5
<1>7. /\ commands' \in Seq([op : {"submit", "cancel", "inspect"}, of : Works \cup Requests])
      /\ QueueSound'
  BY <1>1, <1>2, <1>6, TakenQueue
<1>8. streams' \in [Works -> [emitted : Nat, seen : Nat, terminal : Terminals, ended : BOOLEAN]]
  BY <1>5 DEF StreamStates
<1>9. QED BY <1>1, <1>5, <1>7, <1>8, WorksAdvance

\* A tick ends.
LEMMA EndTickEngine ==
  ASSUME EngineSound, workload \in Workloads, UNCHANGED workload, EndTick
  PROVE  EngineSound' /\ EndedStay
<1>1. UNCHANGED <<commands, pc, counted>>
  BY DEF EndTick, handlerVars
<1>2. PICK w \in Alive : MakeToken(w) \/ End(w, "failed", engine[w].tokens)
  BY DEF EndTick
<1>3. w \in Works /\ engine[w].status = "live" /\ "failed" \in Ended
  BY <1>2, StatusFacts DEF Alive
<1>4. /\ engine' \in [Works -> [status : WorkStates, tokens : Nat]] /\ streams' \in [Works -> StreamStates]
      /\ Advanced(w, engine'[w], streams'[w])
      /\ \A v \in Works : v # w => engine'[v] = engine[v] /\ streams'[v] = streams[v]
  BY <1>2, <1>3, EndAdvances, TokenAdvances
<1>5. \A v \in Works : \/ engine'[v] = engine[v] /\ streams'[v] = streams[v]
                       \/ Advanced(v, engine'[v], streams'[v])
  BY <1>4
<1>6. EngineTyped /\ QueueSound
  BY DEF EngineSound
<1>7. \A v \in Works : engine[v].status = "queued" => engine'[v].status = "queued"
  BY <1>3, <1>4
<1>8. /\ commands' \in Seq([op : {"submit", "cancel", "inspect"}, of : Works \cup Requests])
      /\ QueueSound'
  BY <1>1, <1>6, <1>7, SameQueue
<1>9. streams' \in [Works -> [emitted : Nat, seen : Nat, terminal : Terminals, ended : BOOLEAN]]
  BY <1>4 DEF StreamStates
<1>10. QED BY <1>1, <1>4, <1>5, <1>8, <1>9, WorksAdvance

\* The worker fails, and what it has not ended is lost.
LEMMA WorkerFailsEngine ==
  ASSUME EngineSound, workload \in Workloads, UNCHANGED workload, WorkerFails
  PROVE  EngineSound' /\ EndedStay
<1>1. /\ commands' = <<>> /\ UNCHANGED <<pc, counted>>
      /\ engine' = [w \in Works |-> IF w \in Unended THEN [engine[w] EXCEPT !.status = "lost"]
                                    ELSE engine[w]]
      /\ streams' = [w \in Works |-> IF w \in Unended /\ Streamed(w) THEN Closed(streams[w], "lost")
                                     ELSE streams[w]]
  BY DEF WorkerFails, handlerVars
<1>2. ASSUME NEW w \in Works
      PROVE  /\ engine'[w] \in [status : WorkStates, tokens : Nat] /\ streams'[w] \in StreamStates
             /\ \/ engine'[w] = engine[w] /\ streams'[w] = streams[w]
                \/ Advanced(w, engine'[w], streams'[w])
  <2> DEFINE e == [engine[w] EXCEPT !.status = "lost"]
             s == IF Streamed(w) THEN Closed(streams[w], "lost") ELSE streams[w]
  <2>1. /\ engine[w] \in [status : WorkStates, tokens : Nat] /\ streams[w] \in StreamStates /\ WorkSound(w)
    BY AtWork DEF StreamStates
  <2>2. CASE w \in Unended
    <3>1. engine'[w] = e /\ streams'[w] = s /\ engine[w].status \in {"queued", "live"}
      BY <1>1, <2>2 DEF Unended
    <3>2. /\ e \in [status : Ended \cup {"live"}, tokens : Nat] /\ e.status # "live"
          /\ e \in [status : WorkStates, tokens : Nat] /\ e.tokens = engine[w].tokens
      BY <2>1, StatusFacts
    <3>3. /\ s \in StreamStates /\ s.emitted = streams[w].emitted /\ s.seen = streams[w].seen
          /\ s.ended = streams[w].ended
      <4>1. "lost" \in Ended \cup {"backpressure"}
        BY StatusFacts
      <4>2. QED BY <2>1, <4>1, ClosedFacts
    <3>4. /\ streams[w].emitted \in Nat /\ streams[w].emitted <= engine[w].tokens
          /\ engine[w].tokens <= MaxTokens(w[1])
      BY <2>1 DEF WorkSound, StreamStates
    <3> HIDE DEF e, s
    <3>5. Advanced(w, e, s)
      BY <3>1, <3>2, <3>3, <3>4 DEF Advanced, StreamStates
    <3>6. QED BY <3>1, <3>2, <3>3, <3>5
  <2>3. CASE w \notin Unended
    BY <1>1, <2>1, <2>3
  <2>4. QED BY <2>2, <2>3
<1>3. engine' \in [Works -> [status : WorkStates, tokens : Nat]] /\ streams' \in [Works -> StreamStates]
  BY <1>1, <1>2
<1>4. /\ commands' \in Seq([op : {"submit", "cancel", "inspect"}, of : Works \cup Requests])
      /\ QueueSound'
  BY <1>1 DEF QueueSound
<1>5. streams' \in [Works -> [emitted : Nat, seen : Nat, terminal : Terminals, ended : BOOLEAN]]
  BY <1>3 DEF StreamStates
<1>6. QED BY <1>1, <1>2, <1>3, <1>4, <1>5, WorksAdvance

\* Whatever the worker does, the works stay sound.
LEMMA WorkerEngine ==
  ASSUME IInv, WorkerActs
  PROVE  EngineSound' /\ EndedStay
BY TakeCommandEngine, EndTickEngine, WorkerFailsEngine
   DEF WorkerActs, IInv, HandlersSound, HandlersTyped

-----------------------------------------------------------------------------
(* A stream is read.                                                       *)

\* What the reader takes, where its handler goes, what it tells and counts.
Takes(w, place, n) ==
  \/ /\ streams[w].seen < streams[w].emitted
     /\ streams' = [streams EXCEPT ![w].seen = @ + 1]
     /\ place = "streaming" /\ n = counted[w[1]] + 1
  \/ /\ streams[w].seen = streams[w].emitted /\ streams[w].terminal # "none"
     /\ streams' = [streams EXCEPT ![w].ended = TRUE]
     /\ \/ Kind(w[1]) = "stream" /\ place = "closing" /\ n = engine[w].tokens
        \/ Kind(w[1]) = "stream" /\ place = "aborting" /\ n = counted[w[1]]
        \/ Kind(w[1]) = "storyStream" /\ place = "streaming" /\ n = counted[w[1]]
        \/ /\ Kind(w[1]) = "storyStream" /\ place = "closing" /\ n = counted[w[1]]
           /\ \A other \in WorksOf(w[1]) \ {w} : streams[other].ended

Reads(w, place, s, n) ==
  /\ UNCHANGED <<workload, holding, quota, charge, engine, commands>>
  /\ pc[w[1]] = "streaming" /\ recorded[w[1]] = <<>> /\ Kind(w[1]) \in StreamKinds
  /\ pc' = [pc EXCEPT ![w[1]] = place]
  /\ recorded' = [recorded EXCEPT ![w[1]] = s]
  /\ counted' = [counted EXCEPT ![w[1]] = n]
  /\ s = CASE place = "streaming" -> <<>> [] place = "closing" -> <<"completed">>
           [] place = "aborting" -> <<"failed">>
  /\ Takes(w, place, n)

\* The three actions of a reader are reads.
LEMMA ReadKinds ==
  ASSUME IInv, UNCHANGED workload, NEW w \in Works, ReadToken(w) \/ ReadLast(w) \/ ReadBranchEnd(w)
  PROVE  \E place \in {"streaming", "closing", "aborting"}, s \in Seq(Outcomes),
            n \in Nat : Reads(w, place, s, n)
<1> DEFINE r == w[1]
<1>1. /\ r \in Requests /\ pc \in [Requests -> Places] /\ recorded \in [Requests -> Seq(Outcomes)]
      /\ counted \in [Requests -> Nat] /\ Told(r) /\ OfItsKind(r) /\ engine[w].tokens \in Nat
  BY WorkFacts, AtHandler, AtWork DEF IInv, EngineSound, EngineTyped
<1>2. pc[r] = "streaming"
  BY DEF ReadToken, ReadLast, ReadBranchEnd, TakesEnd, At
<1>3. recorded[r] = <<>> /\ Kind(r) \in StreamKinds
  BY <1>1, <1>2 DEF Told, OfItsKind
<1>4. UNCHANGED <<workload, holding, quota, charge, engine, commands>>
  BY DEF ReadToken, ReadLast, ReadBranchEnd, TakesEnd, gateVars, quotaVars
<1>5. /\ pc = [pc EXCEPT ![r] = "streaming"] /\ recorded = [recorded EXCEPT ![r] = <<>>]
      /\ counted = [counted EXCEPT ![r] = counted[r]] /\ counted[r] \in Nat /\ counted[r] + 1 \in Nat
  BY <1>1, <1>2, <1>3
<1>6. /\ "completed" \in Outcomes /\ "failed" \in Outcomes
      /\ <<>> \in Seq(Outcomes) /\ <<"completed">> \in Seq(Outcomes) /\ <<"failed">> \in Seq(Outcomes)
  BY DEF Outcomes
<1>7. CASE ReadToken(w)
  <2>1. /\ streams[w].seen < streams[w].emitted
        /\ streams' = [streams EXCEPT ![w].seen = @ + 1]
        /\ counted' = [counted EXCEPT ![r] = counted[r] + 1] /\ UNCHANGED <<pc, recorded>>
    BY <1>7 DEF ReadToken
  <2>2. Reads(w, "streaming", <<>>, counted[r] + 1)
    BY <1>2, <1>3, <1>4, <1>5, <2>1 DEF Reads, Takes
  <2>3. QED BY <1>5, <1>6, <2>2
<1>8. ASSUME TakesEnd(w)
      PROVE  /\ streams[w].seen = streams[w].emitted /\ streams[w].terminal # "none"
             /\ streams' = [streams EXCEPT ![w].ended = TRUE]
  BY <1>8 DEF TakesEnd
<1>9. CASE ReadLast(w)
  <2>1. /\ Kind(r) = "stream" /\ TakesEnd(w)
    BY <1>9 DEF ReadLast
  <2>2. CASE streams[w].terminal = "finished"
    <3>1. Record(r, "completed") /\ Go(r, "closing") /\ counted' = [counted EXCEPT ![r] = engine[w].tokens]
      BY <1>9, <2>2 DEF ReadLast
    <3>2. recorded' = [recorded EXCEPT ![r] = <<"completed">>] /\ pc' = [pc EXCEPT ![r] = "closing"]
      BY <1>1, <1>3, <1>6, <3>1, RecordFacts DEF Go
    <3>3. Reads(w, "closing", <<"completed">>, engine[w].tokens)
      BY <1>2, <1>3, <1>4, <1>8, <2>1, <3>1, <3>2 DEF Reads, Takes
    <3>4. QED BY <1>1, <1>6, <3>3
  <2>3. CASE streams[w].terminal # "finished"
    <3>1. Record(r, "failed") /\ Go(r, "aborting") /\ UNCHANGED counted
      BY <1>9, <2>3 DEF ReadLast
    <3>2. recorded' = [recorded EXCEPT ![r] = <<"failed">>] /\ pc' = [pc EXCEPT ![r] = "aborting"]
      BY <1>1, <1>3, <1>6, <3>1, RecordFacts DEF Go
    <3>3. Reads(w, "aborting", <<"failed">>, counted[r])
      BY <1>2, <1>3, <1>4, <1>5, <1>8, <2>1, <3>1, <3>2 DEF Reads, Takes
    <3>4. QED BY <1>5, <1>6, <3>3
  <2>4. QED BY <2>2, <2>3
<1>10. CASE ReadBranchEnd(w)
  <2>1. /\ Kind(r) = "storyStream" /\ TakesEnd(w) /\ UNCHANGED counted
    BY <1>10 DEF ReadBranchEnd
  <2>2. CASE \A other \in WorksOf(r) \ {w} : streams[other].ended
    <3>1. Record(r, "completed") /\ Go(r, "closing")
      BY <1>10, <2>2 DEF ReadBranchEnd
    <3>2. recorded' = [recorded EXCEPT ![r] = <<"completed">>] /\ pc' = [pc EXCEPT ![r] = "closing"]
      BY <1>1, <1>3, <1>6, <3>1, RecordFacts DEF Go
    <3>3. Reads(w, "closing", <<"completed">>, counted[r])
      BY <1>2, <1>3, <1>4, <1>5, <1>8, <2>1, <2>2, <3>2 DEF Reads, Takes
    <3>4. QED BY <1>5, <1>6, <3>3
  <2>3. CASE ~\A other \in WorksOf(r) \ {w} : streams[other].ended
    <3>1. UNCHANGED <<recorded, pc>>
      BY <1>10, <2>3 DEF ReadBranchEnd
    <3>2. Reads(w, "streaming", <<>>, counted[r])
      BY <1>2, <1>3, <1>4, <1>5, <1>8, <2>1, <3>1 DEF Reads, Takes
    <3>3. QED BY <1>5, <1>6, <3>2
  <2>4. QED BY <2>2, <2>3
<1>11. QED BY <1>7, <1>9, <1>10

\* A read moves its handler to a place that fits what it told.
LEMMA ReadsHandlers ==
  ASSUME HandlersSound, NEW w \in Works, NEW place \in {"streaming", "closing", "aborting"},
         NEW s \in Seq(Outcomes), NEW n \in Nat, Reads(w, place, s, n)
  PROVE  HandlersSound'
<1> DEFINE r == w[1]
<1>1. r \in Requests /\ HandlersTyped /\ Placed(r) /\ Told(r) /\ OfItsKind(r)
  BY WorkFacts DEF HandlersSound
<1>2. /\ UNCHANGED <<workload, holding, quota, charge>>
      /\ pc[r] = "streaming" /\ recorded[r] = <<>> /\ Kind(r) \in StreamKinds
      /\ pc' = [pc EXCEPT ![r] = place] /\ recorded' = [recorded EXCEPT ![r] = s]
      /\ \/ place = "streaming" /\ s = <<>>
         \/ place = "closing" /\ s = <<"completed">>
         \/ place = "aborting" /\ s = <<"failed">>
  BY DEF Reads
<1> HIDE DEF r
<1>3. place \in Places
  BY DEF Places
<1>4. HandlersTyped'
  BY <1>1, <1>2, <1>3 DEF HandlersTyped, IdsDistinct
<1>5. pc'[r] = place /\ recorded'[r] = s
  BY <1>1, <1>2 DEF HandlersTyped
<1>6. Kind(r)' = Kind(r) /\ Reservation(r)' = Reservation(r) /\ Ids(quota)' = Ids(quota)
  BY <1>1, <1>2, SameWorkload
<1>7. Placed(r)'
  BY <1>1, <1>2, <1>5, <1>6 DEF Placed, Held, Early, Over
<1>8. Told(r)'
  <2>1. Kind(r) \notin {"plain", "story"} /\ "completed" \in Outcomes /\ "failed" \in Outcomes
    BY <1>2 DEF StreamKinds, Outcomes
  <2>2. QED BY <1>2, <1>5, <1>6, <2>1 DEF Told
<1>9. OfItsKind(r)'
  BY <1>1, <1>2, <1>5, <1>6 DEF OfItsKind, StreamKinds
<1>10. ASSUME NEW q \in Requests, q # r PROVE Placed(q)' /\ Told(q)' /\ OfItsKind(q)'
  <2>1. Placed(q) /\ Told(q) /\ OfItsKind(q) /\ pc'[q] = pc[q] /\ recorded'[q] = recorded[q]
    BY <1>1, <1>2, <1>10 DEF HandlersSound, HandlersTyped
  <2>2. QED BY <1>2, <2>1, SameHandler
<1>11. QED BY <1>4, <1>7, <1>8, <1>9, <1>10 DEF HandlersSound

\* A read changes only what the reader saw of its stream.
LEMMA ReadsEngine ==
  ASSUME IInv, NEW w \in Works, NEW place \in {"streaming", "closing", "aborting"},
         NEW s \in Seq(Outcomes), NEW n \in Nat, Reads(w, place, s, n)
  PROVE  EngineSound'
<1> DEFINE r == w[1]
<1>1. /\ r \in Requests /\ EngineSound /\ EngineTyped /\ QueueSound
      /\ pc \in [Requests -> Places]
  BY WorkFacts DEF IInv, EngineSound, HandlersSound, HandlersTyped
<1>2. /\ UNCHANGED <<workload, engine, commands>>
      /\ pc[r] = "streaming" /\ pc' = [pc EXCEPT ![r] = place] /\ counted' = [counted EXCEPT ![r] = n]
      /\ \/ /\ streams[w].seen < streams[w].emitted
            /\ streams' = [streams EXCEPT ![w].seen = @ + 1]
         \/ /\ streams[w].seen = streams[w].emitted /\ streams[w].terminal # "none"
            /\ streams' = [streams EXCEPT ![w].ended = TRUE]
  BY DEF Reads, Takes
<1>3. /\ commands' \in Seq([op : {"submit", "cancel", "inspect"}, of : Works \cup Requests])
      /\ QueueSound'
  BY <1>1, <1>2, SameQueue
<1>4. /\ streams \in [Works -> StreamStates] /\ streams[w] \in StreamStates /\ WorkSound(w)
  BY <1>1, AtWork DEF StreamStates
<1> HIDE DEF r
<1>5. /\ streams' \in [Works -> StreamStates]
      /\ streams'[w].emitted = streams[w].emitted /\ streams'[w].terminal = streams[w].terminal
      /\ streams'[w].seen <= streams'[w].emitted
      /\ streams'[w].ended => streams'[w].terminal # "none" /\ streams'[w].seen = streams'[w].emitted
      /\ \A v \in Works : v # w => streams'[v] = streams[v]
  <2>1. CASE streams[w].seen < streams[w].emitted /\ streams' = [streams EXCEPT ![w].seen = @ + 1]
    <3>1. streams[w].seen \in Nat /\ streams[w].emitted \in Nat /\ streams[w].seen + 1 \in Nat
      BY <1>4 DEF StreamStates
    <3>2. ~streams[w].ended
      BY <1>4, <2>1, <3>1 DEF StreamStates, WorkSound
    <3> DEFINE a == [streams[w] EXCEPT !.seen = streams[w].seen + 1]
    <3>3. streams' = [streams EXCEPT ![w] = a]
      BY <2>1
    <3>4. /\ a \in StreamStates /\ a.emitted = streams[w].emitted /\ a.terminal = streams[w].terminal
          /\ a.seen = streams[w].seen + 1 /\ ~a.ended
      BY <1>4, <3>1, <3>2 DEF StreamStates
    <3> HIDE DEF a
    <3>5. streams'[w] = a /\ streams' \in [Works -> StreamStates]
          /\ \A v \in Works : v # w => streams'[v] = streams[v]
      BY <1>4, <3>3, <3>4
    <3>6. a.seen <= a.emitted
      BY <2>1, <3>1, <3>4
    <3>7. QED BY <3>4, <3>5, <3>6
  <2>2. CASE /\ streams[w].seen = streams[w].emitted /\ streams[w].terminal # "none"
             /\ streams' = [streams EXCEPT ![w].ended = TRUE]
    BY <1>4, <2>2 DEF StreamStates, WorkSound
  <2>3. QED BY <1>2, <2>1, <2>2
<1>6. EngineTyped'
  BY <1>1, <1>2, <1>3, <1>5 DEF EngineTyped, StreamStates
<1>7. \A q \in Requests : pc'[q] = pc[q] \/ pc'[q] \in {"streaming", "closing", "aborting"}
  BY <1>1, <1>2
<1>8. ASSUME NEW v \in Works PROVE WorkSound(v)'
  <2>1. WorkSound(v) /\ v[1] \in Requests
    BY <1>1, WorkFacts DEF EngineSound
  <2>2. pc'[v[1]] \in Early \cup {"acquired"} => pc[v[1]] \in Early \cup {"acquired"}
    BY <1>7, <2>1 DEF Early
  <2>3. CASE v # w
    BY <1>2, <1>5, <2>1, <2>2, <2>3, SameWork
  <2>4. CASE v = w
    <3>1. MaxTokens(v[1])' = MaxTokens(v[1]) /\ WorksOf(v[1])' = WorksOf(v[1])
      BY <1>2, <2>1, SameWorkload
    <3>2. QED BY <1>2, <1>5, <2>1, <2>2, <2>4, <3>1 DEF WorkSound
  <2>5. QED BY <2>3, <2>4
<1>9. ASSUME NEW q \in Requests PROVE SubmitSound(q)'
  <2>1. SubmitSound(q)
    BY <1>1 DEF EngineSound
  <2>2. QED BY <1>2, <1>7, <2>1, SameSubmit
<1>10. QED BY <1>3, <1>6, <1>8, <1>9 DEF EngineSound

-----------------------------------------------------------------------------
(* Counts and payments.                                                    *)

\* Works that ended keep their tokens.
LEMMA EndedWorks ==
  ASSUME UNCHANGED workload, NEW q \in Requests, AllEnded(q),
         \A w \in WorksOf(q) : engine[w].status \in Ended => engine'[w] = engine[w]
  PROVE  Generated(q)' = Generated(q) /\ AllEnded(q)'
<1>1. WorksOf(q)' = WorksOf(q) /\ \A w \in WorksOf(q) : engine'[w] = engine[w]
  BY SameWorkload DEF AllEnded
<1>2. [w \in WorksOf(q)' |-> engine'[w].tokens] = [w \in WorksOf(q) |-> engine[w].tokens]
  BY <1>1
<1>3. Generated(q)' = Generated(q)
  BY <1>2 DEF Generated
<1>4. AllEnded(q)'
  BY <1>1 DEF AllEnded
<1>5. QED BY <1>3, <1>4

\* What a reader saw of streams that a step leaves alone.
LEMMA SameSeen ==
  ASSUME UNCHANGED workload, NEW q \in Requests,
         \A w \in WorksOf(q) : streams'[w].seen = streams[w].seen
  PROVE  SeenBy(q)' = SeenBy(q)
<1>1. WorksOf(q)' = WorksOf(q)
  BY SameWorkload
<1>2. [w \in WorksOf(q)' |-> streams'[w].seen] = [w \in WorksOf(q) |-> streams[w].seen]
  BY <1>1
<1>3. QED BY <1>2 DEF SeenBy

\* A count that a step leaves alone.
LEMMA SameCount ==
  ASSUME workload \in Workloads, UNCHANGED workload, NEW q \in Requests, CountSound(q),
         counted'[q] = counted[q],
         Kind(q) \in StreamKinds => (recorded'[q] = <<"completed">> <=> recorded[q] = <<"completed">>),
         \A w \in WorksOf(q) : /\ engine[w].status \in Ended => engine'[w] = engine[w]
                               /\ streams'[w].seen = streams[w].seen
                               /\ streams'[w].ended = streams[w].ended
  PROVE  CountSound(q)'
<1>1. Kind(q)' = Kind(q) /\ WorksOf(q)' = WorksOf(q) /\ SeenBy(q)' = SeenBy(q)
  BY SameWorkload, SameSeen
<1>2. Kind(q) = "stream" => <<q, 1>> \in WorksOf(q)
  BY KindFacts
<1>3. CASE Kind(q) = "storyStream"
  BY <1>1, <1>3 DEF CountSound, StreamKinds
<1>4. CASE Kind(q) = "stream"
  BY <1>1, <1>2, <1>4 DEF CountSound, StreamKinds
<1>5. QED BY <1>1, <1>3, <1>4 DEF CountSound

\* A handler that is over, or is not yet.
LEMMA SamePaid ==
  ASSUME workload \in Workloads, UNCHANGED workload, NEW q \in Requests, Paid(q),
         pc'[q] \in {"done", "dropped"} =>
           /\ pc'[q] = pc[q] /\ recorded'[q] = recorded[q]
           /\ counted'[q] = counted[q] /\ charge'[q] = charge[q],
         pc'[q] \in {"done", "dropped"} =>
           \A w \in WorksOf(q) : /\ engine[w].status \in Ended => engine'[w] = engine[w]
                                 /\ engine'[w].status = "none" <=> engine[w].status = "none"
  PROVE  Paid(q)'
<1>1. CASE pc'[q] \notin {"done", "dropped"}
  BY <1>1 DEF Paid, Over
<1>2. CASE pc'[q] \in {"done", "dropped"}
  <2>1. /\ Kind(q)' = Kind(q) /\ WorksOf(q)' = WorksOf(q) /\ Reservation(q)' = Reservation(q)
        /\ Submitted(q)' = Submitted(q)
        /\ AllEnded(q) => Generated(q)' = Generated(q) /\ AllEnded(q)'
    BY <1>2, SameWorkload, SameSubmitted, EndedWorks
  <2>2. /\ pc'[q] = pc[q] /\ recorded'[q] = recorded[q]
        /\ counted'[q] = counted[q] /\ charge'[q] = charge[q]
    BY <1>2
  <2>3. Completed(q, charge[q]) => Completed(q, charge[q])'
    BY <2>1, <2>2 DEF Completed
  <2>4. CoversStory(q, charge[q]) => CoversStory(q, charge[q])'
    BY <2>1, <2>2 DEF CoversStory
  <2>5. QED BY <2>2, <2>3, <2>4 DEF Paid, Over
<1>3. QED BY <1>1, <1>2

\* A price that a request pays in a step that leaves the works alone.
LEMMA PaidNow ==
  ASSUME UNCHANGED <<workload, engine>>, NEW r \in Requests, counted'[r] = counted[r],
         pc'[r] = "done" /\ recorded'[r] = <<"completed">> => Completed(r, charge'[r]),
         CoversStory(r, charge'[r])
  PROVE  Paid(r)'
<1>1. /\ Kind(r)' = Kind(r) /\ WorksOf(r)' = WorksOf(r) /\ Reservation(r)' = Reservation(r)
      /\ Submitted(r)' = Submitted(r) /\ Generated(r)' = Generated(r) /\ AllEnded(r)' = AllEnded(r)
  <2>1. WorksOf(r)' = WorksOf(r) /\ Kind(r)' = Kind(r) /\ Reservation(r)' = Reservation(r)
    BY SameWorkload
  <2>2. QED BY <2>1 DEF Submitted, Generated, AllEnded
<1>2. Completed(r, charge'[r]) => Completed(r, charge[r])'
  BY <1>1 DEF Completed
<1>3. CoversStory(r, charge[r])'
  BY <1>1 DEF CoversStory
<1>4. QED BY <1>2, <1>3 DEF Paid

\* A step that leaves the works of the requests, and what they pay, alone.
LEMMA PaymentsLeftAlone ==
  ASSUME IInv, UNCHANGED <<workload, charge, recorded, counted>>,
         \A q \in Requests : pc'[q] \in {"done", "dropped"} => pc'[q] = pc[q],
         \A w \in Works : /\ engine[w].status \in Ended => engine'[w] = engine[w]
                          /\ streams'[w].seen = streams[w].seen /\ streams'[w].ended = streams[w].ended,
         \A q \in Requests : pc'[q] \in {"done", "dropped"} =>
           \A w \in Works : w[1] = q => (engine'[w].status = "none" <=> engine[w].status = "none")
  PROVE  PaymentsSound'
<1>1. ASSUME NEW q \in Requests PROVE CountSound(q)' /\ Paid(q)'
  <2>1. workload \in Workloads /\ CountSound(q) /\ Paid(q)
    BY AtHandler
  <2>2. \A w \in WorksOf(q) : w \in Works /\ w[1] = q
    BY <2>1, WorksFacts
  <2>3. CountSound(q)'
    BY <2>1, <2>2, SameCount
  <2>4. pc'[q] \in {"done", "dropped"} =>
           \A w \in WorksOf(q) : /\ engine[w].status \in Ended => engine'[w] = engine[w]
                                 /\ engine'[w].status = "none" <=> engine[w].status = "none"
    BY <2>2
  <2>5. Paid(q)'
    BY <2>1, <2>4, SamePaid
  <2>6. QED BY <2>3, <2>5
<1>2. QED BY <1>1 DEF PaymentsSound

\* Where nothing else changes, nobody pays.
LEMMA StillPayments ==
  ASSUME IInv, Still
  PROVE  PaymentsSound'
<1>1. UNCHANGED <<workload, charge, pc, recorded, counted, engine, streams>>
  BY DEF Still
<1>2. QED BY <1>1, PaymentsLeftAlone

\* The worker changes no price: works that ended stay as they are.
LEMMA WorkerPayments ==
  ASSUME IInv, WorkerActs
  PROVE  PaymentsSound'
<1>1. UNCHANGED <<workload, charge, pc, recorded, counted>> /\ EndedStay
  BY WorkerEngine DEF WorkerActs
<1>2. QED BY <1>1, PaymentsLeftAlone DEF EndedStay

\* A reservation is no payment.
LEMMA ReservePayments ==
  ASSUME IInv, UNCHANGED workload, NEW r \in Requests, Reserve(r)
  PROVE  PaymentsSound'
<1>1. UNCHANGED <<charge, recorded, counted, engine, streams>> /\ pc' = [pc EXCEPT ![r] = "reserved"]
  BY DEF Reserve, Go, Waits, runnerVars
<1>2. \A q \in Requests : pc'[q] \in {"done", "dropped"} => pc'[q] = pc[q]
  BY <1>1, AtHandler
<1>3. QED BY <1>1, <1>2, PaymentsLeftAlone

\* Nor is a submission: its request is not over.
LEMMA SubmitPayments ==
  ASSUME IInv, UNCHANGED workload, NEW r \in Requests, SubmitNext(r)
  PROVE  PaymentsSound'
<1>1. /\ UNCHANGED <<charge, recorded, counted, streams>>
      /\ \A w \in Works : w[1] # r => engine'[w] = engine[w]
      /\ \A w \in Works : engine[w].status # "none" => engine'[w] = engine[w]
  BY SubmitEngine
<1>2. PICK place \in {"reserved", "streaming", "waiting"} : pc' = [pc EXCEPT ![r] = place]
  BY SubmitEngine
<1>3. pc'[r] \notin {"done", "dropped"} /\ \A q \in Requests : q # r => pc'[q] = pc[q]
  BY <1>2, AtHandler
<1>4. \A w \in Works : engine[w].status \in Ended => engine'[w] = engine[w]
  BY <1>1, StatusFacts
<1>5. QED BY <1>1, <1>3, <1>4, PaymentsLeftAlone

\* In a step of the handler r alone, the others pay and count as before.
LEMMA OthersPay ==
  ASSUME IInv, UNCHANGED <<workload, engine>>, NEW r \in Requests, NEW q \in Requests, q # r,
         \A w \in WorksOf(q) : streams'[w] = streams[w],
         pc'[q] = pc[q], recorded'[q] = recorded[q], counted'[q] = counted[q], charge'[q] = charge[q]
  PROVE  CountSound(q)' /\ Paid(q)'
<1>1. workload \in Workloads /\ CountSound(q) /\ Paid(q)
  BY AtHandler
<1>2. CountSound(q)'
  BY <1>1, SameCount
<1>3. Paid(q)'
  BY <1>1, SamePaid
<1>4. QED BY <1>2, <1>3

\* A handler that goes on pays nothing, and ends early only without works.
LEMMA MovesPayments ==
  ASSUME IInv, NEW r \in Requests, NEW place \in Places, NEW s \in Seq(Outcomes), Moves(r, place, s)
  PROVE  PaymentsSound'
<1>1. /\ UNCHANGED <<workload, charge, counted, engine, streams>> /\ Passes(r, place, s)
      /\ pc' = [pc EXCEPT ![r] = place] /\ recorded' = [recorded EXCEPT ![r] = s]
  BY DEF Moves
<1>2. /\ workload \in Workloads /\ pc \in [Requests -> Places] /\ recorded \in [Requests -> Seq(Outcomes)]
      /\ Told(r) /\ CountSound(r) /\ EngineSound
  BY AtHandler DEF IInv
<1>3. pc'[r] = place /\ recorded'[r] = s
  BY <1>1, <1>2
<1>4. ASSUME NEW q \in Requests, q # r PROVE CountSound(q)' /\ Paid(q)'
  <2>1. pc'[q] = pc[q] /\ recorded'[q] = recorded[q]
    BY <1>1, <1>2, <1>4
  <2>2. QED BY <1>1, <1>4, <2>1, OthersPay
<1>5. \/ s = recorded[r]
      \/ s # <<"completed">> /\ recorded[r] # <<"completed">>
  <2>1. <<"failed">> # <<"completed">> /\ <<"rejected">> # <<"completed">> /\ <<>> # <<"completed">>
    OBVIOUS
  <2>2. CASE s = recorded[r]
    BY <2>2
  <2>3. CASE s # recorded[r]
    <3>1. pc[r] \in {"reading", "queued", "acquired", "streaming"} /\ s \in {<<"failed">>, <<"rejected">>}
      BY <1>1, <2>3 DEF Passes
    <3>2. recorded[r] = <<>>
      BY <1>2, <3>1 DEF Told
    <3>3. QED BY <2>1, <3>1, <3>2
  <2>4. QED BY <2>2, <2>3
<1>6. CountSound(r)'
  BY <1>1, <1>2, <1>3, <1>5, SameCount
<1>7. Paid(r)'
  <2>1. CASE place \notin {"done", "dropped"}
    BY <1>3, <2>1 DEF Paid, Over
  <2>2. CASE place \in {"done", "dropped"}
    <3>1. pc[r] \in {"reading", "queued", "acquired"} /\ s \in {<<"failed">>, <<"rejected">>}
      BY <1>1, <2>2 DEF Passes
    <3>2. Submitted(r) = {}
      <4>1. ASSUME NEW w \in WorksOf(r) PROVE engine[w].status = "none"
        <5>1. w \in Works /\ w[1] = r
          BY <1>2, WorksFacts
        <5>2. WorkSound(w)
          BY <1>2, <5>1, AtWork
        <5>3. QED BY <3>1, <5>1, <5>2 DEF WorkSound, Early
      <4>2. QED BY <4>1 DEF Submitted
    <3>3. CoversStory(r, charge'[r])
      BY <3>2, NothingOwed
    <3>4. s # <<"completed">>
      <4>1. <<"failed">> # <<"completed">> /\ <<"rejected">> # <<"completed">>
        OBVIOUS
      <4>2. QED BY <3>1, <4>1
    <3>5. QED BY <1>1, <1>3, <3>3, <3>4, PaidNow
  <2>3. QED BY <2>1, <2>2
<1>8. QED BY <1>4, <1>6, <1>7 DEF PaymentsSound

\* A handler that ends pays the price its invariant asks for.
LEMMA EndsPayments ==
  ASSUME IInv, NEW r \in Requests, NEW place \in Places, NEW s \in Seq(Outcomes), NEW price \in Int,
         Ends(r, place, s, price)
  PROVE  PaymentsSound'
<1>1. /\ UNCHANGED <<workload, counted, engine, streams>> /\ EndsAt(r, place, s)
      /\ pc' = [pc EXCEPT ![r] = place] /\ recorded' = [recorded EXCEPT ![r] = s]
      /\ charge' = [charge EXCEPT ![r] = price]
      /\ place = "done" /\ s = <<"completed">> => Completed(r, price)
      /\ CoversStory(r, price)
  BY DEF Ends
<1>2. /\ workload \in Workloads /\ pc \in [Requests -> Places] /\ recorded \in [Requests -> Seq(Outcomes)]
      /\ charge \in [Requests -> Int] /\ CountSound(r)
  BY AtHandler
<1>3. pc'[r] = place /\ recorded'[r] = s /\ charge'[r] = price
  BY <1>1, <1>2
<1>4. ASSUME NEW q \in Requests, q # r PROVE CountSound(q)' /\ Paid(q)'
  <2>1. pc'[q] = pc[q] /\ recorded'[q] = recorded[q] /\ charge'[q] = charge[q]
    BY <1>1, <1>2, <1>4
  <2>2. QED BY <1>1, <1>4, <2>1, OthersPay
<1>5. Kind(r) \in StreamKinds => (s = <<"completed">> <=> recorded[r] = <<"completed">>)
  <2>1. <<"failed">> # <<"completed">> /\ <<"rejected">> # <<"completed">> /\ <<>> # <<"completed">>
    OBVIOUS
  <2>2. QED BY <1>1, <2>1 DEF EndsAt
<1>6. CountSound(r)'
  BY <1>1, <1>2, <1>3, <1>5, SameCount
<1>7. Paid(r)'
  BY <1>1, <1>3, PaidNow
<1>8. QED BY <1>4, <1>6, <1>7 DEF PaymentsSound

\* A reader takes one more token of one of its streams.
LEMMA SeenOneMore ==
  ASSUME EngineSound, workload \in Workloads, UNCHANGED workload, NEW r \in Requests, NEW w \in WorksOf(r),
         streams' = [streams EXCEPT ![w].seen = @ + 1]
  PROVE  SeenBy(r)' = SeenBy(r) + 1
<1> DEFINE S == WorksOf(r)
           f == [v \in S |-> streams[v].seen]
           g == [v \in S |-> streams'[v].seen]
<1>1. IsFiniteSet(S) /\ w \in S /\ \A v \in S : v \in Works
  BY WorksFacts
<1>2. /\ streams \in [Works -> StreamStates] /\ \A v \in S : streams[v].seen \in Nat
  BY <1>1 DEF EngineSound, EngineTyped, StreamStates
<1>3. /\ \A v \in S : v # w => streams'[v].seen = streams[v].seen
      /\ streams'[w].seen = streams[w].seen + 1
  BY <1>1, <1>2 DEF StreamStates
<1>4. f \in [S -> Nat] /\ g \in [S -> Nat] /\ g[w] = f[w] + 1 /\ \A v \in S \ {w} : g[v] = f[v]
  BY <1>1, <1>2, <1>3
<1>5. SeenBy(r) = SumFunction(f)
  BY DEF SeenBy
<1>6. SeenBy(r)' = SumFunction(g)
  BY SameWorkload DEF SeenBy
<1> HIDE DEF S, f, g
<1>7. SumFunction(g) + f[w] = SumFunction(f) + g[w]
  BY <1>1, <1>4, SumChange
<1>8. SumFunction(f) \in Nat /\ SumFunction(g) \in Nat /\ f[w] \in Nat
  BY <1>1, <1>4, SumType
<1>9. QED BY <1>4, <1>5, <1>6, <1>7, <1>8

\* A read counts the token it takes, or at the end what the work made.
LEMMA ReadsPayments ==
  ASSUME IInv, NEW w \in Works, NEW place \in {"streaming", "closing", "aborting"},
         NEW s \in Seq(Outcomes), NEW n \in Nat, Reads(w, place, s, n)
  PROVE  PaymentsSound'
<1> DEFINE r == w[1]
<1>1. /\ UNCHANGED <<workload, charge, engine>>
      /\ pc[r] = "streaming" /\ recorded[r] = <<>> /\ Kind(r) \in StreamKinds
      /\ pc' = [pc EXCEPT ![r] = place] /\ recorded' = [recorded EXCEPT ![r] = s]
      /\ counted' = [counted EXCEPT ![r] = n] /\ Takes(w, place, n)
      /\ s = CASE place = "streaming" -> <<>> [] place = "closing" -> <<"completed">>
               [] place = "aborting" -> <<"failed">>
  BY DEF Reads
<1>2. r \in Requests
  BY WorkFacts
<1>3. /\ workload \in Workloads /\ pc \in [Requests -> Places] /\ recorded \in [Requests -> Seq(Outcomes)]
      /\ counted \in [Requests -> Nat] /\ CountSound(r) /\ EngineSound /\ WorkSound(w)
      /\ streams \in [Works -> StreamStates] /\ streams[w] \in StreamStates /\ engine[w].tokens \in Nat
  BY <1>2, AtHandler, AtWork DEF IInv, EngineSound, EngineTyped, StreamStates
<1>4. pc'[r] = place /\ recorded'[r] = s /\ counted'[r] = n
  BY <1>1, <1>2, <1>3
<1>5. \A v \in Works : v # w => streams'[v] = streams[v]
  BY <1>1, <1>3 DEF Takes
<1>6. ASSUME NEW q \in Requests, q # r PROVE CountSound(q)' /\ Paid(q)'
  <2>1. pc'[q] = pc[q] /\ recorded'[q] = recorded[q] /\ counted'[q] = counted[q]
    BY <1>1, <1>2, <1>3, <1>6
  <2>2. \A v \in WorksOf(q) : v \in Works /\ v[1] = q
    BY <1>3, WorksFacts
  <2>3. \A v \in WorksOf(q) : streams'[v] = streams[v]
    BY <1>5, <1>6, <2>2
  <2>4. QED BY <1>1, <1>2, <1>6, <2>1, <2>3, OthersPay
<1>7. Paid(r)'
  BY <1>4 DEF Paid, Over
<1>8. w \in WorksOf(r)
  <2>1. engine[w].status # "none"
    <3>1. streams[w].seen \in Nat /\ streams[w].emitted \in Nat
      BY <1>3 DEF StreamStates
    <3>2. CASE streams[w].seen < streams[w].emitted
      BY <1>3, <3>1, <3>2 DEF WorkSound
    <3>3. CASE streams[w].terminal # "none"
      BY <1>3, <3>3, StatusFacts DEF WorkSound
    <3>4. QED BY <1>1, <3>2, <3>3 DEF Takes
  <2>2. QED BY <1>3, <2>1 DEF WorkSound
<1>9. /\ place = "streaming" => s # <<"completed">>
      /\ place = "aborting" => s # <<"completed">>
      /\ recorded[r] # <<"completed">>
  <2>1. <<"failed">> # <<"completed">> /\ <<>> # <<"completed">>
    OBVIOUS
  <2>2. place = "streaming" => s = <<>>
    BY <1>1
  <2>3. place = "aborting" => s = <<"failed">>
    BY <1>1
  <2>4. QED BY <1>1, <2>1, <2>2, <2>3
<1>10. Kind(r)' = Kind(r) /\ WorksOf(r)' = WorksOf(r)
  BY <1>1, <1>2, SameWorkload
<1>11. Kind(r) = "stream" => w = <<r, 1>>
  BY <1>3, <1>2, <1>8, KindFacts
<1> HIDE DEF r
<1>12. CountSound(r)'
  <2>1. CASE /\ streams[w].seen < streams[w].emitted
             /\ streams' = [streams EXCEPT ![w].seen = @ + 1]
             /\ place = "streaming" /\ n = counted[r] + 1
    <3>1. CASE Kind(r) = "storyStream"
      <4>1. SeenBy(r)' = SeenBy(r) + 1
        BY <1>1, <1>2, <1>3, <1>8, <2>1, SeenOneMore
      <4>2. counted[r] = SeenBy(r)
        BY <1>3, <3>1 DEF CountSound
      <4>3. QED BY <1>4, <1>9, <1>10, <2>1, <3>1, <4>1, <4>2 DEF CountSound
    <3>2. CASE Kind(r) = "stream"
      <4>1. counted[r] = streams[w].seen
        BY <1>3, <1>9, <1>11, <3>2 DEF CountSound
      <4>2. streams'[w].seen = streams[w].seen + 1
        BY <1>3, <2>1 DEF StreamStates
      <4>3. QED BY <1>4, <1>9, <1>10, <1>11, <2>1, <3>2, <4>1, <4>2 DEF CountSound
    <3>3. QED BY <1>1, <3>1, <3>2 DEF StreamKinds
  <2>2. CASE /\ streams[w].seen = streams[w].emitted /\ streams[w].terminal # "none"
             /\ streams' = [streams EXCEPT ![w].ended = TRUE]
             /\ \/ Kind(r) = "stream" /\ place = "closing" /\ n = engine[w].tokens
                \/ Kind(r) = "stream" /\ place = "aborting" /\ n = counted[r]
                \/ Kind(r) = "storyStream" /\ place = "streaming" /\ n = counted[r]
                \/ /\ Kind(r) = "storyStream" /\ place = "closing" /\ n = counted[r]
                   /\ \A other \in WorksOf(r) \ {w} : streams[other].ended
    <3>1. \A v \in WorksOf(r) : v \in Works
      BY <1>2, <1>3, WorksFacts
    <3>2. /\ \A v \in WorksOf(r) : streams'[v].seen = streams[v].seen
          /\ streams'[w].ended
      BY <1>3, <1>5, <2>2, <3>1 DEF StreamStates
    <3>3. SeenBy(r)' = SeenBy(r)
      BY <1>1, <1>2, <3>2, SameSeen
    <3>4. CASE Kind(r) = "storyStream"
      <4>1. n = counted[r] /\ counted[r] = SeenBy(r)
        BY <1>3, <2>2, <3>4 DEF CountSound
      <4>2. place = "closing" => \A v \in WorksOf(r) : streams'[v].ended
        BY <1>5, <2>2, <3>1, <3>2, <3>4
      <4>3. recorded'[r] = <<"completed">> => place = "closing"
        BY <1>4, <1>9
      <4>4. QED BY <1>4, <1>10, <3>3, <3>4, <4>1, <4>2, <4>3 DEF CountSound
    <3>5. CASE Kind(r) = "stream"
      <4>1. counted[r] = streams[w].seen /\ streams'[w].seen = streams[w].seen
        BY <1>3, <1>8, <1>9, <1>11, <3>2, <3>5 DEF CountSound
      <4>2. engine[w].status \in Ended
        BY <1>3, <2>2 DEF WorkSound
      <4>3. CASE place = "closing"
        <5>1. n = engine[w].tokens /\ s = <<"completed">>
          BY <1>1, <2>2, <3>5, <4>3
        <5>2. QED BY <1>1, <1>4, <1>10, <1>11, <3>5, <4>2, <5>1 DEF CountSound
      <4>4. CASE place = "aborting"
        <5>1. n = counted[r] /\ s # <<"completed">>
          BY <1>9, <2>2, <3>5, <4>4
        <5>2. QED BY <1>4, <1>10, <1>11, <3>5, <4>1, <5>1 DEF CountSound
      <4>5. QED BY <2>2, <3>5, <4>3, <4>4
    <3>6. QED BY <1>1, <3>4, <3>5 DEF StreamKinds
  <2>3. QED BY <1>1, <2>1, <2>2 DEF Takes, r
<1>13. QED BY <1>6, <1>7, <1>12 DEF PaymentsSound

\* The invariant holds at first.
LEMMA InitSound == Init => IInv
<1> SUFFICES ASSUME Init PROVE IInv
  OBVIOUS
<1>1. /\ workload \in Workloads /\ quota = Quota!NewQuota /\ holding = {} /\ commands = <<>>
      /\ charge = [r \in Requests |-> -1] /\ pc = [r \in Requests |-> "new"]
      /\ recorded = [r \in Requests |-> <<>>] /\ counted = [r \in Requests |-> 0]
      /\ engine = [w \in Works |-> NoWork] /\ streams = [w \in Works |-> NoStream]
  BY DEF Init, Gate!Init
<1>2. /\ quota \in Quotas /\ IdsDistinct(quota) /\ Ids(quota) = {} /\ DOMAIN quota.reserved = {}
  BY <1>1, NewQuotaFacts DEF IdsDistinct, Ids
<1>3. HandlersTyped
  <2>1. "new" \in Places /\ -1 \in Int /\ <<>> \in Seq(Outcomes)
    BY DEF Places
  <2>2. QED BY <1>1, <1>2, <2>1 DEF HandlersTyped
<1>4. ASSUME NEW r \in Requests PROVE Placed(r) /\ Told(r) /\ OfItsKind(r)
  <2>1. pc[r] = "new" /\ recorded[r] = <<>> /\ charge[r] = -1
    BY <1>1
  <2>2. Placed(r)
    BY <1>1, <1>2, <2>1 DEF Placed, Held, Early, Over
  <2>3. Told(r) /\ OfItsKind(r)
    BY <2>1 DEF Told, OfItsKind
  <2>4. QED BY <2>2, <2>3
<1>5. ASSUME NEW w \in Works
      PROVE  /\ engine[w] = NoWork /\ streams[w] = NoStream /\ WorkSound(w)
  <2>1. engine[w] = NoWork /\ streams[w] = NoStream
    BY <1>1
  <2>2. /\ engine[w].status = "none" /\ engine[w].tokens = 0 /\ streams[w].emitted = 0 /\ streams[w].seen = 0
        /\ streams[w].terminal = "none" /\ ~streams[w].ended
    BY <2>1 DEF NoWork, NoStream
  <2>3. MaxTokens(w[1]) \in Nat \ {0} /\ 0 <= MaxTokens(w[1]) /\ 0 < MaxTokens(w[1])
    BY <1>1, WorkFacts, KindFacts
  <2>4. QED BY <2>1, <2>2, <2>3 DEF WorkSound
<1>6. EngineTyped
  <2>1. NoWork \in [status : WorkStates, tokens : Nat] /\ NoStream \in StreamStates
    BY DEF NoWork, NoStream, WorkStates, Terminals, StreamStates
  <2>2. commands \in Seq([op : {"submit", "cancel", "inspect"}, of : Works \cup Requests])
    BY <1>1
  <2>3. QED BY <1>1, <2>1, <2>2 DEF EngineTyped, StreamStates
<1>7. QueueSound
  BY <1>1 DEF QueueSound
<1>8. ASSUME NEW r \in Requests PROVE SubmitSound(r)
  BY <1>1 DEF SubmitSound
<1>9. HandlersSound /\ EngineSound
  BY <1>3, <1>4, <1>5, <1>6, <1>7, <1>8 DEF HandlersSound, EngineSound
<1>10. ASSUME NEW r \in Requests PROVE CountSound(r) /\ Paid(r)
  <2>1. pc[r] = "new" /\ recorded[r] = <<>> /\ counted[r] = 0 /\ <<>> # <<"completed">>
    BY <1>1
  <2>2. Paid(r)
    BY <2>1 DEF Paid, Over
  <2>3. \A w \in WorksOf(r) : w \in Works /\ streams[w].seen = 0
    BY <1>1, <1>5, WorksFacts DEF NoStream
  <2>4. SeenBy(r) = 0
    <3> DEFINE S == WorksOf(r)
               f == [w \in S |-> streams[w].seen]
    <3>1. f \in [S -> 0 .. 0] /\ IsFiniteSet(S) /\ Cardinality(S) \in Nat
      BY <1>1, <2>3, WorksFacts
    <3>2. SeenBy(r) = SumFunction(f)
      BY DEF SeenBy
    <3> HIDE DEF f, S
    <3>3. SumFunction(f) <= 0 * Cardinality(S) /\ SumFunction(f) \in Nat
      <4>1. f \in [S -> Nat]
        BY <3>1
      <4>2. QED BY <3>1, <4>1, SumBound, SumType
    <3>4. QED BY <3>1, <3>2, <3>3
  <2>5. Kind(r) = "stream" => streams[<<r, 1>>].seen = 0
    BY <1>1, <2>3, KindFacts
  <2>6. CountSound(r)
    BY <2>1, <2>4, <2>5 DEF CountSound
  <2>7. QED BY <2>2, <2>6
<1>11. QED BY <1>9, <1>10 DEF IInv, PaymentsSound

\* A handler that submits keeps what it has.
LEMMA SubmitHandlers ==
  ASSUME IInv, UNCHANGED workload, NEW r \in Requests, SubmitNext(r)
  PROVE  HandlersSound'
<1>1. UNCHANGED <<holding, quota, charge, recorded>> /\ pc[r] = "reserved"
  BY SubmitEngine
<1>2. PICK place \in {"reserved", "streaming", "waiting"} :
        /\ pc' = [pc EXCEPT ![r] = place]
        /\ place = "streaming" => Kind(r) \in StreamKinds
        /\ place = "waiting" => Kind(r) \in {"plain", "story"}
  BY SubmitEngine
<1>3. HandlersSound /\ HandlersTyped /\ Placed(r) /\ Told(r) /\ OfItsKind(r)
  BY AtHandler DEF IInv, HandlersSound
<1>4. pc'[r] = place /\ \A q \in Requests \ {r} : pc'[q] = pc[q]
  BY <1>2, <1>3 DEF HandlersTyped
<1>5. HandlersTyped'
  BY <1>1, <1>2, <1>3 DEF HandlersTyped, IdsDistinct, Places
<1>6. Kind(r)' = Kind(r) /\ Reservation(r)' = Reservation(r) /\ Ids(quota)' = Ids(quota)
  BY <1>1, SameWorkload
<1>7. Placed(r)'
  BY <1>1, <1>2, <1>3, <1>4, <1>6 DEF Placed, Held, Early, Over
<1>8. Told(r)'
  BY <1>1, <1>2, <1>3, <1>4, <1>6 DEF Told
<1>9. OfItsKind(r)'
  BY <1>1, <1>2, <1>3, <1>4, <1>6 DEF OfItsKind
<1>10. ASSUME NEW q \in Requests, q # r PROVE Placed(q)' /\ Told(q)' /\ OfItsKind(q)'
  <2>1. Placed(q) /\ Told(q) /\ OfItsKind(q) /\ pc'[q] = pc[q]
    BY <1>3, <1>4, <1>10 DEF HandlersSound
  <2>2. QED BY <1>1, <2>1, SameHandler
<1>11. QED BY <1>5, <1>7, <1>8, <1>9, <1>10 DEF HandlersSound

\* Each kind of step preserves the invariant, and so every step does.
LEMMA NextSound ==
  ASSUME IInv, [Next]_vars
  PROVE  IInv'
<1>1. Step /\ HandlersSound
  BY StepKinds DEF IInv
<1>2. CASE Still
  <2>1. HandlersSound'
    BY <1>1, <1>2, HandlersLeftAlone DEF Still
  <2>2. EngineSound'
    BY <1>2, StillEngine DEF IInv
  <2>3. QED BY <1>2, <2>1, <2>2, StillPayments DEF IInv
<1>3. CASE WorkerActs
  <2>1. HandlersSound'
    BY <1>1, <1>3, HandlersLeftAlone DEF WorkerActs
  <2>2. QED BY <1>3, <2>1, WorkerEngine, WorkerPayments DEF IInv
<1>4. ASSUME NEW w \in Works, UNCHANGED workload, ReadToken(w) \/ ReadLast(w) \/ ReadBranchEnd(w) PROVE IInv'
  <2>1. \E place \in {"streaming", "closing", "aborting"}, s \in Seq(Outcomes), n \in Nat : Reads(w, place, s, n)
    BY <1>4, ReadKinds
  <2>2. PICK place \in {"streaming", "closing", "aborting"}, s \in Seq(Outcomes), n \in Nat : Reads(w, place, s, n)
    BY <2>1
  <2>3. HandlersSound'
    BY <1>1, <2>2, ReadsHandlers
  <2>4. EngineSound'
    BY <2>2, ReadsEngine
  <2>5. PaymentsSound'
    BY <2>2, ReadsPayments
  <2>6. QED BY <2>3, <2>4, <2>5 DEF IInv
<1>5. ASSUME NEW r \in Requests, NEW place \in Places, NEW s \in Seq(Outcomes), Moves(r, place, s) PROVE IInv'
  BY <1>1, <1>5, MovesHandlers, MovesEngine, MovesPayments DEF IInv
<1>6. ASSUME NEW r \in Requests, UNCHANGED workload, Reserve(r) PROVE IInv'
  BY <1>1, <1>6, ReserveHandlers, ReserveEngine, ReservePayments DEF IInv
<1>8. ASSUME NEW r \in Requests, NEW place \in Places, NEW s \in Seq(Outcomes), NEW price \in Int,
             Ends(r, place, s, price)
      PROVE  IInv'
  BY <1>1, <1>8, EndsHandlers, EndsEngine, EndsPayments DEF IInv
<1>9. ASSUME NEW r \in Requests, UNCHANGED workload, SubmitNext(r) PROVE IInv'
  <2>1. EngineSound' /\ PaymentsSound'
    BY <1>9, SubmitEngine, SubmitPayments
  <2>2. HandlersSound'
    BY <1>1, <1>9, SubmitHandlers
  <2>3. QED BY <2>1, <2>2 DEF IInv
<1>10. QED BY <1>1, <1>2, <1>3, <1>4, <1>5, <1>6, <1>8, <1>9 DEF Step

-----------------------------------------------------------------------------
(* What holds of every behaviour.                                          *)

\* The invariant holds in every reachable state.
THEOREM AlwaysSound == Spec => []IInv
BY InitSound, NextSound, PTL DEF Spec

\* A handler is between its gate and its end exactly as long as it holds its
\* slot, and past its quota as long as it holds its reservation.
THEOREM LeasesAlwaysFollow == Spec => []LeasesFollowHandlers
<1>1. ASSUME IInv PROVE LeasesFollowHandlers
  <2>1. ASSUME NEW r \in Requests
        PROVE  /\ r \in holding <=> ~Over(r) /\ pc[r] \notin {"new", "reading", "queued"}
               /\ r \in DOMAIN quota.reserved <=> r \in holding /\ pc[r] # "acquired"
    <3>1. Placed(r) /\ pc[r] \in Places
      BY <1>1, AtHandler
    <3>2. pc[r] \in Held <=> ~Over(r) /\ pc[r] \notin {"new", "reading", "queued"}
      BY <3>1 DEF Places, Held, Over
    <3>3. QED BY <3>1, <3>2 DEF Placed
  <2>2. QED BY <2>1 DEF LeasesFollowHandlers
<1>2. QED BY <1>1, AlwaysSound, PTL

\* Every request that ends was told to the metrics once.
THEOREM EachCountedOnce == Spec => []CountedOnce
<1>1. ASSUME IInv PROVE CountedOnce
  <2>1. ASSUME NEW r \in Requests
        PROVE  /\ Len(recorded[r]) <= 1
               /\ pc[r] = "done" => Len(recorded[r]) = 1
    <3>1. Told(r)
      BY <1>1, AtHandler
    <3>2. Len(<<>>) = 0 /\ \A o \in Outcomes : Len(<<o>>) = 1
      OBVIOUS
    <3>3. pc[r] = "done" => recorded[r] # <<>>
      BY <3>1 DEF Told
    <3>4. CASE recorded[r] = <<>>
      BY <3>2, <3>3, <3>4
    <3>5. CASE \E o \in Outcomes : recorded[r] = <<o>>
      BY <3>2, <3>5
    <3>6. QED BY <3>1, <3>4, <3>5 DEF Told
  <2>2. QED BY <2>1 DEF CountedOnce
<1>2. QED BY <1>1, AlwaysSound, PTL

\* A request that completed paid for what it generated or delivered, and a
\* story that was submitted as a whole for what it made the engine generate.
THEOREM WorkIsPaidFor == Spec => []PaysForItsWork
<1>1. ASSUME IInv PROVE PaysForItsWork
  <2>1. ASSUME NEW r \in Requests
        PROVE  /\ pc[r] = "done" /\ recorded[r] = <<"completed">> =>
                    charge[r] = IF Kind(r) = "storyStream"
                                THEN SumFunction([w \in WorksOf(r) |-> streams[w].emitted])
                                ELSE Generated(r)
               /\ Kind(r) = "story" /\ Over(r) /\ Submitted(r) = WorksOf(r) => charge[r] >= Generated(r)
    <3>1. /\ workload \in Workloads /\ Paid(r) /\ CountSound(r) /\ OfItsKind(r) /\ Kind(r) \in Kinds /\ EngineSound
      BY <1>1, AtHandler DEF IInv
    <3>2. Generated(r) \in Nat /\ Generated(r) <= Reservation(r) /\ Reservation(r) \in Nat
          /\ (Kind(r) = "predict" => Generated(r) = 0)
      BY <1>1, <3>1, SumsCovered, WorksFacts
    <3>3. ASSUME Kind(r) = "story", Over(r), Submitted(r) = WorksOf(r) PROVE charge[r] >= Generated(r)
      BY <3>1, <3>2, <3>3 DEF Paid, CoversStory
    <3>4. ASSUME pc[r] = "done", recorded[r] = <<"completed">>
          PROVE  charge[r] = IF Kind(r) = "storyStream"
                             THEN SumFunction([w \in WorksOf(r) |-> streams[w].emitted])
                             ELSE Generated(r)
      <4>1. Completed(r, charge[r])
        BY <3>1, <3>4 DEF Paid
      <4>2. CASE Kind(r) = "storyStream"
        <5>1. charge[r] = SeenBy(r) /\ \A w \in WorksOf(r) : streams[w].ended
          BY <3>1, <3>4, <4>1, <4>2 DEF Completed, CountSound, StreamKinds
        <5>2. \A w \in WorksOf(r) : streams[w].seen = streams[w].emitted
          <6>1. \A w \in WorksOf(r) : w \in Works
            BY <3>1, WorksFacts
          <6>2. QED BY <3>1, <5>1, <6>1 DEF EngineSound, WorkSound
        <5>3. [w \in WorksOf(r) |-> streams[w].seen] = [w \in WorksOf(r) |-> streams[w].emitted]
          BY <5>2
        <5>4. QED BY <4>2, <5>1, <5>3 DEF SeenBy
      <4>3. CASE Kind(r) = "stream"
        <5> DEFINE f == [w \in {<<r, 1>>} |-> engine[w].tokens]
        <5>1. charge[r] = engine[<<r, 1>>].tokens
          BY <3>1, <3>4, <4>1, <4>3 DEF Completed, CountSound, StreamKinds
        <5>2. WorksOf(r) = {<<r, 1>>} /\ <<r, 1>> \in Works
          BY <3>1, <4>3, KindFacts, WorksFacts
        <5>3. engine[<<r, 1>>].tokens \in Nat
          BY <3>1, <5>2, AtWork
        <5>4. Generated(r) = SumFunction(f) /\ f \in [{<<r, 1>>} -> Nat] /\ f[<<r, 1>>] = engine[<<r, 1>>].tokens
          BY <5>2, <5>3 DEF Generated
        <5> HIDE DEF f
        <5>5. SumFunction(f) = f[<<r, 1>>]
          <6> DEFINE e == [x \in {} |-> 0]
                     y == <<r, 1>>
                     S == {}
          <6>1. e \in [S -> Nat] /\ IsFiniteSet(S) /\ y \notin S
            BY FS_EmptySet
          <6>2. f \in [S \cup {y} -> Nat] /\ \A x \in S : f[x] = e[x]
            BY <5>4
          <6>3. SumFunction(e) = 0
            BY <6>1, SumEmpty
          <6> HIDE DEF e, y, S
          <6>7. SumFunction(f) = SumFunction(e) + f[y]
            BY <6>1, <6>2, SumExtend
          <6>4. f[y] \in Nat
            BY <5>4 DEF y
          <6>5. SumFunction(f) = f[y]
            BY <6>3, <6>4, <6>7
          <6>6. QED BY <6>5 DEF y
        <5>6. QED BY <4>3, <5>1, <5>4, <5>5
      <4>4. CASE Kind(r) = "predict"
        BY <3>2, <4>1, <4>4 DEF Completed
      <4>5. CASE Kind(r) \in {"plain", "story"}
        BY <4>1, <4>5 DEF Completed
      <4>6. Kind(r) # "absent"
        BY <3>1, <3>4 DEF OfItsKind
      <4>7. QED BY <3>1, <4>2, <4>3, <4>4, <4>5, <4>6 DEF Kinds, StoryKinds
    <3>5. QED BY <3>3, <3>4
  <2>2. QED BY <2>1 DEF PaysForItsWork
<1>2. QED BY <1>1, AlwaysSound, PTL

-----------------------------------------------------------------------------
(* The handlers use the gate as CapacityGate says.                         *)

\* Every step is a step of the gate, or leaves it alone.
LEMMA GateSteps ==
  ASSUME [Next]_vars
  PROVE  [Gate!Next]_(Gate!vars)
<1>1. ASSUME UNCHANGED gateVars PROVE UNCHANGED Gate!vars
  BY <1>1 DEF gateVars, Gate!vars
<1>2. ASSUME NEW r \in Requests, GiveBack(r) PROVE Gate!Next
  BY <1>2 DEF GiveBack, Gate!Next
<1>3. ASSUME NEW r \in Requests, HandlerStep(r) PROVE Gate!Next \/ UNCHANGED gateVars
  <2>1. CASE Reserve(r) \/ SubmitNext(r) \/ BeginRollback(r) \/ CancelNext(r) \/ StartInspection(r)
    BY <2>1 DEF Reserve, SubmitNext, BeginRollback, CancelNext, StartInspection
  <2>2. CASE FindQuotaFull(r) \/ RefuseFraming(r) \/ SubmitRefused(r) \/ EndRollback(r) \/ EndAbort(r)
             \/ CloseStream(r) \/ InspectionRefused(r)
    BY <1>2, <2>2 DEF FindQuotaFull, RefuseFraming, SubmitRefused, EndRollback, EndAbort, CloseStream,
                      InspectionRefused
  <2>3. CASE GetSlot(r) \/ StopWaiting(r)
    BY <2>3 DEF GetSlot, StopWaiting, Gate!Next
  <2>4. QED BY <1>3, <2>1, <2>2, <2>3 DEF HandlerStep
<1>4. ASSUME NEW r \in Requests, Deadline(r) PROVE Gate!Next \/ UNCHANGED gateVars
  <2>1. CASE LeaveReading(r) \/ Abort(r) \/ BreakStream(r)
    BY <2>1 DEF LeaveReading, Abort, BreakStream
  <2>2. CASE InterruptWaiter(r)
    BY <2>2 DEF InterruptWaiter, Gate!Next
  <2>3. CASE EndInspection(r)
    BY <1>2, <2>3 DEF EndInspection
  <2>4. QED BY <1>4, <2>1, <2>2, <2>3 DEF Deadline
<1>5. ASSUME NEW r \in Requests, Client(r) PROVE Gate!Next \/ UNCHANGED gateVars
  <2>1. CASE Arrive(r) \/ FindLineFull(r)
    BY <2>1 DEF Arrive, FindLineFull
  <2>2. CASE AcquireSlot(r) \/ WaitForSlot(r) \/ AbortInterrupted(r)
    BY <2>2 DEF AcquireSlot, WaitForSlot, AbortInterrupted, Gate!Next
  <2>3. CASE Answered(r)
    BY <1>2, <2>3 DEF Answered
  <2>4. QED BY <1>5, <2>1, <2>2, <2>3 DEF Client
<1>6. ASSUME NEW r \in Requests, Inspector(r) PROVE UNCHANGED gateVars
  BY <1>6 DEF Inspector, PutInspection, InspectionTimesOut
<1>7. ASSUME NEW w \in Works, Thread(w) PROVE UNCHANGED gateVars
  BY <1>7 DEF Thread, PutCancel, CancelGivesUp
<1>8. ASSUME NEW w \in Works, Reader(w) PROVE UNCHANGED gateVars
  BY <1>8 DEF Reader, ReadToken, ReadLast, ReadBranchEnd, TakesEnd
<1>9. ASSUME Runner PROVE UNCHANGED gateVars
  BY <1>9 DEF Runner, TakeCommand, BeginTick, EndTick, WorkerFails
<1>10. CASE UNCHANGED vars
  BY <1>1, <1>10 DEF vars
<1>11. CASE Next
  <2>1. Gate!Next \/ UNCHANGED gateVars
    BY <1>3, <1>4, <1>5, <1>6, <1>7, <1>8, <1>9, <1>11 DEF Next
  <2>2. QED BY <1>1, <2>1
<1>12. QED BY <1>10, <1>11

-----------------------------------------------------------------------------
(* They use the quota as GlobalQuota says.                                 *)

\* The sums of the quota are those of the community module.
LEMMA SameSum == \A f : Quota!SumFunction(f) = SumFunction(f)
BY Zenon DEF Quota!SumFunction, SumFunction, Quota!SumFunctionOnSet, SumFunctionOnSet,
   Quota!FoldFunctionOnSet, FoldFunctionOnSet, Quota!MapThenFoldSet, MapThenFoldSet

\* A reservation that is not refused fits the day.
LEMMA AdmittedFits ==
  ASSUME workload \in Workloads, quota \in Quotas, NEW m \in Nat, ~Quota!Refused(quota, m)
  PROVE  m \in 0 .. TokensPerDay
<1> DEFINE f == [i \in DOMAIN quota.tokens |-> quota.tokens[i].count]
           g == quota.reserved
<1>1. SumFunction(f) \in Nat
  <2>1. quota.tokens \in Seq([at : {0}, count : Nat \ {0}])
    BY DEF Quotas
  <2>2. f \in [1 .. Len(quota.tokens) -> Nat] /\ Len(quota.tokens) \in Nat
    <3>1. DOMAIN quota.tokens = 1 .. Len(quota.tokens) /\ Len(quota.tokens) \in Nat
      BY <2>1
    <3>2. ASSUME NEW i \in DOMAIN quota.tokens PROVE quota.tokens[i].count \in Nat
      <4>1. quota.tokens[i] \in [at : {0}, count : Nat \ {0}]
        BY <2>1, <3>1, ElementOfSeq
      <4>2. QED BY <4>1
    <3>3. QED BY <3>1, <3>2
  <2>3. IsFiniteSet(1 .. Len(quota.tokens))
    BY <2>2, FirstNumbers
  <2> HIDE DEF f
  <2>4. QED BY <2>2, <2>3, SumType
<1>2. SumFunction(g) \in Nat
  <2>1. PICK S \in SUBSET Requests : g \in [S -> Nat]
    BY DEF Quotas, Leases
  <2>2. IsFiniteSet(S)
    BY <2>1, PolicyAssumption, FS_Subset
  <2> HIDE DEF g
  <2>3. QED BY <2>1, <2>2, SumType
<1>3. ~(SumFunction(f) + SumFunction(g) + m - TokensPerDay > 0)
  <2>1. Quota!SumFunction(f) = SumFunction(f) /\ Quota!SumFunction(g) = SumFunction(g)
    BY SameSum
  <2>2. ~(Quota!SumFunction(f) + Quota!SumFunction(g) + m - TokensPerDay > 0)
    BY DEF Quota!Refused, Quota!Excess, Quota!Total, Quota!Promised
  <2> HIDE DEF f, g
  <2>3. QED BY <2>1, <2>2
<1> HIDE DEF f, g
<1>4. TokensPerDay \in Nat
  BY PolicyAssumption
<1>5. QED BY <1>1, <1>2, <1>3, <1>4

\* Within one hour no record expires.
LEMMA NothingExpires ==
  ASSUME quota \in Quotas
  PROVE  Quota!Pruned(quota, 0) = quota
<1>1. ASSUME NEW T, NEW s \in Seq(T), \A i \in DOMAIN s : s[i].at = 0, NEW window \in {1, 2}
      PROVE  Quota!Young(s, 0, window) = s
  <2> DEFINE fresh == {i \in DOMAIN s : ~Quota!Older(s[i], 0, window)}
  <2>1. DOMAIN s = 1 .. Len(s) /\ Len(s) \in Nat
    OBVIOUS
  <2>2. fresh = 1 .. Len(s)
    BY <1>1, <2>1 DEF Quota!Older
  <2>3. CASE Len(s) = 0
    <3>1. s = <<>> /\ fresh = {}
      BY <2>2, <2>3
    <3>2. QED BY <3>1 DEF Quota!Young
  <2>4. CASE Len(s) > 0
    <3>1. 1 \in fresh /\ fresh # {} /\ \A j \in fresh : 1 <= j
      BY <2>1, <2>2, <2>4
    <3>2. Quota!Min(fresh) = CHOOSE k \in fresh : \A j \in fresh : k <= j
      BY DEF Quota!Min
    <3>3. Quota!Min(fresh) = 1
      <4>1. \A k \in fresh : (\A j \in fresh : k <= j) => k = 1
        BY <2>1, <2>2, <3>1
      <4> HIDE DEF fresh
      <4>2. QED BY <3>1, <3>2, <4>1
    <3>4. SubSeq(s, 1, Len(s)) = s
      BY <2>1
    <3>5. QED BY <3>1, <3>3, <3>4 DEF Quota!Young
  <2>5. QED BY <2>1, <2>3, <2>4
<1>2. /\ quota.requests \in Seq([id : Requests, at : {0}])
      /\ quota.tokens \in Seq([at : {0}, count : Nat \ {0}])
  BY DEF Quotas
<1>3. /\ \A i \in DOMAIN quota.requests : quota.requests[i].at = 0
      /\ \A i \in DOMAIN quota.tokens : quota.tokens[i].at = 0
  <2>1. ASSUME NEW i \in DOMAIN quota.requests PROVE quota.requests[i].at = 0
    <3>1. quota.requests[i] \in [id : Requests, at : {0}]
      <4>1. i \in 1 .. Len(quota.requests)
        BY <1>2
      <4>2. QED BY <1>2, <4>1, ElementOfSeq
    <3>2. QED BY <3>1
  <2>2. ASSUME NEW i \in DOMAIN quota.tokens PROVE quota.tokens[i].at = 0
    <3>1. quota.tokens[i] \in [at : {0}, count : Nat \ {0}]
      <4>1. i \in 1 .. Len(quota.tokens)
        BY <1>2
      <4>2. QED BY <1>2, <4>1, ElementOfSeq
    <3>2. QED BY <3>1
  <2>3. QED BY <2>1, <2>2
<1>4. Quota!Pruned(quota, 0)
        = [quota EXCEPT !.requests = Quota!Young(quota.requests, 0, 1), !.tokens = Quota!Young(quota.tokens, 0, 2)]
  BY Zenon DEF Quota!Pruned
<1>5. Quota!Young(quota.requests, 0, 1) = quota.requests
  BY <1>1, <1>2, <1>3
<1>6. Quota!Young(quota.tokens, 0, 2) = quota.tokens
  BY <1>1, <1>2, <1>3
<1>7. [quota EXCEPT !.requests = quota.requests, !.tokens = quota.tokens] = quota
  BY DEF Quotas
<1>8. QED BY <1>4, <1>5, <1>6, <1>7

\* What the quota's history is of the handlers' state.
LeaseOf(r) ==
  IF r \in DOMAIN quota.reserved THEN "open" ELSE IF charge[r] = -1 THEN "none" ELSE "final"

Spendings == {[id |-> r, at |-> 0, count |-> charge[r]] : r \in {q \in Requests : charge[q] >= 0}}

\* An empty quota is where GlobalQuota starts.
LEMMA QuotaInit == Init => Quota!QuotaInit
<1> SUFFICES ASSUME Init PROVE Quota!QuotaInit
  OBVIOUS
<1>1. quota = Quota!NewQuota /\ charge = [r \in Requests |-> -1]
  BY DEF Init
<1>2. DOMAIN quota.reserved = {} /\ DOMAIN quota.requests = {}
  BY <1>1 DEF Quota!NewQuota
<1>3. {r \in Requests : charge[r] >= 0} = {}
  BY <1>1
<1>4. [r \in Requests |-> LeaseOf(r)] = [r \in Requests |-> "none"]
  BY <1>1, <1>2 DEF LeaseOf
<1>5. QED BY <1>1, <1>2, <1>3, <1>4 DEF Quota!QuotaInit, LeaseOf

\* A reservation is an acquisition.
LEMMA ReserveAcquires ==
  ASSUME IInv, NEW r \in Requests, Reserve(r)
  PROVE  \E maximum \in 0 .. TokensPerDay : Quota!Acquire(r, maximum)
<1>0. PICK m \in Nat : m = Reservation(r)
  BY AtHandler, WorksFacts
<1>1. /\ pc[r] = "acquired" /\ ~Quota!Refused(quota, m)
      /\ quota' = Quota!Admitted(quota, r, m, 0) /\ UNCHANGED charge
  BY <1>0 DEF Reserve
<1>2. /\ workload \in Workloads /\ quota \in Quotas /\ IdsDistinct(quota) /\ Placed(r)
  BY AtHandler
<1>3. r \notin DOMAIN quota.reserved /\ charge[r] = -1
  BY <1>1, <1>2 DEF Placed, Held, Over
<1>4. m \in 0 .. TokensPerDay
  BY <1>1, <1>2, AdmittedFits
<1>5. Quota!Pruned(quota, 0) = quota
  BY <1>2, NothingExpires
<1> DEFINE h == Quota!Admitted(quota, r, m, 0)
<1>6. /\ DOMAIN h.reserved = DOMAIN quota.reserved \cup {r}
      /\ Entries(h) = Entries(quota) \cup {[id |-> r, at |-> 0]}
  BY <1>2, AdmittedFacts
<1> HIDE DEF h
<1>7. quota' = h
  BY <1>1 DEF h
<1> DEFINE lease == [q \in Requests |-> LeaseOf(q)]
           after == [q \in Requests |-> IF q \in DOMAIN quota'.reserved THEN "open"
                                        ELSE IF charge'[q] = -1 THEN "none" ELSE "final"]
<1>8. lease[r] = "none"
  BY <1>3 DEF LeaseOf
<1>9. after = [lease EXCEPT ![r] = "open"]
  BY <1>1, <1>6, <1>7 DEF LeaseOf
<1>10. Entries(quota') = Entries(quota) \cup {[id |-> r, at |-> 0]}
  BY <1>6, <1>7
<1>11. Spendings' = Spendings
  BY <1>1 DEF Spendings
<1>12. Quota!Acquire(r, m)
  BY <1>1, <1>5, <1>8, <1>9, <1>10, <1>11 DEF Quota!Acquire, LeaseOf, Entries, Spendings
<1>13. QED BY <1>4, <1>12

\* An end is a settlement or a rollback.
LEMMA EndFinalizes ==
  ASSUME IInv, NEW r \in Requests, NEW place \in Places, NEW s \in Seq(Outcomes), NEW price \in Int,
         Ends(r, place, s, price)
  PROVE  Quota!Settle(r) \/ Quota!Cancel(r)
<1>1. /\ pc[r] \in Held \ {"acquired"} /\ charge' = [charge EXCEPT ![r] = price]
      /\ \/ price \in 0 .. Reservation(r) /\ quota' = Quota!Settled(quota, r, price, 0)
         \/ price = RolledBack /\ quota' = Quota!RolledBack(quota, r)
  BY DEF Ends
<1>2. /\ workload \in Workloads /\ quota \in Quotas /\ IdsDistinct(quota) /\ Placed(r)
      /\ charge \in [Requests -> Int] /\ Reservation(r) \in Nat
  BY AtHandler, WorksFacts
<1>3. r \in DOMAIN quota.reserved /\ quota.reserved[r] = Reservation(r) /\ charge[r] = -1
  BY <1>1, <1>2 DEF Placed, Held, Over
<1> DEFINE lease == [q \in Requests |-> LeaseOf(q)]
           after == [q \in Requests |-> IF q \in DOMAIN quota'.reserved THEN "open"
                                        ELSE IF charge'[q] = -1 THEN "none" ELSE "final"]
<1>4. lease[r] = "open"
  BY <1>3 DEF LeaseOf
<1>5. charge'[r] = price /\ \A q \in Requests \ {r} : charge'[q] = charge[q]
  BY <1>1, <1>2
<1>6. ASSUME DOMAIN quota'.reserved = DOMAIN quota.reserved \ {r}, price # -1
      PROVE  after = [lease EXCEPT ![r] = "final"]
  BY <1>5, <1>6 DEF LeaseOf
<1>7. CASE price \in 0 .. Reservation(r) /\ quota' = Quota!Settled(quota, r, price, 0)
  <2> DEFINE h == Quota!Settled(quota, r, price, 0)
  <2>1. price \in Nat /\ price # -1
    BY <1>2, <1>7
  <2>2. h.requests = quota.requests /\ DOMAIN h.reserved = DOMAIN quota.reserved \ {r}
    BY <1>2, <2>1, SettledFacts
  <2> HIDE DEF h
  <2>3. quota' = h
    BY <1>7 DEF h
  <2>4. after = [lease EXCEPT ![r] = "final"]
    BY <1>6, <2>1, <2>2, <2>3
  <2>5. Entries(quota') = Entries(quota)
    BY <2>2, <2>3 DEF Entries
  <2>6. Spendings' = Spendings \cup {[id |-> r, at |-> 0, count |-> price]}
    <3>1. {q \in Requests : charge'[q] >= 0} = {q \in Requests : charge[q] >= 0} \cup {r}
      BY <1>2, <1>5, <2>1
    <3>2. \A q \in {v \in Requests : charge[v] >= 0} : charge'[q] = charge[q]
      BY <1>3, <1>5
    <3>3. QED BY <1>5, <3>1, <3>2 DEF Spendings
  <2>7. price \in 0 .. quota.reserved[r]
    BY <1>3, <1>7
  <2>8. Quota!Settle(r)
    BY <1>4, <1>7, <2>4, <2>5, <2>6, <2>7 DEF Quota!Settle, LeaseOf, Entries, Spendings
  <2>9. QED BY <2>8
<1>8. CASE price = RolledBack /\ quota' = Quota!RolledBack(quota, r)
  <2> DEFINE h == Quota!RolledBack(quota, r)
  <2>1. price = -2
    BY <1>8 DEF RolledBack
  <2>2. /\ DOMAIN h.reserved = DOMAIN quota.reserved \ {r}
        /\ Entries(h) = {record \in Entries(quota) : record.id # r}
    BY <1>2, RolledBackFacts
  <2> HIDE DEF h
  <2>3. quota' = h
    BY <1>8 DEF h
  <2>4. after = [lease EXCEPT ![r] = "final"]
    BY <1>6, <2>1, <2>2, <2>3
  <2>5. Entries(quota') = {record \in Entries(quota) : record.id # r}
    BY <2>2, <2>3
  <2>6. Spendings' = Spendings
    <3>1. {q \in Requests : charge'[q] >= 0} = {q \in Requests : charge[q] >= 0}
      BY <1>2, <1>3, <1>5, <2>1
    <3>2. \A q \in {v \in Requests : charge[v] >= 0} : charge'[q] = charge[q]
      BY <1>3, <1>5
    <3>3. QED BY <3>1, <3>2 DEF Spendings
  <2>7. Quota!Cancel(r)
    BY <1>4, <1>8, <2>4, <2>5, <2>6 DEF Quota!Cancel, LeaseOf, Entries, Spendings
  <2>8. QED BY <2>7
<1>9. QED BY <1>1, <1>7, <1>8

\* Every step is a step of the quota, or leaves it alone.
LEMMA QuotaSteps ==
  ASSUME IInv, [Next]_vars
  PROVE  [Quota!QuotaNext]_(Quota!quotaVars)
<1>1. ASSUME UNCHANGED <<quota, charge>> PROVE UNCHANGED Quota!quotaVars
  BY <1>1 DEF Quota!quotaVars
<1>2. Step
  BY StepKinds
<1>3. ASSUME NEW r \in Requests, Reserve(r) PROVE Quota!QuotaNext
  BY <1>3, ReserveAcquires DEF Quota!QuotaNext
<1>4. ASSUME NEW r \in Requests, NEW place \in Places, NEW s \in Seq(Outcomes), NEW price \in Int,
             Ends(r, place, s, price)
      PROVE  Quota!QuotaNext
  BY <1>4, EndFinalizes DEF Quota!QuotaNext
<1>5. ASSUME NEW r \in Requests, NEW place \in Places, NEW s \in Seq(Outcomes), Moves(r, place, s)
      PROVE  UNCHANGED <<quota, charge>>
  BY <1>5 DEF Moves
<1>6. ASSUME NEW r \in Requests, SubmitNext(r) PROVE UNCHANGED <<quota, charge>>
  BY <1>6 DEF SubmitNext, quotaVars
<1>7. ASSUME NEW w \in Works, ReadToken(w) \/ ReadLast(w) \/ ReadBranchEnd(w) PROVE UNCHANGED <<quota, charge>>
  BY <1>7 DEF ReadToken, ReadLast, ReadBranchEnd, TakesEnd, quotaVars
<1>8. Still \/ WorkerActs => UNCHANGED <<quota, charge>>
  BY DEF Still, WorkerActs
<1>9. QED BY <1>1, <1>2, <1>3, <1>4, <1>5, <1>6, <1>7, <1>8 DEF Step

\* With any of their ways out, the handlers take, await and give back slots
\* in turn, and settle or roll back each reservation once, for no more than it is.
THEOREM LimitsUsedAsSpecified == Spec => UsesLimits
<1>1. Init => Gate!Init
  BY DEF Init
<1>2. IInv /\ [Next]_vars => [Gate!Next]_(Gate!vars) /\ [Quota!QuotaNext]_(Quota!quotaVars)
  BY GateSteps, QuotaSteps
<1>3. QED BY <1>1, <1>2, QuotaInit, AlwaysSound, PTL DEF Spec, UsesLimits, Gate!Spec, Quota!QuotaSpec
==============================================================================
