------------------------- MODULE EngineRunner_proofs -------------------------
(***************************************************************************)
(* Proofs about EngineRunner, for any requests, streams, buffers and queue  *)
(* sizes: whatever clients, callers and failures interleave, its variables  *)
(* stay in range, no stream has a gap, and a worker that has ended in order *)
(* has answered every request that it had accepted.                         *)
(***************************************************************************)
EXTENDS EngineRunner, TLAPS

-----------------------------------------------------------------------------
\* Sequences and events.

\* What a reader takes from its stream is added to what it has read.
LEMMA ReadMoves ==
    ASSUME NEW S, NEW s \in Seq(S), NEW t \in Seq(S), t # <<>>
    PROVE  Append(s, Head(t)) \o Tail(t) = s \o t
<1> DEFINE u == Append(s, Head(t)) \o Tail(t)
           v == s \o t
<1>1. Head(t) \in S /\ Tail(t) \in Seq(S) /\ Len(t) > 0
    OBVIOUS
<1>2. u \in Seq(S) /\ v \in Seq(S) /\ Len(u) = Len(v)
    BY <1>1
<1>3. \A i \in 1..Len(v) : u[i] = v[i]
    BY <1>1
<1>4. QED
    BY <1>2, <1>3

\* What is added to the stream is added to the whole.
LEMMA AppendMoves ==
    ASSUME NEW S, NEW s \in Seq(S), NEW t \in Seq(S), NEW e \in S
    PROVE  s \o Append(t, e) = Append(s \o t, e)
OBVIOUS

\* The three parts of an event of the engine.
LEMMA TripleType ==
    ASSUME NEW e \in Requests \X {"token", "finished", "cancelled", "failed"} \X Nat
    PROVE  e[1] \in Requests /\ e[2] \in {"token", "finished", "cancelled", "failed"} /\ e[3] \in Nat
OBVIOUS

\* The last event leaves a stream within its size, and displaces nothing while
\* the place kept for it is free.
LEMMA TerminalFits ==
    ASSUME NEW q \in Seq(Events), NEW e \in Events, Len(q) <= StreamSize
    PROVE  /\ WithTerminal(q, e) \in Seq(Events) /\ Len(WithTerminal(q, e)) <= StreamSize
           /\ Len(q) <= Buffer => WithTerminal(q, e) = Append(q, e)
<1>1. Buffer \in Nat \ {0} /\ StreamSize = Buffer + 1
    BY RunnerAssumption DEF StreamSize
<1>2. CASE Len(q) < StreamSize
    BY <1>1, <1>2 DEF WithTerminal
<1>3. CASE Len(q) = StreamSize
    <2>1. Tail(q) \in Seq(Events) /\ Len(Tail(q)) = Buffer
        BY <1>1, <1>3
    <2>2. WithTerminal(q, e) = Append(Tail(q), e)
        BY <1>1, <1>3 DEF WithTerminal
    <2>3. QED
        BY <1>1, <1>3, <2>1, <2>2
<1>4. QED
    BY <1>1, <1>2, <1>3

\* The streams and those that have ended stay typed when one of them ends.
LEMMA EndedTyped ==
    ASSUME TypeOK, NEW r \in Requests, NEW e \in Events
    PROVE  /\ Ended(r, e) \in [Requests -> Seq(Events)]
           /\ \A s \in Requests : Len(Ended(r, e)[s]) <= StreamSize
           /\ Ends(r) \subseteq Streaming
<1>1. stream \in [Requests -> Seq(Events)] /\ Len(stream[r]) <= StreamSize
    BY DEF TypeOK
<1>2. WithTerminal(stream[r], e) \in Seq(Events) /\ Len(WithTerminal(stream[r], e)) <= StreamSize
    BY <1>1, TerminalFits
<1>3. QED
    BY <1>1, <1>2 DEF Ended, Ends, TypeOK

-----------------------------------------------------------------------------
\* The type invariant, part by part.
PlacesTyped ==
    /\ state \in {"new", "running", "stopping", "stopped", "failed"}
    /\ stage \in {"unborn", "born", "drain", "inspect", "tick", "publish", "stop", "fail",
                  "reject", "reject inspection", "close", "dead", "crashed"}
    /\ mode \in {"serve", "stop", "fail"}
    /\ checked \in Requests \cup {NoRequest}

CallersTyped ==
    /\ client \in [Requests -> {"new", "checked", "refused", "waiting", "leaving",
                                "answered", "gone"}]
    /\ starter \in {"none", "waiting", "returned", "refused", "timeout"}
    /\ observer \in Kinds \cup {"new", "checked", "refused", "answered", "gone"}
    /\ observed \in {"none", "pending", "running"} \cup Done
    /\ shutdown \in {"none", "skipped", "ask", "put", "ack", "join", "returned"}
    /\ acked \in BOOLEAN

QueueTyped ==
    /\ commands \in Seq({"submit", "cancel", "metrics", "inspect", "shutdown"}
                        \X (Requests \cup {NoRequest}))
    /\ Len(commands) <= QueueSize

StreamsTyped ==
    /\ future \in [Requests -> {"none", "pending"} \cup Done]
    /\ stream \in [Requests -> Seq(Events)] /\ received \in [Requests -> Seq(Events)]
    /\ \A r \in Requests : Len(stream[r]) <= StreamSize
    /\ channels \subseteq Requests /\ sent \subseteq Streaming

EngineTyped ==
    /\ tokens \in [Requests -> Nat]
    /\ outcome \in [Requests -> {"absent", "open", "finished", "cancelled", "failed"}]
    /\ pending \subseteq Open /\ served \subseteq Requests
    /\ events \in Seq(Requests \X {"token", "finished", "cancelled", "failed"} \X Nat)

\* The parts are the type invariant, in this state and in the next.
LEMMA TypeParts ==
    TypeOK <=> PlacesTyped /\ CallersTyped /\ QueueTyped /\ StreamsTyped /\ EngineTyped
BY Zenon DEF TypeOK, PlacesTyped, CallersTyped, QueueTyped, StreamsTyped, EngineTyped

LEMMA TypePartsNext ==
    TypeOK' <=> PlacesTyped' /\ CallersTyped' /\ QueueTyped' /\ StreamsTyped' /\ EngineTyped'
BY Zenon DEF TypeOK, PlacesTyped, CallersTyped, QueueTyped, StreamsTyped, EngineTyped

\* What the queue holds.
Command == {"submit", "cancel", "metrics", "inspect", "shutdown"} \X (Requests \cup {NoRequest})

\* A command is added only if there is room.
LEMMA EnqueueTyped ==
    ASSUME QueueTyped, NEW c \in Command, Enqueue(c)
    PROVE  QueueTyped'
<1>1. commands \in Seq(Command) /\ Len(commands) < QueueSize /\ commands' = Append(commands, c)
    BY DEF QueueTyped, Command, Enqueue, HasRoom
<1>2. commands' \in Seq(Command) /\ Len(commands') = Len(commands) + 1
    BY <1>1
<1>3. QED
    BY <1>1, <1>2, RunnerAssumption DEF QueueTyped, Command

\* Clients leave the worker and the other callers alone.
LEMMA ClientsLeave ==
    ASSUME NEW r \in Requests, ClientStep(r)
    PROVE  UNCHANGED <<state, workerVars, otherVars>>
BY DEF ClientStep, CheckRunning, Submit, Answer, Read, Leave, SendCancel

LEMMA ClientsTyped ==
    ASSUME TypeOK, NEW r \in Requests, ClientStep(r)
    PROVE  TypeOK'
<1>1. PlacesTyped /\ CallersTyped /\ QueueTyped /\ StreamsTyped /\ EngineTyped
    BY TypeParts
<1>2. PlacesTyped' /\ EngineTyped'
    BY <1>1, ClientsLeave DEF PlacesTyped, EngineTyped, Open, workerVars, engineVars
<1>3. CallersTyped'
    <2>1. UNCHANGED otherVars
        BY ClientsLeave
    <2>2. client' \in [Requests -> {"new", "checked", "refused", "waiting", "leaving",
                                    "answered", "gone"}]
        BY <1>1 DEF ClientStep, CheckRunning, Submit, Answer, Read, Leave, SendCancel, CallersTyped
    <2>3. QED
        BY <1>1, <2>1, <2>2 DEF CallersTyped, otherVars, observerVars, shutdownVars
<1>4. QueueTyped'
    <2>1. CASE UNCHANGED commands
        BY <1>1, <2>1 DEF QueueTyped
    <2>2. CASE Enqueue(SubmitCommand(r)) \/ Enqueue(CancelCommand(r))
        BY <1>1, <2>2, EnqueueTyped DEF SubmitCommand, CancelCommand, Command
    <2>3. QED
        BY <2>1, <2>2 DEF ClientStep, CheckRunning, Submit, Answer, Read, Leave, SendCancel
<1>5. StreamsTyped'
    <2>1. UNCHANGED <<channels, sent>>
        BY ClientsLeave DEF workerVars
    <2>2. future' \in [Requests -> {"none", "pending"} \cup Done]
        BY <1>1 DEF ClientStep, CheckRunning, Submit, Answer, Read, Leave, SendCancel, StreamsTyped, Done
    <2>3. CASE UNCHANGED <<stream, received>>
        BY <1>1, <2>1, <2>2, <2>3 DEF StreamsTyped
    <2>4. CASE Read(r)
        <3>1. stream[r] \in Seq(Events) /\ stream[r] # <<>> /\ received[r] \in Seq(Events)
            BY <1>1, <2>4 DEF StreamsTyped, Read
        <3>2. /\ Tail(stream[r]) \in Seq(Events) /\ Len(Tail(stream[r])) <= Len(stream[r])
              /\ Append(received[r], Head(stream[r])) \in Seq(Events)
            BY <3>1
        <3>3. QED
            BY <1>1, <2>1, <2>2, <2>4, <3>2, RunnerAssumption DEF StreamsTyped, Read, StreamSize
    <2>5. QED
        BY <2>3, <2>4 DEF ClientStep, CheckRunning, Submit, Answer, Leave, SendCancel
<1>6. QED
    BY <1>2, <1>3, <1>4, <1>5, TypePartsNext

\* The observer and the callers of start and shutdown leave requests alone.
LEMMA CallersLeave ==
    ASSUME ObserverStep \/ ShutdownStep \/ StartStep
    PROVE  /\ UNCHANGED <<future, stream, channels, sent, engineVars, mode, checked, clientVars>>
           /\ UNCHANGED stage \/ stage' = "born"
           /\ UNCHANGED state \/ state' \in {"stopped", "stopping"}
           /\ \/ UNCHANGED commands
              \/ \E kind \in Kinds \cup {"shutdown"} : Enqueue(<<kind, NoRequest>>)
BY Zenon DEF ObserverStep, CheckObservable, Observe, Observed, StopObserving, Kinds,
       ShutdownStep, BeginShutdown, TestAlive, AskShutdown, AwaitAck, JoinWorker, ShutdownCommand,
       StartStep, Start, StartReturns, StartTimesOut, workerVars

LEMMA CallersKeepTypes ==
    ASSUME TypeOK, ObserverStep \/ ShutdownStep \/ StartStep
    PROVE  TypeOK'
<1>1. PlacesTyped /\ CallersTyped /\ QueueTyped /\ StreamsTyped /\ EngineTyped
    BY TypeParts
<1>2. UNCHANGED <<future, stream, channels, sent, engineVars, mode, checked, clientVars>>
    BY CallersLeave
<1>3. PlacesTyped'
    BY <1>1, <1>2, CallersLeave DEF PlacesTyped
<1>4. QueueTyped'
    <2>1. CASE UNCHANGED commands
        BY <1>1, <2>1 DEF QueueTyped
    <2>2. ASSUME NEW kind \in Kinds \cup {"shutdown"}, Enqueue(<<kind, NoRequest>>)
          PROVE  QueueTyped'
        BY <1>1, <2>2, EnqueueTyped DEF Kinds, Command
    <2>3. QED
        BY <2>1, <2>2, CallersLeave
<1>5. StreamsTyped' /\ EngineTyped'
    BY <1>1, <1>2 DEF StreamsTyped, EngineTyped, Open, engineVars, clientVars
<1>6. CallersTyped'
    <2> USE <1>1, <1>2 DEF CallersTyped, Kinds, clientVars, Done
    <2>1. CASE ObserverStep
        BY <2>1 DEF ObserverStep, CheckObservable, Observe, Observed, StopObserving, shutdownVars
    <2>2. CASE ShutdownStep
        BY <2>2 DEF ShutdownStep, BeginShutdown, TestAlive, AskShutdown, AwaitAck, JoinWorker,
                    observerVars
    <2>3. CASE StartStep
        BY <2>3 DEF StartStep, Start, StartReturns, StartTimesOut, observerVars, shutdownVars
    <2>4. QED
        BY <2>1, <2>2, <2>3
<1>7. QED
    BY <1>3, <1>4, <1>5, <1>6, TypePartsNext

\* What the worker leaves to others, and what it takes from the queue.
LEMMA WorkerLeaves ==
    ASSUME WorkerStep
    PROVE  /\ UNCHANGED <<clientVars, starter, observer, shutdown>>
           /\ UNCHANGED commands \/ (commands # <<>> /\ commands' = Tail(commands))
<1> USE DEF otherVars, observerVars, shutdownVars, NextCommand
<1>1. ASSUME NEW r \in Requests, ProcessSubmit(r) \/ ProcessCancel(r) \/ RejectSubmit(r) \/ RejectCancel(r)
      PROVE  /\ UNCHANGED <<clientVars, starter, observer, shutdown>>
             /\ commands # <<>> /\ commands' = Tail(commands)
    BY <1>1 DEF ProcessSubmit, ProcessCancel, RejectSubmit, RejectCancel
<1>2. ASSUME NEW r \in Requests, EngineStep(r) \/ PublishToken(r) \/ CheckFuture(r)
                                 \/ PublishTerminal(r) \/ FailChannel(r)
      PROVE  UNCHANGED <<clientVars, starter, observer, shutdown, commands>>
    BY <1>2 DEF EngineStep, PublishToken, CheckFuture, PublishTerminal, FailChannel
<1>3. ASSUME ProcessMetrics \/ BeginInspection \/ RejectMetrics \/ RejectInspection
             \/ ProcessShutdown \/ RejectShutdown
      PROVE  /\ UNCHANGED <<clientVars, starter, observer, shutdown>>
             /\ commands # <<>> /\ commands' = Tail(commands)
    BY <1>3 DEF ProcessMetrics, BeginInspection, RejectMetrics, RejectInspection,
                ProcessShutdown, RejectShutdown
<1>4. ASSUME WorkerBegins \/ EndInspection \/ FailInspection \/ BeginTick \/ EndTick \/ TickRaises
             \/ EndPublish \/ BeginReject \/ EndReject \/ Close
      PROVE  UNCHANGED <<clientVars, starter, observer, shutdown, commands>>
    BY <1>4 DEF WorkerBegins, EndInspection, FailInspection, BeginTick, EndTick, TickRaises,
                EndPublish, BeginReject, EndReject, Close
<1>5. QED
    BY <1>1, <1>2, <1>3, <1>4 DEF WorkerStep

\* A failure forgets the tick, and nothing else of the engine.
LEMMA RaiseTyped ==
    ASSUME PlacesTyped, EngineTyped, Raise
    PROVE  /\ EngineTyped' /\ mode' = "fail" /\ checked' = NoRequest /\ stage' = "fail"
<1> USE DEF Raise, Failing
<1>1. UNCHANGED <<outcome, tokens>> /\ pending' = {} /\ served' = {} /\ events' = <<>>
    OBVIOUS
<1>2. Open' = Open
    BY <1>1 DEF Open
<1>3. \A S : <<>> \in Seq(S)
    OBVIOUS
<1>4. events' \in Seq(Requests \X {"token", "finished", "cancelled", "failed"} \X Nat)
    BY <1>1, <1>3, Zenon
<1>5. EngineTyped'
    BY <1>1, <1>2, <1>4 DEF EngineTyped
<1>6. QED
    BY <1>5

\* The event to be published, and those after it.
LEMMA HeadTyped ==
    ASSUME EngineTyped, events # <<>>
    PROVE  /\ Head(events)[1] \in Requests /\ Head(events)[3] \in Nat
           /\ Head(events)[2] \in {"token", "finished", "cancelled", "failed"}
           /\ Tail(events) \in Seq(Requests \X {"token", "finished", "cancelled", "failed"} \X Nat)
<1> DEFINE Event == Requests \X {"token", "finished", "cancelled", "failed"} \X Nat
<1>1. events \in Seq(Event)
    BY DEF EngineTyped
<1> HIDE DEF Event
<1>2. Head(events) \in Event /\ Tail(events) \in Seq(Event)
    BY <1>1
<1>3. QED
    BY <1>2, TripleType DEF Event

\* Cancelling open requests keeps the engine typed.
LEMMA CancelTyped ==
    ASSUME EngineTyped, NEW S, CancelInEngine(S), UNCHANGED <<outcome, tokens, served>>,
           \/ UNCHANGED events
           \/ events # <<>> /\ events' = Tail(events)
    PROVE  EngineTyped'
<1>1. events' \in Seq(Requests \X {"token", "finished", "cancelled", "failed"} \X Nat)
    BY HeadTyped DEF EngineTyped
<1>2. Open' = Open
    BY DEF Open
<1>3. QED
    BY <1>1, <1>2, Zenon DEF EngineTyped, CancelInEngine

\* What a step of the engine does to its request, and to no other.
LEMMA EngineMoves ==
    ASSUME TypeOK, NEW r \in Requests, EngineStep(r)
    PROVE  /\ outcome[r] = "open"
           /\ tokens \in [Requests -> Nat] /\ tokens' \in [Requests -> Nat]
           /\ outcome' \in [Requests -> {"absent", "open", "finished", "cancelled", "failed"}]
           /\ outcome'[r] \in {"open", "finished", "cancelled", "failed"}
           /\ tokens'[r] \in {tokens[r], tokens[r] + 1}
           /\ \A s \in Requests \ {r} : outcome'[s] = outcome[s] /\ tokens'[s] = tokens[s]
<1>1. /\ tokens \in [Requests -> Nat]
      /\ outcome \in [Requests -> {"absent", "open", "finished", "cancelled", "failed"}]
    BY DEF TypeOK
<1>2. Engine!Cancel(r) \/ Engine!Token(r) \/ Engine!Fail(r)
    BY DEF EngineStep
<1>3. CASE Engine!Cancel(r)
    BY <1>1, <1>3 DEF Engine!Cancel
<1>4. CASE Engine!Token(r)
    <2>1. outcome[r] = "open" /\ tokens' = [tokens EXCEPT ![r] = tokens[r] + 1]
        BY <1>4 DEF Engine!Token
    <2>2. UNCHANGED outcome \/ outcome' = [outcome EXCEPT ![r] = "finished"]
        BY <1>4 DEF Engine!Token
    <2>3. QED
        BY <1>1, <2>1, <2>2
<1>5. CASE Engine!Fail(r)
    BY <1>1, <1>5 DEF Engine!Fail
<1>6. QED
    BY <1>2, <1>3, <1>4, <1>5

LEMMA EngineStepTyped ==
    ASSUME TypeOK, NEW r \in Requests, EngineStep(r)
    PROVE  EngineTyped'
<1> DEFINE Event == Requests \X {"token", "finished", "cancelled", "failed"} \X Nat
<1> USE DEF EngineStep
<1>1. EngineTyped
    BY TypeParts
<1>2. /\ tokens' \in [Requests -> Nat]
      /\ outcome' \in [Requests -> {"absent", "open", "finished", "cancelled", "failed"}]
      /\ outcome'[r] \in {"open", "finished", "cancelled", "failed"}
      /\ \A s \in Requests \ {r} : outcome'[s] = outcome[s]
    BY EngineMoves
<1>3. Emitted(r) \in Seq(Event)
    <2>1. <<r, "token", tokens'[r]>> \in Event
        BY <1>2
    <2>2. outcome'[r] # "open" => <<r, outcome'[r], tokens'[r]>> \in Event
        BY <1>2
    <2> HIDE DEF Event
    <2>3. (IF tokens'[r] > tokens[r] THEN <<<<r, "token", tokens'[r]>>>> ELSE <<>>) \in Seq(Event)
        BY <2>1
    <2>4. (IF outcome'[r] # "open" THEN <<<<r, outcome'[r], tokens'[r]>>>> ELSE <<>>) \in Seq(Event)
        BY <2>2
    <2>5. QED
        BY <2>3, <2>4 DEF Emitted
<1>4. events' \in Seq(Event)
    <2>1. events \in Seq(Event) /\ events' = events \o Emitted(r)
        BY <1>1 DEF EngineTyped
    <2> HIDE DEF Event, EngineStep
    <2>2. QED
        BY <1>3, <2>1
<1>5. pending' \subseteq Open' /\ served' \subseteq Requests
    BY <1>1, <1>2 DEF EngineTyped, Open
<1>6. QED
    BY <1>2, <1>4, <1>5 DEF EngineTyped

LEMMA WorkerKeepsEngineTypes ==
    ASSUME TypeOK, WorkerStep
    PROVE  EngineTyped'
<1> USE TypeParts
<1>1. CASE UNCHANGED engineVars
    BY <1>1 DEF engineVars, EngineTyped, Open
<1>2. CASE Raise
    BY <1>2, RaiseTyped
<1>3. ASSUME NEW r \in Requests, ProcessSubmit(r)
      PROVE  EngineTyped'
    <2>1. CASE Engine!Submit(r) /\ UNCHANGED <<pending, events, served>>
        BY <2>1 DEF Engine!Submit, EngineTyped, Open
    <2>2. QED
        BY <1>1, <1>2, <1>3, <2>1 DEF ProcessSubmit
<1>4. ASSUME NEW r \in Requests, ProcessCancel(r)
      PROVE  EngineTyped'
    <2>1. CancelInEngine({r}) /\ UNCHANGED <<outcome, tokens, served, events>>
        BY <1>4 DEF ProcessCancel
    <2>2. QED
        BY <2>1, CancelTyped
<1>5. ASSUME NEW r \in Requests, EngineStep(r)
      PROVE  EngineTyped'
    BY <1>5, EngineStepTyped
<1>6. ASSUME NEW r \in Requests, PublishToken(r)
      PROVE  EngineTyped'
    <2>1. /\ UNCHANGED <<outcome, tokens, served>> /\ events # <<>> /\ events' = Tail(events)
          /\ UNCHANGED pending \/ CancelInEngine({r})
        BY <1>6 DEF PublishToken, NextEvent
    <2>2. CancelInEngine({}) \/ CancelInEngine({r})
        BY <2>1 DEF CancelInEngine
    <2>3. QED
        BY <2>1, <2>2, CancelTyped
<1>7. ASSUME NEW r \in Requests, PublishTerminal(r)
      PROVE  EngineTyped'
    <2>1. CASE UNCHANGED <<outcome, tokens, pending, served>> /\ events # <<>> /\ events' = Tail(events)
        <3>1. CancelInEngine({})
            BY <2>1 DEF CancelInEngine
        <3>2. QED
            BY <2>1, <3>1, CancelTyped
    <2>2. QED
        BY <1>2, <1>7, <2>1 DEF PublishTerminal, NextEvent
<1>8. ASSUME NEW r \in Requests, CheckFuture(r) \/ FailChannel(r) \/ RejectSubmit(r) \/ RejectCancel(r)
      PROVE  EngineTyped'
    <2>1. UNCHANGED engineVars \/ Raise
        BY <1>8 DEF CheckFuture, FailChannel, RejectSubmit, RejectCancel, Crash, workerVars
    <2>2. QED
        BY <1>1, <1>2, <2>1
<1>9. CASE ProcessShutdown
    <2> DEFINE S == {r \in channels : future[r] \notin Done}
    <2>1. CancelInEngine(S) /\ UNCHANGED <<outcome, tokens, served, events>>
        BY <1>9 DEF ProcessShutdown
    <2> HIDE DEF S
    <2>2. QED
        BY <2>1, CancelTyped
<1>10. CASE BeginTick
    BY <1>10 DEF BeginTick, EngineTyped, Open
<1>11. ASSUME WorkerBegins \/ ProcessMetrics \/ BeginInspection \/ EndInspection
              \/ RejectMetrics \/ RejectInspection \/ FailInspection
       PROVE  EngineTyped'
    <2>1. UNCHANGED engineVars \/ Raise
        BY <1>11 DEF WorkerBegins, ProcessMetrics, BeginInspection, EndInspection,
                     RejectMetrics, RejectInspection, FailInspection, Crash, workerVars
    <2>2. QED
        BY <1>1, <1>2, <2>1
<1>12. ASSUME EndTick \/ TickRaises \/ EndPublish \/ BeginReject \/ RejectShutdown \/ EndReject \/ Close
       PROVE  EngineTyped'
    <2>1. UNCHANGED engineVars \/ Raise
        BY <1>12 DEF EndTick, TickRaises, EndPublish, BeginReject, RejectShutdown, EndReject,
                     Close, workerVars
    <2>2. QED
        BY <1>1, <1>2, <2>1
<1>13. QED
    BY <1>3, <1>4, <1>5, <1>6, <1>7, <1>8, <1>9, <1>10, <1>11, <1>12 DEF WorkerStep

LEMMA WorkerKeepsPlaces ==
    ASSUME TypeOK, WorkerStep
    PROVE  PlacesTyped'
<1> USE TypeParts DEF PlacesTyped, Raise, Failing, Crash, otherVars, workerVars, NextEvent
<1>1. ASSUME NEW r \in Requests, ProcessSubmit(r) \/ ProcessCancel(r) \/ RejectSubmit(r) \/ RejectCancel(r)
      PROVE  PlacesTyped'
    BY <1>1 DEF ProcessSubmit, ProcessCancel, RejectSubmit, RejectCancel
<1>2. ASSUME NEW r \in Requests, EngineStep(r) \/ PublishToken(r) \/ CheckFuture(r)
                                 \/ PublishTerminal(r) \/ FailChannel(r)
      PROVE  PlacesTyped'
    BY <1>2 DEF EngineStep, PublishToken, CheckFuture, PublishTerminal, FailChannel
<1>3. ASSUME ProcessMetrics \/ BeginInspection \/ RejectMetrics \/ RejectInspection
             \/ ProcessShutdown \/ RejectShutdown
      PROVE  PlacesTyped'
    BY <1>3 DEF ProcessMetrics, BeginInspection, RejectMetrics, RejectInspection,
                ProcessShutdown, RejectShutdown
<1>4. ASSUME WorkerBegins \/ EndInspection \/ FailInspection \/ BeginTick \/ EndTick \/ TickRaises
             \/ EndPublish \/ BeginReject \/ EndReject \/ Close
      PROVE  PlacesTyped'
    BY <1>4 DEF WorkerBegins, EndInspection, FailInspection, BeginTick, EndTick, TickRaises,
                EndPublish, BeginReject, EndReject, Close
<1>5. QED
    BY <1>1, <1>2, <1>3, <1>4 DEF WorkerStep

\* The ways in which the worker changes futures and streams.
LEMMA WorkerKeepsStreamTypes ==
    ASSUME TypeOK, WorkerStep
    PROVE  StreamsTyped'
<1>0. StreamsTyped /\ EngineTyped /\ UNCHANGED received
    BY TypeParts, WorkerLeaves DEF clientVars
<1>1. \A k \in Terminals \cup {"token"} : \A n \in Nat : <<k, n>> \in Events
    BY DEF Events
<1>2. ASSUME NEW r \in Requests, ProcessSubmit(r) \/ RejectSubmit(r)
      PROVE  StreamsTyped'
    <2>1. UNCHANGED sent /\ channels' \subseteq Requests
        BY <1>0, <1>2 DEF ProcessSubmit, RejectSubmit, StreamsTyped
    <2>2. future' \in [Requests -> {"none", "pending"} \cup Done]
        <3>1. UNCHANGED future \/ future' = [future EXCEPT ![r] = "error"]
            BY <1>2 DEF ProcessSubmit, RejectSubmit
        <3>2. QED
            BY <1>0, <3>1 DEF StreamsTyped, Done
    <2>3. UNCHANGED stream \/ stream' = Ended(r, <<"failed", 0>>)
        BY <1>2 DEF ProcessSubmit, RejectSubmit
    <2>4. <<"failed", 0>> \in Events
        BY <1>1 DEF Terminals
    <2>5. QED
        BY <1>0, <2>1, <2>2, <2>3, <2>4, EndedTyped DEF StreamsTyped
<1>3. ASSUME NEW r \in Requests, PublishToken(r)
      PROVE  StreamsTyped'
    <2>1. UNCHANGED <<future, channels>> /\ events # <<>>
        BY <1>3 DEF PublishToken, NextEvent
    <2>2. CASE UNCHANGED <<stream, sent>>
        BY <1>0, <2>1, <2>2 DEF StreamsTyped
    <2>3. CASE /\ ~IsFull(r)
               /\ stream' = [stream EXCEPT ![r] = Append(@, <<"token", Head(events)[3]>>)]
               /\ UNCHANGED sent
        <3> DEFINE e == <<"token", Head(events)[3]>>
        <3>1. e \in Events
            BY <1>0, <1>1, <2>1, HeadTyped
        <3> HIDE DEF e
        <3>2. stream[r] \in Seq(Events) /\ Len(stream[r]) < Buffer
            BY <1>0, <2>3, RunnerAssumption DEF StreamsTyped, IsFull
        <3>3. Append(stream[r], e) \in Seq(Events) /\ Len(Append(stream[r], e)) <= StreamSize
            BY <3>1, <3>2, RunnerAssumption DEF StreamSize
        <3>4. stream' = [stream EXCEPT ![r] = Append(@, e)]
            BY <2>3 DEF e
        <3>5. QED
            BY <1>0, <2>1, <2>3, <3>3, <3>4 DEF StreamsTyped
    <2>4. CASE stream' = Ended(r, <<"backpressure", 0>>) /\ sent' = Ends(r)
        <3>1. <<"backpressure", 0>> \in Events
            BY <1>1 DEF Terminals
        <3>2. QED
            BY <1>0, <2>1, <2>4, <3>1, EndedTyped DEF StreamsTyped
    <2>5. QED
        BY <1>3, <2>2, <2>3, <2>4 DEF PublishToken
<1>4. ASSUME NEW r \in Requests, PublishTerminal(r) \/ FailChannel(r)
      PROVE  StreamsTyped'
    <2>1. UNCHANGED channels /\ future' \in [Requests -> {"none", "pending"} \cup Done]
        BY <1>0, <1>4 DEF PublishTerminal, FailChannel, StreamsTyped, Done
    <2>2. \/ UNCHANGED <<stream, sent>>
          \/ \E e \in Events : stream' = Ended(r, e) /\ sent' = Ends(r)
        <3>1. CASE PublishTerminal(r)
            <4>1. Head(events)[2] \in Terminals /\ Head(events)[3] \in Nat
                BY <1>0, <3>1, HeadTyped DEF PublishTerminal, NextEvent, Terminals
            <4>2. <<Head(events)[2], Head(events)[3]>> \in Events
                BY <1>1, <4>1
            <4>3. QED
                BY <3>1, <4>2 DEF PublishTerminal
        <3>2. CASE FailChannel(r)
            <4>1. <<"failed", 0>> \in Events
                BY <1>1 DEF Terminals
            <4>2. QED
                BY <3>2, <4>1 DEF FailChannel
        <3>3. QED
            BY <1>4, <3>1, <3>2
    <2>3. QED
        BY <1>0, <2>1, <2>2, EndedTyped DEF StreamsTyped
<1>5. CASE UNCHANGED <<future, stream, channels, sent>>
    BY <1>0, <1>5 DEF StreamsTyped
<1>6. ASSUME NEW r \in Requests, ProcessCancel(r) \/ EngineStep(r) \/ CheckFuture(r) \/ RejectCancel(r)
      PROVE  UNCHANGED <<future, stream, channels, sent>>
    BY <1>6 DEF ProcessCancel, EngineStep, CheckFuture, RejectCancel, workerVars
<1>7. ASSUME ProcessMetrics \/ BeginInspection \/ RejectMetrics \/ RejectInspection
             \/ ProcessShutdown \/ RejectShutdown
      PROVE  UNCHANGED <<future, stream, channels, sent>>
    BY <1>7 DEF ProcessMetrics, BeginInspection, RejectMetrics, RejectInspection,
                ProcessShutdown, RejectShutdown, workerVars
<1>8. ASSUME WorkerBegins \/ EndInspection \/ FailInspection \/ BeginTick \/ EndTick \/ TickRaises
             \/ EndPublish \/ BeginReject \/ EndReject \/ Close
      PROVE  UNCHANGED <<future, stream, channels, sent>>
    BY <1>8 DEF WorkerBegins, EndInspection, FailInspection, BeginTick, EndTick, TickRaises,
                EndPublish, BeginReject, EndReject, Close
<1>9. QED
    BY <1>2, <1>3, <1>4, <1>5, <1>6, <1>7, <1>8 DEF WorkerStep

\* The worker keeps the type invariant, so do all, and it holds at first.
LEMMA WorkerKeepsTypes ==
    ASSUME TypeOK, WorkerStep
    PROVE  TypeOK'
<1>1. QueueTyped'
    <2>1. QueueTyped
        BY TypeParts
    <2>2. CASE commands # <<>> /\ commands' = Tail(commands)
        <3>1. commands \in Seq(Command) /\ Len(commands) \in Nat /\ Len(commands) <= QueueSize
            BY <2>1 DEF QueueTyped, Command
        <3>2. commands' \in Seq(Command) /\ Len(commands') = Len(commands) - 1
            BY <2>2, <3>1
        <3>3. QED
            BY <3>1, <3>2, RunnerAssumption DEF QueueTyped, Command
    <2>3. QED
        BY <2>1, <2>2, WorkerLeaves DEF QueueTyped
<1>2. CallersTyped'
    <2>1. CallersTyped /\ UNCHANGED <<client, starter, observer, shutdown>>
        BY TypeParts, WorkerLeaves DEF clientVars
    <2>2. observed' \in {"none", "pending", "running"} \cup Done /\ acked' \in BOOLEAN
        <3> USE <2>1 DEF CallersTyped, otherVars, observerVars, shutdownVars, Done
        <3>1. ASSUME NEW r \in Requests, ProcessSubmit(r) \/ ProcessCancel(r) \/ RejectSubmit(r) \/ RejectCancel(r)
                     \/ EngineStep(r) \/ PublishToken(r) \/ CheckFuture(r) \/ PublishTerminal(r) \/ FailChannel(r)
              PROVE  UNCHANGED <<observed, acked>>
            BY <3>1 DEF ProcessSubmit, ProcessCancel, RejectSubmit, RejectCancel,
                        EngineStep, PublishToken, CheckFuture, PublishTerminal, FailChannel
        <3>2. ASSUME ProcessMetrics \/ BeginInspection \/ RejectMetrics \/ RejectInspection
                     \/ ProcessShutdown \/ RejectShutdown
              PROVE  observed' \in {"none", "pending", "running"} \cup Done /\ acked' \in BOOLEAN
            BY <3>2 DEF ProcessMetrics, BeginInspection, RejectMetrics, RejectInspection,
                        ProcessShutdown, RejectShutdown
        <3>3. ASSUME WorkerBegins \/ EndInspection \/ FailInspection \/ BeginTick \/ EndTick \/ TickRaises
                     \/ EndPublish \/ BeginReject \/ EndReject \/ Close
              PROVE  observed' \in {"none", "pending", "running"} \cup Done /\ acked' \in BOOLEAN
            BY <3>3 DEF WorkerBegins, EndInspection, FailInspection, BeginTick, EndTick, TickRaises,
                        EndPublish, BeginReject, EndReject, Acknowledged, Close
        <3>4. QED
            BY <3>1, <3>2, <3>3 DEF WorkerStep
    <2>3. QED
        BY <2>1, <2>2 DEF CallersTyped
<1>3. QED
    BY <1>1, <1>2, WorkerKeepsEngineTypes, WorkerKeepsPlaces, WorkerKeepsStreamTypes, TypePartsNext

LEMMA TypesKept == TypeOK /\ [Next]_vars => TypeOK'
<1> SUFFICES ASSUME TypeOK, [Next]_vars PROVE TypeOK'
    OBVIOUS
<1>1. CASE UNCHANGED vars
    <2>1. PlacesTyped' /\ QueueTyped'
        BY <1>1, TypeParts DEF PlacesTyped, QueueTyped, vars, workerVars
    <2>3. CallersTyped'
        <3>1. UNCHANGED <<client, starter, observer, observed, shutdown, acked>>
            BY <1>1 DEF vars, clientVars, otherVars, observerVars, shutdownVars
        <3>2. QED
            BY <3>1, TypeParts DEF CallersTyped
    <2>2. StreamsTyped' /\ EngineTyped'
        BY <1>1, TypeParts DEF StreamsTyped, EngineTyped, Open,
           vars, workerVars, engineVars, clientVars
    <2>4. QED
        BY <2>1, <2>2, <2>3, TypePartsNext
<1>2. QED
    BY <1>1, ClientsTyped, CallersKeepTypes, WorkerKeepsTypes DEF Next

LEMMA FreshTyped ==
    ASSUME Fresh, stage \in {"unborn", "drain"}, state \in {"new", "running"},
           starter \in {"none", "returned"}, observer \in {"new", "gone"},
           client \in [Requests -> {"new", "gone"}]
    PROVE  TypeOK
<1> USE RunnerAssumption DEF Fresh
<1>1. PlacesTyped /\ CallersTyped
    BY DEF PlacesTyped, CallersTyped
<1>2. \A S : <<>> \in Seq(S)
    OBVIOUS
<1>3. QueueTyped
    BY <1>2 DEF QueueTyped
<1>4. StreamsTyped
    BY <1>2 DEF StreamsTyped, StreamSize
<1>5. EngineTyped
    <2>1. events \in Seq(Requests \X {"token", "finished", "cancelled", "failed"} \X Nat)
        BY <1>2, Zenon
    <2>2. QED
        BY <2>1 DEF EngineTyped, Engine!Init
<1>6. QED
    BY <1>1, <1>3, <1>4, <1>5, TypeParts

-----------------------------------------------------------------------------
\* The inductive invariant, part by part.

\* The submissions in the queue are fresh, and there once.
SubmissionsFresh ==
    /\ \A i \in DOMAIN commands : commands[i][1] = "submit" =>
          LET r == commands[i][2] IN
          /\ r \in Requests \ channels /\ Stream(r) = <<>>
          /\ client[r] \notin {"new", "checked"}
    /\ \A i, j \in DOMAIN commands :
          commands[i][1] = "submit" /\ commands[j] = commands[i] => i = j
    /\ \A r \in Requests :
          client[r] \in {"new", "checked"} => r \notin channels /\ Stream(r) = <<>>

\* The channels are those of the requests that the engine has accepted.
ChannelsTrue ==
    /\ channels = {r \in Requests : outcome[r] # "absent"}
    /\ \A r \in Requests \ channels : tokens[r] = 0
    /\ sent \subseteq channels
    /\ checked # NoRequest => checked \in channels

\* Where the worker may be while it serves or fails.
StagesTrue ==
    /\ stage \in {"unborn", "born", "drain", "inspect", "tick", "publish", "stop"} => mode # "fail"
    /\ stage \in {"fail", "crashed"} => mode = "fail"
    /\ stage \notin {"tick", "publish"} => events = <<>>
    /\ starter = "none" => stage = "unborn"

\* Whether a token, or the end, of r is still to be published.
HasToken(r) == \E i \in DOMAIN events : events[i][1] = r /\ events[i][2] = "token"
HasEnd(r) == \E i \in DOMAIN events : events[i][1] = r /\ events[i][2] # "token"

\* The events of a tick tell what the requests have come to: for each at most
\* a token and an end, in this order.
EventsTrue ==
    /\ \A i \in DOMAIN events :
          /\ events[i][1] \in channels /\ events[i][3] = tokens[events[i][1]]
          /\ events[i][2] # "token" => outcome[events[i][1]] = events[i][2]
          /\ stage = "tick" => events[i][1] \in served
    /\ \A i, j \in DOMAIN events : i < j /\ events[i][1] = events[j][1] =>
          events[i][2] = "token" /\ events[j][2] # "token"

\* s is a stream that lacks no token.
GapFree(s) == \A i \in DOMAIN s : s[i] = <<"token", i>>

\* s is a stream of r that has ended.
Complete(r, s) ==
    /\ s # <<>>
    /\ \A i \in 1..(Len(s) - 1) : s[i] = <<"token", i>>
    /\ Len(s) - 1 <= tokens[r]
    /\ s[Len(s)][1] \in Terminals
    /\ s[Len(s)][1] = "finished" => outcome[r] = "finished" /\ s[Len(s)][2] = Len(s) - 1

\* While the worker has not failed, an open stream lacks only the token that is
\* still to be published.
StreamsTrue ==
    \A r \in Streaming :
        /\ r \in sent => Complete(r, Stream(r))
        /\ r \in channels \ sent =>
              /\ Len(stream[r]) <= Buffer
              /\ GapFree(Stream(r)) /\ Len(Stream(r)) <= tokens[r]
              /\ mode # "fail" =>
                    Len(Stream(r)) = IF HasToken(r) THEN tokens[r] - 1 ELSE tokens[r]
        /\ r \notin channels => Stream(r) = <<>> \/ Complete(r, Stream(r))

\* Everybody who waits for r has been answered.
Closed(r) == future[r] \in Done /\ (r \in Streaming => r \in sent)

\* A request that has ended is closed, or its last event is still to come.
ClosedInTime ==
    /\ mode # "fail" =>
          \A r \in channels : outcome[r] = "open" \/ HasEnd(r) \/ Closed(r)
    /\ stage \in {"reject", "reject inspection", "close", "dead"} =>
          \A r \in channels : Closed(r)

\* The inductive invariant.
IInv == /\ TypeOK /\ SubmissionsFresh /\ ChannelsTrue /\ StagesTrue
        /\ EventsTrue /\ StreamsTrue /\ ClosedInTime

\* What a stream's reader has read and will read.
LEMMA StreamTyped ==
    ASSUME TypeOK, NEW r \in Requests
    PROVE  /\ stream[r] \in Seq(Events) /\ received[r] \in Seq(Events)
           /\ Stream(r) \in Seq(Events)
           /\ Len(Stream(r)) = Len(received[r]) + Len(stream[r])
           /\ Stream(r) = <<>> => stream[r] = <<>> /\ received[r] = <<>>
<1>1. stream[r] \in Seq(Events) /\ received[r] \in Seq(Events)
    BY DEF TypeOK
<1>2. \A s, t \in Seq(Events) : /\ s \o t \in Seq(Events) /\ Len(s \o t) = Len(s) + Len(t)
                                /\ s \o t = <<>> => s = <<>> /\ t = <<>>
    OBVIOUS
<1>3. QED
    BY <1>1, <1>2 DEF Stream

\* A step that leaves the streams, or that moves an event to their readers.
LEMMA QuietStreams ==
    ASSUME UNCHANGED <<stream, received>>
    PROVE  \A r : Stream(r)' = Stream(r)
BY DEF Stream

\* A step that leaves the worker alone.
Apart == /\ UNCHANGED <<channels, sent, outcome, tokens, events, served, mode, checked>>
         /\ \A r \in Requests : /\ Stream(r)' = Stream(r)
                                /\ Len(stream[r]') <= Len(stream[r])
                                /\ r \in channels /\ future[r] \in Done => future'[r] \in Done

\* Such a step keeps the worker's part of the invariant.
LEMMA ApartKeeps ==
    ASSUME IInv, TypeOK', Apart,
           UNCHANGED stage \/ (stage' = "born" /\ stage = "unborn")
    PROVE  ChannelsTrue' /\ EventsTrue' /\ StreamsTrue' /\ ClosedInTime'
<1> USE DEF Apart, IInv
<1>1. ChannelsTrue'
    BY DEF ChannelsTrue
<1>2. EventsTrue'
    BY DEF EventsTrue
<1>3. \A r : HasToken(r)' = HasToken(r) /\ HasEnd(r)' = HasEnd(r)
    BY DEF HasToken, HasEnd
<1>4. StreamsTrue'
    <2> SUFFICES ASSUME NEW r \in Streaming
                 PROVE  /\ r \in sent => Complete(r, Stream(r))'
                        /\ r \in channels \ sent =>
                              /\ Len(stream[r]') <= Buffer
                              /\ GapFree(Stream(r)') /\ Len(Stream(r)') <= tokens[r]
                              /\ mode # "fail" =>
                                    Len(Stream(r)') = IF HasToken(r) THEN tokens[r] - 1 ELSE tokens[r]
                        /\ r \notin channels => Stream(r)' = <<>> \/ Complete(r, Stream(r))'
        BY <1>3 DEF StreamsTrue
    <2>1. r \in Requests /\ Stream(r)' = Stream(r) /\ Len(stream[r]') <= Len(stream[r])
        BY RunnerAssumption
    <2>2. Complete(r, Stream(r))' <=> Complete(r, Stream(r))
        BY <2>1 DEF Complete
    <2>3. stream[r] \in Seq(Events) /\ stream[r]' \in Seq(Events) /\ Buffer \in Nat
        BY <2>1, RunnerAssumption DEF TypeOK
    <2>4. QED
        BY <2>1, <2>2, <2>3 DEF StreamsTrue
<1>5. ClosedInTime'
    BY <1>3, RunnerAssumption DEF ClosedInTime, Closed, ChannelsTrue
<1>6. QED
    BY <1>1, <1>2, <1>4, <1>5

\* A client's step is one.
LEMMA ClientsApart ==
    ASSUME IInv, NEW r \in Requests, ClientStep(r)
    PROVE  Apart /\ UNCHANGED <<stage, starter>>
<1>1. UNCHANGED <<state, workerVars, otherVars>>
    BY ClientsLeave
<1>2. \A s \in Requests : s \in channels /\ future[s] \in Done => future'[s] \in Done
    <2>1. future \in [Requests -> {"none", "pending"} \cup Done]
        BY DEF IInv, TypeOK
    <2>2. CASE Submit(r)
        <3>1. r \notin channels
            BY <2>2 DEF Submit, IInv, SubmissionsFresh
        <3>2. QED
            BY <2>1, <2>2, <3>1 DEF Submit
    <2>3. CASE Leave(r)
        BY <2>1, <2>3 DEF Leave, Done
    <2>4. QED
        BY <2>1, <2>2, <2>3 DEF ClientStep, CheckRunning, Answer, Read, SendCancel
<1>3. \A s \in Requests : Stream(s)' = Stream(s) /\ Len(stream[s]') <= Len(stream[s])
    <2> SUFFICES ASSUME NEW s \in Requests
                 PROVE  Stream(s)' = Stream(s) /\ Len(stream[s]') <= Len(stream[s])
        OBVIOUS
    <2>1. stream[s] \in Seq(Events) /\ received[s] \in Seq(Events)
        BY StreamTyped DEF IInv
    <2>2. CASE UNCHANGED <<stream[s], received[s]>>
        BY <2>1, <2>2 DEF Stream
    <2>3. CASE Read(r) /\ s = r
        <3>1. /\ stream[s] # <<>> /\ stream'[s] = Tail(stream[s])
              /\ received'[s] = Append(received[s], Head(stream[s]))
            BY <2>3 DEF Read, IInv, TypeOK
        <3>2. Append(received[s], Head(stream[s])) \o Tail(stream[s]) = received[s] \o stream[s]
            BY <2>1, <3>1, ReadMoves
        <3>3. Len(Tail(stream[s])) <= Len(stream[s])
            BY <2>1, <3>1
        <3>4. QED
            BY <3>1, <3>2, <3>3 DEF Stream
    <2>4. UNCHANGED <<stream[s], received[s]>> \/ (Read(r) /\ s = r)
        BY DEF ClientStep, CheckRunning, Submit, Answer, Read, Leave, SendCancel, IInv, TypeOK
    <2>5. QED
        BY <2>2, <2>3, <2>4
<1>4. QED
    BY <1>1, <1>2, <1>3 DEF Apart, workerVars, engineVars, otherVars

\* Enqueueing anything but a submission.
LEMMA FreshAfterEnqueue ==
    ASSUME IInv, UNCHANGED <<channels, client>>, \A r \in Requests : Stream(r)' = Stream(r),
           NEW c \in Command, c[1] # "submit", UNCHANGED commands \/ Enqueue(c)
    PROVE  SubmissionsFresh'
<1>1. commands \in Seq(Command)
    BY DEF IInv, TypeOK, Command
<1>2. \A i \in DOMAIN commands' : commands'[i][1] = "submit" =>
         i \in DOMAIN commands /\ commands'[i] = commands[i]
    BY <1>1 DEF Enqueue
<1>3. QED
    BY <1>2 DEF SubmissionsFresh, IInv

\* Clients keep the invariant: only the first submission of a request is queued.
LEMMA ClientsKeep ==
    ASSUME IInv, NEW r \in Requests, ClientStep(r)
    PROVE  IInv'
<1>1. TypeOK /\ TypeOK' /\ Apart /\ UNCHANGED <<stage, starter>>
    BY ClientsTyped, ClientsApart DEF IInv
<1>2. ChannelsTrue' /\ EventsTrue' /\ StreamsTrue' /\ ClosedInTime'
    BY <1>1, ApartKeeps
<1>3. StagesTrue'
    BY <1>1 DEF StagesTrue, IInv, Apart
<1>4. SubmissionsFresh'
    <2> USE DEF IInv
    <2>1. commands \in Seq(Command) /\ client \in [Requests -> {"new", "checked", "refused",
                                                    "waiting", "leaving", "answered", "gone"}]
        BY DEF TypeOK, Command
    <2>2. UNCHANGED channels /\ \A s \in Requests : Stream(s)' = Stream(s)
        BY <1>1 DEF Apart
    <2>3. CASE Submit(r) /\ Enqueue(SubmitCommand(r))
        <3>1. client[r] = "checked" /\ client' = [client EXCEPT ![r] = "waiting"]
            BY <2>1, <2>3 DEF Submit, Enqueue
        <3>2. commands' = Append(commands, <<"submit", r>>)
            BY <2>3 DEF Enqueue, SubmitCommand
        <3>3. \A i \in DOMAIN commands : commands[i] # <<"submit", r>>
            BY <3>1 DEF SubmissionsFresh
        <3>4. /\ Len(commands') = Len(commands) + 1 /\ Len(commands) \in Nat
              /\ DOMAIN commands = 1..Len(commands) /\ DOMAIN commands' = 1..(Len(commands) + 1)
              /\ commands'[Len(commands) + 1] = <<"submit", r>>
              /\ \A i \in DOMAIN commands : commands'[i] = commands[i]
            BY <2>1, <3>2
        <3>5. QED
            BY <2>1, <2>2, <3>1, <3>3, <3>4 DEF SubmissionsFresh
    <2>4. CASE SendCancel(r) /\ Enqueue(CancelCommand(r))
        <3>1. commands' = Append(commands, <<"cancel", r>>) /\ client' = [client EXCEPT ![r] = "gone"]
            BY <2>4 DEF Enqueue, CancelCommand, SendCancel
        <3>2. \A i \in DOMAIN commands' : commands'[i][1] = "submit" =>
                 i \in DOMAIN commands /\ commands'[i] = commands[i]
            BY <2>1, <3>1
        <3>3. QED
            BY <2>1, <2>2, <3>1, <3>2 DEF SubmissionsFresh
    <2>5. CASE UNCHANGED commands
        <3>1. \A s \in Requests : client'[s] \in {"new", "checked"} => client[s] \in {"new", "checked"}
            BY <2>1, <2>5 DEF ClientStep, CheckRunning, Submit, Answer, Read, Leave, SendCancel
        <3>2. \A i \in DOMAIN commands : commands[i][1] = "submit" => commands[i][2] \in Requests
            BY DEF SubmissionsFresh
        <3>3. QED
            BY <2>1, <2>2, <2>5, <3>1, <3>2 DEF SubmissionsFresh
    <2>6. QED
        BY <2>3, <2>4, <2>5 DEF ClientStep, CheckRunning, Submit, Answer, Read, Leave, SendCancel
<1>5. QED
    BY <1>1, <1>2, <1>3, <1>4 DEF IInv

\* So do the observer and the callers of start and shutdown.
LEMMA CallersKeep ==
    ASSUME IInv, ObserverStep \/ ShutdownStep \/ StartStep
    PROVE  IInv'
<1>1. /\ TypeOK' /\ UNCHANGED <<future, stream, channels, sent, engineVars, mode, checked, clientVars>>
      /\ \/ UNCHANGED commands
         \/ \E kind \in Kinds \cup {"shutdown"} : Enqueue(<<kind, NoRequest>>)
    BY CallersKeepTypes, CallersLeave DEF IInv
<1>2. \A r : Stream(r)' = Stream(r)
    BY <1>1, QuietStreams DEF clientVars
<1>3. Apart
    BY <1>1, <1>2, StreamTyped DEF Apart, engineVars, IInv
<1>4. /\ UNCHANGED stage \/ (stage' = "born" /\ stage = "unborn")
      /\ starter' = "none" => starter = "none" /\ UNCHANGED stage
    BY DEF ObserverStep, CheckObservable, Observe, Observed, StopObserving, workerVars,
           ShutdownStep, BeginShutdown, TestAlive, AskShutdown, AwaitAck, JoinWorker,
           StartStep, Start, StartReturns, StartTimesOut, IInv, StagesTrue
<1>5. ChannelsTrue' /\ EventsTrue' /\ StreamsTrue' /\ ClosedInTime'
    BY <1>1, <1>3, <1>4, ApartKeeps
<1>6. StagesTrue'
    BY <1>3, <1>4 DEF StagesTrue, IInv, Apart
<1>7. SubmissionsFresh'
    <2>1. \A kind \in Kinds \cup {"shutdown"} :
             <<kind, NoRequest>> \in Command /\ <<kind, NoRequest>>[1] # "submit"
        BY DEF Kinds, Command
    <2>2. UNCHANGED <<channels, client>>
        BY <1>1 DEF clientVars
    <2>3. QED
        BY <1>1, <1>2, <2>1, <2>2, FreshAfterEnqueue
<1>8. QED
    BY <1>1, <1>5, <1>6, <1>7 DEF IInv

-----------------------------------------------------------------------------
\* The event at the head is of a request with a channel.
LEMMA HeadHasChannel ==
    ASSUME IInv, NEW r, NEW kinds, NextEvent(r, kinds)
    PROVE  /\ r \in channels /\ r \in Requests /\ Head(events)[1] = r /\ Head(events)[2] \in kinds
           /\ events[1] = Head(events) /\ 1 \in DOMAIN events
           /\ Head(events)[3] = tokens[r] /\ stage = "publish" /\ mode # "fail"
           /\ Head(events)[2] # "token" => outcome[r] = Head(events)[2]
<1>1. events # <<>> /\ Head(events)[1] = r /\ Head(events)[2] \in kinds /\ stage = "publish"
    BY DEF NextEvent
<1>2. events \in Seq(Requests \X {"token", "finished", "cancelled", "failed"} \X Nat)
    BY DEF IInv, TypeOK
<1>3. events[1] = Head(events) /\ 1 \in DOMAIN events
    BY <1>1, <1>2
<1>4. /\ r \in channels /\ r \in Requests /\ Head(events)[3] = tokens[r]
      /\ Head(events)[2] # "token" => outcome[r] = Head(events)[2]
    BY <1>1, <1>3 DEF IInv, EventsTrue, ChannelsTrue
<1>5. QED
    BY <1>1, <1>3, <1>4 DEF IInv, StagesTrue

\* What the worker does to a request without a channel it does to one whose
\* submission it takes from the queue.
LEMMA WorkerKeepsFresh ==
    ASSUME IInv, WorkerStep
    PROVE  SubmissionsFresh'
<1> USE DEF IInv
<1>1. /\ UNCHANGED <<client, received>> /\ commands \in Seq(Command)
      /\ UNCHANGED commands \/ (commands # <<>> /\ commands' = Tail(commands))
    BY WorkerLeaves DEF clientVars, TypeOK, Command
<1>2. ASSUME commands # <<>>, commands' = Tail(commands)
      PROVE  /\ 1 \in DOMAIN commands /\ commands[1] = Head(commands)
             /\ \A i \in DOMAIN commands' : /\ i + 1 \in DOMAIN commands /\ i + 1 # 1
                                            /\ commands'[i] = commands[i + 1]
             /\ \A i, j \in DOMAIN commands' : i + 1 = j + 1 => i = j
    BY <1>1, <1>2
<1>3. ASSUME NEW r \in Requests, ProcessSubmit(r) \/ RejectSubmit(r)
      PROVE  SubmissionsFresh'
    <2>1. commands # <<>> /\ commands' = Tail(commands) /\ Head(commands) = <<"submit", r>>
        BY <1>3 DEF ProcessSubmit, RejectSubmit, NextCommand, SubmitCommand
    <2>2. channels' \subseteq channels \cup {r} /\ \A s \in Requests \ {r} : stream'[s] = stream[s]
        BY <1>3 DEF ProcessSubmit, RejectSubmit, Ended, TypeOK
    <2>3. \A s \in Requests \ {r} : Stream(s)' = Stream(s)
        BY <1>1, <2>2 DEF Stream
    <2>4. client[r] \notin {"new", "checked"}
        BY <1>2, <2>1 DEF SubmissionsFresh
    <2>5. \A i \in DOMAIN commands' : commands'[i][1] = "submit" => commands'[i][2] # r
        <3> SUFFICES ASSUME NEW i \in DOMAIN commands', commands'[i][1] = "submit", commands'[i][2] = r
                     PROVE  FALSE
            OBVIOUS
        <3>1. i + 1 \in DOMAIN commands /\ i + 1 # 1 /\ commands[i + 1][1] = "submit"
              /\ commands[i + 1][2] = r /\ commands[i + 1] \in Command
            BY <1>1, <1>2, <2>1
        <3>2. commands[i + 1] = <<"submit", r>>
            BY <3>1 DEF Command
        <3>3. QED
            BY <1>2, <2>1, <3>1, <3>2 DEF SubmissionsFresh
    <2>6. QED
        BY <1>1, <1>2, <2>1, <2>2, <2>3, <2>4, <2>5 DEF SubmissionsFresh
<1>4. ASSUME UNCHANGED channels, \A s \in Requests \ channels : stream'[s] = stream[s]
      PROVE  SubmissionsFresh'
    <2>1. \A s \in Requests \ channels : Stream(s)' = Stream(s)
        BY <1>1, <1>4 DEF Stream
    <2>2. QED
        BY <1>1, <1>2, <1>4, <2>1 DEF SubmissionsFresh
<1>5. ASSUME NEW r \in Requests, PublishToken(r) \/ PublishTerminal(r) \/ FailChannel(r)
      PROVE  UNCHANGED channels /\ \A s \in Requests \ channels : stream'[s] = stream[s]
    <2>1. r \in channels
        <3>1. CASE FailChannel(r)
            BY <3>1 DEF FailChannel
        <3>2. CASE PublishToken(r)
            BY <3>2, HeadHasChannel DEF PublishToken
        <3>3. CASE PublishTerminal(r)
            BY <3>3, HeadHasChannel DEF PublishTerminal
        <3>4. QED
            BY <1>5, <3>1, <3>2, <3>3
    <2>2. UNCHANGED channels /\ \A s \in Requests \ {r} : stream'[s] = stream[s]
        BY <1>5 DEF PublishToken, PublishTerminal, FailChannel, Ended, TypeOK
    <2>3. QED
        BY <2>1, <2>2
<1>6. ASSUME NEW r \in Requests, ProcessCancel(r) \/ EngineStep(r) \/ CheckFuture(r) \/ RejectCancel(r)
      PROVE  UNCHANGED <<stream, channels>>
    BY <1>6 DEF ProcessCancel, EngineStep, CheckFuture, RejectCancel, workerVars
<1>7. ASSUME ProcessMetrics \/ BeginInspection \/ RejectMetrics \/ RejectInspection
             \/ ProcessShutdown \/ RejectShutdown
      PROVE  UNCHANGED <<stream, channels>>
    BY <1>7 DEF ProcessMetrics, BeginInspection, RejectMetrics, RejectInspection,
                ProcessShutdown, RejectShutdown, workerVars
<1>8. ASSUME WorkerBegins \/ EndInspection \/ FailInspection \/ BeginTick \/ EndTick \/ TickRaises
             \/ EndPublish \/ BeginReject \/ EndReject \/ Close
      PROVE  UNCHANGED <<stream, channels>>
    BY <1>8 DEF WorkerBegins, EndInspection, FailInspection, BeginTick, EndTick, TickRaises,
                EndPublish, BeginReject, EndReject, Close
<1>9. CASE UNCHANGED <<stream, channels>>
    BY <1>4, <1>9
<1>10. QED
    BY <1>3, <1>4, <1>5, <1>6, <1>7, <1>8, <1>9 DEF WorkerStep

\* A step of the worker that moves it, and leaves requests and events alone.
LEMMA CalmKeeps ==
    ASSUME IInv, StagesTrue', mode = "fail" => mode' = "fail",
           UNCHANGED <<stream, received, channels, sent, outcome, tokens, events>>,
           \A r \in channels : future[r] \in Done => future'[r] \in Done,
           checked' # NoRequest => checked' \in channels,
           stage' = "tick" => events = <<>> \/ (stage = "tick" /\ UNCHANGED served),
           \/ stage' \notin {"reject", "reject inspection", "close", "dead"}
           \/ stage \in {"reject", "reject inspection", "close", "dead"}
           \/ \A r \in channels : Closed(r)
    PROVE  ChannelsTrue' /\ StagesTrue' /\ EventsTrue' /\ StreamsTrue' /\ ClosedInTime'
<1> USE DEF IInv
<1>1. \A r : Stream(r)' = Stream(r)
    BY QuietStreams
<1>2. \A r : HasToken(r)' = HasToken(r) /\ HasEnd(r)' = HasEnd(r)
    BY DEF HasToken, HasEnd
<1>3. ChannelsTrue'
    BY DEF ChannelsTrue
<1>4. EventsTrue'
    <2>1. stage' = "tick" => \A i \in DOMAIN events : stage = "tick" /\ UNCHANGED served
        OBVIOUS
    <2>2. QED
        BY <2>1 DEF EventsTrue
<1>5. StreamsTrue'
    BY <1>1, <1>2 DEF StreamsTrue, Complete, GapFree
<1>6. \A r \in channels : Closed(r) => Closed(r)'
    BY DEF Closed
<1>7. ClosedInTime'
    BY <1>2, <1>6 DEF ClosedInTime
<1>8. QED
    BY <1>3, <1>4, <1>5, <1>7

\* The worker fails: what was not yet published is lost.
LEMMA RaiseKeeps ==
    ASSUME IInv, Raise, UNCHANGED <<stream, received, channels, sent, starter>>,
           stage \notin {"unborn", "born"}
    PROVE  ChannelsTrue' /\ StagesTrue' /\ EventsTrue' /\ StreamsTrue' /\ ClosedInTime'
<1> USE DEF IInv, Raise, Failing
<1>1. \A r : Stream(r)' = Stream(r)
    BY QuietStreams
<1>2. ChannelsTrue'
    BY DEF ChannelsTrue
<1>3. StagesTrue'
    BY DEF StagesTrue
<1>4. EventsTrue'
    BY DEF EventsTrue
<1>5. StreamsTrue'
    BY <1>1 DEF StreamsTrue, Complete, GapFree
<1>6. ClosedInTime'
    BY DEF ClosedInTime
<1>7. QED
    BY <1>2, <1>3, <1>4, <1>5, <1>6

\* The failure handler itself fails: everything stays as it stands.
LEMMA CrashKeeps ==
    ASSUME IInv, Crash, UNCHANGED <<stream, received, future, channels, sent, starter>>
    PROVE  ChannelsTrue' /\ StagesTrue' /\ EventsTrue' /\ StreamsTrue' /\ ClosedInTime'
<1>1. /\ mode' = "fail" /\ stage' = "crashed" /\ events = <<>>
      /\ UNCHANGED <<outcome, tokens, events, checked>>
    BY DEF Crash, engineVars, IInv, StagesTrue
<1>2. StagesTrue'
    BY <1>1 DEF StagesTrue, IInv, Crash
<1>3. QED
    BY <1>1, <1>2, CalmKeeps DEF IInv, ChannelsTrue, Crash

\* The worker's steps between commands, ticks and events.
LEMMA MovesKeep ==
    ASSUME IInv,
           \/ WorkerBegins \/ ProcessMetrics \/ BeginInspection \/ EndInspection
           \/ RejectMetrics \/ RejectInspection \/ ProcessShutdown \/ RejectShutdown
           \/ BeginTick \/ EndTick \/ EndPublish \/ EndReject \/ Close
    PROVE  ChannelsTrue' /\ StagesTrue' /\ EventsTrue' /\ StreamsTrue' /\ ClosedInTime'
<1>1. UNCHANGED <<stream, received, future, channels, sent, outcome, tokens, events, checked, starter>>
    BY DEF WorkerBegins, ProcessMetrics, BeginInspection, EndInspection, RejectMetrics,
           RejectInspection, ProcessShutdown, RejectShutdown, BeginTick, EndTick, EndPublish,
           EndReject, Close, workerVars, engineVars, clientVars, otherVars
<1>2. /\ UNCHANGED mode \/ (stage' = "stop" /\ mode' = "stop")
      /\ \/ UNCHANGED <<stage, served>>
         \/ stage = "born" /\ stage' = "drain"
         \/ stage = "drain" /\ stage' \in {"inspect", "stop", "tick"}
         \/ stage = "stop" /\ stage' = "tick"
         \/ stage = "inspect" /\ stage' = "drain"
         \/ stage = "tick" /\ stage' = "publish"
         \/ stage = "publish" /\ stage' \in {"drain", "stop"} /\ events = <<>>
         \/ stage = "reject" /\ stage' \in {"reject", "reject inspection", "close"}
         \/ stage = "close" /\ stage' = "dead"
    BY DEF WorkerBegins, ProcessMetrics, BeginInspection, EndInspection, RejectMetrics,
           RejectInspection, ProcessShutdown, RejectShutdown, BeginTick, EndTick, EndPublish,
           EndReject, Close, workerVars, engineVars
<1>3. StagesTrue'
    BY <1>1, <1>2 DEF IInv, StagesTrue
<1>4. checked' # NoRequest => checked' \in channels
    BY <1>1 DEF IInv, ChannelsTrue
<1>5. stage' = "tick" => events = <<>> \/ (stage = "tick" /\ UNCHANGED served)
    BY <1>2 DEF IInv, StagesTrue
<1>6. mode = "fail" => mode' = "fail"
    BY <1>2 DEF IInv, StagesTrue
<1>7. \/ stage' \notin {"reject", "reject inspection", "close", "dead"}
      \/ stage \in {"reject", "reject inspection", "close", "dead"}
    BY <1>2
<1>8. QED
    BY <1>1, <1>3, <1>4, <1>5, <1>6, <1>7, CalmKeeps

-----------------------------------------------------------------------------
\* A last event follows what the stream held: its place was kept free.
LEMMA EndedStream ==
    ASSUME TypeOK, NEW r \in Requests, NEW e \in Events, Len(stream[r]) <= Buffer,
           stream' = Ended(r, e), UNCHANGED received
    PROVE  /\ \A s \in Requests \ {r} : Stream(s)' = Stream(s) /\ stream'[s] = stream[s]
           /\ r \in Streaming \ sent => Stream(r)' = Append(Stream(r), e)
           /\ r \notin Streaming \ sent => Stream(r)' = Stream(r)
<1>1. stream \in [Requests -> Seq(Events)] /\ received[r] \in Seq(Events) /\ stream[r] \in Seq(Events)
    BY StreamTyped DEF TypeOK
<1>2. Len(stream[r]) <= StreamSize
    BY <1>1, RunnerAssumption DEF StreamSize
<1>3. WithTerminal(stream[r], e) = Append(stream[r], e)
    BY <1>1, <1>2, TerminalFits
<1>4. \A s \in Requests \ {r} : stream'[s] = stream[s]
    BY <1>1 DEF Ended
<1>5. received[r] \o Append(stream[r], e) = Append(received[r] \o stream[r], e)
    <2>1. \A s, t \in Seq(Events) : \A x \in Events : s \o Append(t, x) = Append(s \o t, x)
        BY AppendMoves
    <2>2. QED
        BY <1>1, <2>1, Zenon
<1>6. CASE r \in Streaming \ sent
    <2>1. stream'[r] = Append(stream[r], e)
        BY <1>1, <1>3, <1>6 DEF Ended
    <2>2. QED
        BY <1>4, <1>5, <1>6, <2>1 DEF Stream
<1>7. CASE r \notin Streaming \ sent
    BY <1>7 DEF Ended, Stream
<1>8. QED
    BY <1>6, <1>7

\* A gap-free stream and a last event are a complete stream.
LEMMA GapFreeEnds ==
    ASSUME NEW r \in Requests, NEW s \in Seq(Events), NEW e \in Events, GapFree(s),
           tokens[r] \in Nat, Len(s) <= tokens[r], e[1] \in Terminals,
           e[1] = "finished" => outcome[r] = "finished" /\ e[2] = Len(s)
    PROVE  Complete(r, Append(s, e))
<1> DEFINE t == Append(s, e)
<1>1. /\ t \in Seq(Events) /\ Len(t) = Len(s) + 1 /\ t # <<>> /\ t[Len(t)] = e
      /\ Len(s) \in Nat /\ \A i \in 1..(Len(t) - 1) : i \in DOMAIN s /\ t[i] = s[i]
    OBVIOUS
<1> HIDE DEF t
<1>2. Complete(r, t)
    BY <1>1 DEF Complete, GapFree
<1>3. QED
    BY <1>2 DEF t

\* A refusal: the request has no channel, and its stream, if it has one, is
\* the refusal.
LEMMA RefusalKeeps ==
    ASSUME IInv, NEW r \in Requests \ channels, Stream(r) = <<>>,
           stream' = Ended(r, <<"failed", 0>>) \/ UNCHANGED stream,
           future' = [future EXCEPT ![r] = "error"],
           UNCHANGED <<received, channels, sent, engineVars, stage, mode, checked, starter>>
    PROVE  ChannelsTrue' /\ StagesTrue' /\ EventsTrue' /\ StreamsTrue' /\ ClosedInTime'
<1> DEFINE e == <<"failed", 0>>
<1> USE DEF IInv, engineVars
<1>1. \A s : HasToken(s)' = HasToken(s) /\ HasEnd(s)' = HasEnd(s)
    BY DEF HasToken, HasEnd
<1>2. ChannelsTrue' /\ StagesTrue' /\ EventsTrue'
    BY DEF ChannelsTrue, StagesTrue, EventsTrue
<1>3. ClosedInTime'
    <2>1. \A s \in channels : future'[s] = future[s]
        BY DEF TypeOK
    <2>2. QED
        BY <1>1, <2>1 DEF ClosedInTime, Closed
<1>4. StreamsTrue'
    <2>1. e \in Events /\ e[1] \in Terminals /\ e[1] # "finished"
        BY DEF Events, Terminals
    <2>2. stream[r] = <<>> /\ Len(stream[r]) <= Buffer /\ tokens[r] = 0
        <3>1. stream[r] = <<>>
            BY StreamTyped
        <3>2. Len(<<>>) = 0 /\ 0 <= Buffer
            BY RunnerAssumption
        <3>3. QED
            BY <3>1, <3>2 DEF ChannelsTrue
    <2>3. \A s \in Requests \ {r} : Stream(s)' = Stream(s) /\ stream'[s] = stream[s]
        BY <2>1, <2>2, EndedStream DEF Stream
    <2>4. Stream(r)' = <<>> \/ Stream(r)' = Append(<<>>, e)
        BY <2>1, <2>2, EndedStream DEF Stream
    <2>5. Complete(r, Append(<<>>, e))
        <3>1. <<>> \in Seq(Events) /\ GapFree(<<>>) /\ Len(<<>>) <= 0
            BY DEF GapFree
        <3>2. tokens[r] \in Nat /\ Len(<<>>) <= tokens[r]
            BY <2>2, <3>1
        <3> HIDE DEF e
        <3>3. QED
            BY <2>1, <3>1, <3>2, GapFreeEnds, Zenon
    <2>6. \A s, t : Complete(s, t) => Complete(s, t)'
        BY DEF Complete
    <2> HIDE DEF e
    <2>7. ASSUME NEW s \in Streaming \ {r}
          PROVE  /\ s \in sent => Complete(s, Stream(s))'
                 /\ s \in channels \ sent =>
                       /\ Len(stream[s]') <= Buffer
                       /\ GapFree(Stream(s)') /\ Len(Stream(s)') <= tokens[s]
                       /\ mode # "fail" =>
                             Len(Stream(s)') = IF HasToken(s) THEN tokens[s] - 1 ELSE tokens[s]
                 /\ s \notin channels => Stream(s)' = <<>> \/ Complete(s, Stream(s))'
        BY <2>3, RunnerAssumption DEF StreamsTrue, Complete
    <2>8. r \notin sent /\ (r \in Streaming => Stream(r)' = <<>> \/ Complete(r, Stream(r))')
        <3>1. r \notin sent
            BY DEF ChannelsTrue
        <3>2. Stream(r)' = Append(<<>>, e) => Complete(r, Stream(r))'
            BY <2>5, <2>6 DEF Complete
        <3>3. QED
            BY <2>4, <3>1, <3>2
    <2>9. QED
        BY <1>1, <2>7, <2>8 DEF StreamsTrue
<1>5. QED
    BY <1>2, <1>3, <1>4

\* A submission is accepted with an empty stream, or refused.
LEMMA SubmissionsKeep ==
    ASSUME IInv, NEW r \in Requests, ProcessSubmit(r) \/ RejectSubmit(r)
    PROVE  ChannelsTrue' /\ StagesTrue' /\ EventsTrue' /\ StreamsTrue' /\ ClosedInTime'
<1> USE DEF IInv
<1>1. commands # <<>> /\ Head(commands) = <<"submit", r>> /\ UNCHANGED <<sent, received, starter>>
    BY DEF ProcessSubmit, RejectSubmit, NextCommand, SubmitCommand, clientVars, otherVars
<1>2. r \notin channels /\ Stream(r) = <<>>
    <2>1. commands \in Seq(Command)
        BY DEF TypeOK, Command
    <2>2. 1 \in DOMAIN commands /\ commands[1] = <<"submit", r>>
        BY <1>1, <2>1
    <2>3. QED
        BY <2>2 DEF SubmissionsFresh
<1>3. CASE /\ Raise \/ Crash
           /\ UNCHANGED <<channels, future, stream>>
           /\ stage \in {"drain", "reject"}
    BY <1>1, <1>3, RaiseKeeps, CrashKeeps
<1>4. CASE /\ future' = [future EXCEPT ![r] = "error"]
           /\ stream' = Ended(r, <<"failed", 0>>) \/ UNCHANGED stream
           /\ UNCHANGED <<channels, engineVars, stage, mode, checked>>
    BY <1>1, <1>2, <1>4, RefusalKeeps
<1>5. CASE /\ Engine!Submit(r) /\ channels' = channels \cup {r} /\ stage = "drain"
           /\ UNCHANGED <<future, stream, pending, events, served, stage, mode, checked>>
    <2>1. /\ outcome' = [outcome EXCEPT ![r] = "open"] /\ UNCHANGED tokens
          /\ outcome \in [Requests -> {"absent", "open", "finished", "cancelled", "failed"}]
          /\ outcome[r] = "absent"
        BY <1>5 DEF Engine!Submit, TypeOK
    <2>2. events = <<>> /\ events' = <<>>
        BY <1>5 DEF StagesTrue
    <2>3. ChannelsTrue'
        BY <1>1, <1>5, <2>1 DEF ChannelsTrue
    <2>4. StagesTrue' /\ EventsTrue'
        BY <1>1, <1>5, <2>2 DEF StagesTrue, EventsTrue
    <2>5. \A s : HasToken(s)' = HasToken(s) /\ HasEnd(s)' = HasEnd(s) /\ ~HasToken(s)
        BY <2>2 DEF HasToken, HasEnd
    <2>6. ClosedInTime'
        BY <1>1, <1>5, <2>1, <2>5 DEF ClosedInTime, Closed
    <2>7. \A s : Stream(s)' = Stream(s)
        BY <1>1, <1>5, QuietStreams
    <2>8. StreamsTrue'
        <3>1. stream[r] = <<>> /\ tokens[r] = 0 /\ r \notin sent
            BY <1>2, StreamTyped DEF ChannelsTrue
        <3>2. Len(<<>>) = 0 /\ Len(<<>>) <= Buffer /\ GapFree(<<>>)
            BY RunnerAssumption DEF GapFree
        <3>3. \A s \in Requests : \A t : Complete(s, t) => Complete(s, t)'
            <4>1. \A s \in Requests : outcome[s] = "finished" => outcome'[s] = "finished"
                BY <2>1
            <4>2. QED
                BY <2>1, <4>1 DEF Complete
        <3>4. ASSUME NEW s \in Streaming, s # r
              PROVE  /\ s \in sent => Complete(s, Stream(s))'
                     /\ s \in channels \ sent =>
                           /\ Len(stream[s]) <= Buffer
                           /\ GapFree(Stream(s)) /\ Len(Stream(s)) <= tokens[s]
                           /\ mode # "fail" =>
                                 Len(Stream(s)) = IF HasToken(s) THEN tokens[s] - 1 ELSE tokens[s]
                     /\ s \notin channels => Stream(s)' = <<>> \/ Complete(s, Stream(s))'
            <4>1. s \in Requests /\ (Complete(s, Stream(s)) => Complete(s, Stream(s))')
                BY <2>1, <2>7, <3>3, RunnerAssumption DEF Complete
            <4>2. QED
                BY <2>7, <4>1 DEF StreamsTrue
        <3>5. QED
            BY <1>1, <1>2, <1>5, <2>1, <2>5, <2>7, <3>1, <3>2, <3>4 DEF StreamsTrue
    <2>9. QED
        BY <2>3, <2>4, <2>6, <2>8
<1>6. QED
    BY <1>3, <1>4, <1>5 DEF ProcessSubmit, RejectSubmit

\* The other steps that take a command, look at a future, or end the work.
LEMMA OthersKeep ==
    ASSUME IInv,
           \/ \E r \in Requests : ProcessCancel(r) \/ RejectCancel(r) \/ CheckFuture(r)
           \/ TickRaises \/ FailInspection \/ BeginReject
    PROVE  ChannelsTrue' /\ StagesTrue' /\ EventsTrue' /\ StreamsTrue' /\ ClosedInTime'
<1> USE DEF IInv
<1>1. UNCHANGED <<stream, received, future, channels, sent, starter>>
    BY DEF ProcessCancel, RejectCancel, CheckFuture, TickRaises, FailInspection, BeginReject,
           workerVars, clientVars, otherVars
<1>2. CASE TickRaises
    BY <1>1, <1>2, RaiseKeeps DEF TickRaises
<1>3. CASE FailInspection /\ (Raise \/ Crash)
    BY <1>1, <1>3, RaiseKeeps, CrashKeeps DEF FailInspection
<1>4. CASE UNCHANGED <<outcome, tokens, events, served, mode, checked, stage>>
    <2>1. StagesTrue' /\ (checked' # NoRequest => checked' \in channels)
        BY <1>1, <1>4 DEF StagesTrue, ChannelsTrue
    <2>2. QED
        BY <1>1, <1>4, <2>1, CalmKeeps
<1>5. ASSUME NEW r \in Requests, CheckFuture(r)
      PROVE  ChannelsTrue' /\ StagesTrue' /\ EventsTrue' /\ StreamsTrue' /\ ClosedInTime'
    <2>1. r \in channels
        BY <1>5, HeadHasChannel DEF CheckFuture
    <2>2. checked' = r /\ UNCHANGED <<outcome, tokens, events, served, mode, stage>>
        BY <1>5 DEF CheckFuture, engineVars
    <2>3. StagesTrue'
        BY <1>1, <2>2 DEF StagesTrue
    <2>4. QED
        BY <1>1, <2>1, <2>2, <2>3, CalmKeeps
<1>6. CASE FailInspection /\ UNCHANGED <<engineVars, mode, checked>> /\ stage' = "reject"
    <2>1. stage = "reject inspection" /\ UNCHANGED <<outcome, tokens, events, mode, checked>>
        BY <1>6 DEF FailInspection, engineVars
    <2>2. StagesTrue' /\ (checked' # NoRequest => checked' \in channels)
        BY <1>1, <1>6, <2>1 DEF StagesTrue, ChannelsTrue
    <2>3. QED
        BY <1>1, <1>6, <2>1, <2>2, CalmKeeps
<1>7. CASE BeginReject
    <2>1. /\ stage' = "reject" /\ stage \in {"stop", "fail"}
          /\ UNCHANGED <<outcome, tokens, events, mode, checked>>
        BY <1>7 DEF BeginReject, engineVars
    <2>2. StagesTrue' /\ (checked' # NoRequest => checked' \in channels)
        BY <1>1, <2>1 DEF StagesTrue, ChannelsTrue
    <2>3. \A r \in channels : Closed(r)
        <3>1. CASE stage = "stop"
            <4>1. mode # "fail" /\ Open = {} /\ events = <<>>
                BY <1>7, <3>1 DEF BeginReject, IsIdle, StagesTrue
            <4>2. \A r : ~HasEnd(r)
                BY <4>1 DEF HasEnd
            <4>3. \A r \in channels : outcome[r] # "open"
                BY <4>1 DEF Open, ChannelsTrue
            <4>4. QED
                BY <4>1, <4>2, <4>3 DEF ClosedInTime
        <3>2. CASE stage = "fail"
            BY <1>7, <3>2 DEF BeginReject, Closed, Unfinished
        <3>3. QED
            BY <2>1, <3>1, <3>2
    <2>4. QED
        BY <1>1, <2>1, <2>2, <2>3, CalmKeeps
<1>8. ASSUME NEW r \in Requests, ProcessCancel(r) \/ RejectCancel(r)
      PROVE  UNCHANGED <<outcome, tokens, events, served, mode, checked, stage>>
    BY <1>8 DEF ProcessCancel, RejectCancel, workerVars, engineVars
<1>9. FailInspection => \/ Raise \/ Crash
                        \/ UNCHANGED <<engineVars, mode, checked>> /\ stage' = "reject"
    BY DEF FailInspection
<1>10. QED
    BY <1>2, <1>3, <1>4, <1>5, <1>6, <1>7, <1>8, <1>9

-----------------------------------------------------------------------------
\* t is s with two more events, a in u and b in v, if they are not empty.
Longer(s, t, a, u, b, v) ==
    /\ \A i \in DOMAIN s : i \in DOMAIN t /\ t[i] = s[i]
    /\ \A i \in DOMAIN t \ DOMAIN s : (u = <<a>> /\ t[i] = a) \/ (v = <<b>> /\ t[i] = b)
    /\ u = <<a>> => \E i \in DOMAIN t : t[i] = a
    /\ v = <<b>> => \E i \in DOMAIN t : t[i] = b
    /\ \A i, j \in DOMAIN t : i < j /\ j \in DOMAIN s => i \in DOMAIN s
    /\ \A i, j \in DOMAIN t \ DOMAIN s : i < j => t[i] = a /\ t[j] = b

\* What the engine adds to the events makes them longer so.
LEMMA Lengthened ==
    ASSUME NEW S, NEW s \in Seq(S), NEW a, NEW b, NEW u, NEW v,
           u = <<>> \/ (a \in S /\ u = <<a>>), v = <<>> \/ (b \in S /\ v = <<b>>),
           NEW t, t = s \o (u \o v)
    PROVE  Longer(s, t, a, u, b, v)
<1> USE DEF Longer
<1>1. CASE a \in S /\ b \in S /\ u = <<a>> /\ v = <<b>>
    <2>1. /\ t = s \o (u \o v) /\ u \in Seq(S) /\ v \in Seq(S)
          /\ Len(u) = 1 /\ Len(v) = 1 /\ u[1] = a /\ v[1] = b
        BY <1>1
    <2>2. /\ Len(t) = Len(s) + 2 /\ DOMAIN t = 1..(Len(s) + 2)
          /\ DOMAIN s = 1..Len(s) /\ Len(s) \in Nat
          /\ \A i \in 1..Len(s) : t[i] = s[i]
          /\ t[Len(s) + 1] = a /\ t[Len(s) + 2] = b
        BY <1>1, <2>1
    <2>3. \A i \in DOMAIN t \ DOMAIN s : i = Len(s) + 1 \/ i = Len(s) + 2
        BY <2>2
    <2>4. /\ \A i \in DOMAIN s : i \in DOMAIN t /\ t[i] = s[i]
          /\ Len(s) + 1 \in DOMAIN t /\ Len(s) + 2 \in DOMAIN t
        BY <2>2
    <2>5. ASSUME NEW i \in DOMAIN t \ DOMAIN s, NEW j \in DOMAIN t \ DOMAIN s, i < j
          PROVE  t[i] = a /\ t[j] = b
        <3>1. i = Len(s) + 1 /\ j = Len(s) + 2
            BY <2>2, <2>3, <2>5
        <3>2. QED
            BY <2>2, <3>1
    <2>6. ASSUME NEW i \in DOMAIN t, NEW j \in DOMAIN s, i < j
          PROVE  i \in DOMAIN s
        BY <2>2, <2>6
    <2>7. QED
        BY <1>1, <2>2, <2>3, <2>4, <2>5, <2>6
<1>2. ASSUME NEW c \in S
      PROVE  LET w == s \o <<c>> IN
             /\ DOMAIN w = 1..(Len(s) + 1) /\ DOMAIN s = 1..Len(s) /\ Len(s) \in Nat
             /\ \A i \in 1..Len(s) : w[i] = s[i]
             /\ w[Len(s) + 1] = c
    OBVIOUS
<1>3. <<a>> # <<>> /\ <<b>> # <<>> /\ \A w \in Seq(S) : w \o <<>> = w
    OBVIOUS
<1>4. CASE a \in S /\ u = <<a>> /\ v = <<>>
    <2>1. u \o v = <<a>> /\ t = s \o <<a>>
        BY <1>4
    <2>2. /\ DOMAIN t = 1..(Len(s) + 1) /\ DOMAIN s = 1..Len(s) /\ Len(s) \in Nat
          /\ \A i \in 1..Len(s) : t[i] = s[i]
          /\ t[Len(s) + 1] = a
        BY <2>1, <1>2, <1>4
    <2>3. \A i \in DOMAIN t \ DOMAIN s : i = Len(s) + 1
        BY <2>2
    <2>4. QED
        BY <1>3, <1>4, <2>2, <2>3
<1>5. CASE b \in S /\ u = <<>> /\ v = <<b>>
    <2>1. u \o v = <<b>> /\ t = s \o <<b>>
        BY <1>5
    <2>2. /\ DOMAIN t = 1..(Len(s) + 1) /\ DOMAIN s = 1..Len(s) /\ Len(s) \in Nat
          /\ \A i \in 1..Len(s) : t[i] = s[i]
          /\ t[Len(s) + 1] = b
        BY <2>1, <1>2, <1>5
    <2>3. \A i \in DOMAIN t \ DOMAIN s : i = Len(s) + 1
        BY <2>2
    <2>4. QED
        BY <1>3, <1>5, <2>2, <2>3
<1>6. CASE u = <<>> /\ v = <<>>
    <2>1. u \o v = <<>> /\ t = s
        BY <1>6
    <2>2. DOMAIN s = 1..Len(s) /\ Len(s) \in Nat
        OBVIOUS
    <2>3. QED
        BY <1>3, <1>6, <2>1, <2>2
<1>7. QED
    BY <1>1, <1>4, <1>5, <1>6

\* A step of the engine on a request that had no event in this tick.
LEMMA EngineStepKeeps ==
    ASSUME IInv, NEW r \in Requests, EngineStep(r)
    PROVE  ChannelsTrue' /\ StagesTrue' /\ EventsTrue' /\ StreamsTrue' /\ ClosedInTime'
<1> USE DEF IInv
<1> DEFINE Event == Requests \X {"token", "finished", "cancelled", "failed"} \X Nat
           T == <<r, "token", tokens'[r]>>
           E == <<r, outcome'[r], tokens'[r]>>
           grew == tokens'[r] > tokens[r]
           ended == outcome'[r] # "open"
<1>1. /\ stage = "tick" /\ r \notin served /\ served' = served \cup {r}
      /\ events' = events \o Emitted(r)
      /\ UNCHANGED <<stream, received, future, channels, sent, stage, mode, checked, starter>>
    BY DEF EngineStep, clientVars, otherVars
<1>2. /\ outcome[r] = "open" /\ outcome'[r] \in {"open", "finished", "cancelled", "failed"}
      /\ tokens \in [Requests -> Nat] /\ tokens' \in [Requests -> Nat]
      /\ tokens'[r] \in {tokens[r], tokens[r] + 1}
      /\ \A s \in Requests \ {r} : outcome'[s] = outcome[s] /\ tokens'[s] = tokens[s]
    BY EngineMoves
<1>3. r \in channels /\ mode # "fail"
    BY <1>1, <1>2 DEF ChannelsTrue, StagesTrue
<1>4. T[1] = r /\ T[2] = "token" /\ T[3] = tokens'[r] /\ E[1] = r /\ E[2] = outcome'[r] /\ E[3] = tokens'[r]
    OBVIOUS
<1>5. T \in Event /\ (ended => E \in Event)
    BY <1>2
<1>6. events \in Seq(Event)
    BY DEF TypeOK
<1> DEFINE u == IF grew THEN <<T>> ELSE <<>>
           v == IF ended THEN <<E>> ELSE <<>>
<1>7. events' = events \o (u \o v)
    BY <1>1 DEF Emitted
<1>8. (~grew => tokens'[r] = tokens[r])
      /\ (grew => tokens'[r] = tokens[r] + 1)
    BY <1>2
<1> HIDE DEF Event, T, E, grew, ended
<1>9. /\ \A i \in DOMAIN events : i \in DOMAIN events' /\ events'[i] = events[i]
      /\ \A i \in DOMAIN events' \ DOMAIN events : (grew /\ events'[i] = T) \/ (ended /\ events'[i] = E)
      /\ grew => \E i \in DOMAIN events' : events'[i] = T
      /\ ended => \E i \in DOMAIN events' : events'[i] = E
      /\ \A i, j \in DOMAIN events' : i < j /\ j \in DOMAIN events => i \in DOMAIN events
      /\ \A i, j \in DOMAIN events' \ DOMAIN events : i < j => events'[i] = T /\ events'[j] = E
    <2>1. (u = <<T>> <=> grew) /\ (v = <<E>> <=> ended)
        OBVIOUS
    <2>2. /\ u = <<>> \/ (T \in Event /\ u = <<T>>)
          /\ v = <<>> \/ (E \in Event /\ v = <<E>>)
        BY <1>5
    <2> HIDE DEF u, v
    <2>3. Longer(events, events', T, u, E, v)
        BY <1>6, <1>7, <2>2, Lengthened
    <2>4. QED
        BY <2>1, <2>3 DEF Longer
<1>10. \A i \in DOMAIN events : events[i][1] # r /\ events[i][1] \in channels
    BY <1>1 DEF EventsTrue
<1>11. ended <=> E[2] # "open"
    BY <1>4 DEF ended
<1>12. E[2] # "token"
    BY <1>2, <1>4
<1>13. /\ HasToken(r)' <=> grew
       /\ ended => HasEnd(r)'
       /\ ~HasToken(r)
       /\ \A s : s # r => (HasToken(s)' <=> HasToken(s)) /\ (HasEnd(s)' <=> HasEnd(s))
    <2>1. (HasToken(r)' <=> grew) /\ (ended => HasEnd(r)') /\ ~HasToken(r)
        BY <1>4, <1>9, <1>10, <1>12 DEF HasToken, HasEnd
    <2>2. ASSUME NEW s, s # r
          PROVE  (HasToken(s)' <=> HasToken(s)) /\ (HasEnd(s)' <=> HasEnd(s))
        <3>1. \A i \in DOMAIN events' : events'[i][1] = s => i \in DOMAIN events
            BY <1>4, <1>9, <2>2
        <3>2. QED
            BY <1>9, <3>1 DEF HasToken, HasEnd
    <2>3. QED
        BY <2>1, <2>2
<1>14. ChannelsTrue'
    BY <1>1, <1>2, <1>3 DEF ChannelsTrue
<1>15. StagesTrue'
    BY <1>1 DEF StagesTrue
<1>16. EventsTrue'
    <2>1. ASSUME NEW i \in DOMAIN events'
          PROVE  /\ events'[i][1] \in channels' /\ events'[i][3] = tokens'[events'[i][1]]
                 /\ events'[i][2] # "token" => outcome'[events'[i][1]] = events'[i][2]
                 /\ stage' = "tick" => events'[i][1] \in served'
        <3>1. CASE i \in DOMAIN events
            BY <1>1, <1>2, <1>9, <1>10, <3>1 DEF EventsTrue, ChannelsTrue
        <3>2. CASE i \notin DOMAIN events
            BY <1>1, <1>3, <1>4, <1>9, <3>2
        <3>3. QED
            BY <3>1, <3>2
    <2>2. ASSUME NEW i \in DOMAIN events', NEW j \in DOMAIN events', i < j, events'[i][1] = events'[j][1]
          PROVE  events'[i][2] = "token" /\ events'[j][2] # "token"
        <3>1. CASE j \in DOMAIN events
            BY <1>9, <2>2, <3>1 DEF EventsTrue
        <3>2. CASE j \notin DOMAIN events
            <4>1. events'[j][1] = r
                BY <1>4, <1>9, <3>2
            <4>2. i \notin DOMAIN events
                BY <1>9, <1>10, <2>2, <4>1
            <4>3. QED
                BY <1>4, <1>9, <1>12, <2>2, <3>2, <4>2
        <3>3. QED
            BY <3>1, <3>2
    <2>3. QED
        BY <2>1, <2>2 DEF EventsTrue
<1>17. \A s : Stream(s)' = Stream(s)
    BY <1>1, QuietStreams
<1>18. ASSUME NEW s \in Requests, Complete(s, Stream(s))
       PROVE  Complete(s, Stream(s))'
    <2>1. Stream(s)' = Stream(s) /\ tokens[s] \in Nat /\ tokens'[s] \in Nat /\ tokens'[s] >= tokens[s]
        BY <1>2, <1>17
    <2>2. outcome[s] = "finished" => outcome'[s] = "finished"
        BY <1>2
    <2>3. Len(Stream(s)) \in Nat
        BY StreamTyped
    <2>4. QED
        BY <1>18, <2>1, <2>2, <2>3 DEF Complete
<1>19. StreamsTrue'
    <2> SUFFICES ASSUME NEW s \in Streaming
                 PROVE  /\ s \in sent => Complete(s, Stream(s))'
                        /\ s \in channels \ sent =>
                              /\ Len(stream[s]) <= Buffer
                              /\ GapFree(Stream(s)) /\ Len(Stream(s)) <= tokens'[s]
                              /\ Len(Stream(s)) = IF HasToken(s)' THEN tokens'[s] - 1 ELSE tokens'[s]
                        /\ s \notin channels => Stream(s) = <<>> \/ Complete(s, Stream(s))'
        BY <1>1, <1>17 DEF StreamsTrue, GapFree
    <2>1. s \in Requests /\ Len(Stream(s)) \in Nat
        BY StreamTyped, RunnerAssumption
    <2>2. CASE s = r
        BY <1>2, <1>3, <1>8, <1>13, <1>18, <2>1, <2>2 DEF StreamsTrue
    <2>3. CASE s # r
        BY <1>2, <1>3, <1>13, <1>18, <2>1, <2>3 DEF StreamsTrue
    <2>4. QED
        BY <2>2, <2>3
<1>20. ClosedInTime'
    <2>1. \A s \in channels : outcome'[s] = "open" \/ HasEnd(s)' \/ Closed(s)'
        <3>1. \A s : Closed(s)' <=> Closed(s)
            BY <1>1 DEF Closed
        <3>2. outcome'[r] = "open" \/ HasEnd(r)'
            BY <1>13 DEF ended
        <3>3. \A s \in channels : s \in Requests
            BY DEF TypeOK
        <3>4. QED
            BY <1>2, <1>3, <1>13, <3>1, <3>2, <3>3 DEF ClosedInTime
    <2>2. QED
        BY <1>1, <2>1 DEF ClosedInTime
<1>21. QED
    BY <1>14, <1>15, <1>16, <1>19, <1>20

-----------------------------------------------------------------------------
\* The event at the head is taken: of its request no token is left, and after
\* its end nothing.
LEMMA EventsPopped ==
    ASSUME IInv, NEW r, NEW kinds, NextEvent(r, kinds), events' = Tail(events),
           UNCHANGED <<channels, outcome, tokens, stage>>
    PROVE  /\ EventsTrue'
           /\ ~HasToken(r)'
           /\ Head(events)[2] = "token" => HasToken(r) /\ (HasEnd(r)' <=> HasEnd(r))
           /\ Head(events)[2] # "token" => ~HasToken(r)
           /\ \A s : s # r => (HasToken(s)' <=> HasToken(s)) /\ (HasEnd(s)' <=> HasEnd(s))
<1> USE DEF IInv
<1>1. events[1] = Head(events) /\ Head(events)[1] = r /\ 1 \in DOMAIN events /\ stage = "publish"
    BY HeadHasChannel
<1>2. /\ \A i \in DOMAIN events' : i + 1 \in DOMAIN events /\ events'[i] = events[i + 1] /\ 1 < i + 1
      /\ \A i \in DOMAIN events : i # 1 => i - 1 \in DOMAIN events' /\ events'[i - 1] = events[i]
      /\ \A i, j \in DOMAIN events' : i < j => i + 1 < j + 1
    <2> DEFINE Event == Requests \X {"token", "finished", "cancelled", "failed"} \X Nat
    <2>1. events \in Seq(Event) /\ events # <<>>
        BY DEF TypeOK, NextEvent
    <2> HIDE DEF Event
    <2>2. QED
        BY <2>1
<1>3. \A i, j \in DOMAIN events : i < j /\ events[i][1] = events[j][1] =>
          events[i][2] = "token" /\ events[j][2] # "token"
    BY DEF EventsTrue
<1>4. \A i \in DOMAIN events' : events'[i][1] = r => Head(events)[2] = "token" /\ events'[i][2] # "token"
    BY <1>1, <1>2, <1>3
<1>5. EventsTrue'
    <2>1. \A i \in DOMAIN events' :
             /\ events'[i][1] \in channels' /\ events'[i][3] = tokens'[events'[i][1]]
             /\ events'[i][2] # "token" => outcome'[events'[i][1]] = events'[i][2]
        BY <1>2 DEF EventsTrue
    <2>2. \A i, j \in DOMAIN events' : i < j /\ events'[i][1] = events'[j][1] =>
             events'[i][2] = "token" /\ events'[j][2] # "token"
        BY <1>2, <1>3
    <2>3. QED
        BY <1>1, <2>1, <2>2 DEF EventsTrue
<1>6. /\ ~HasToken(r)'
      /\ Head(events)[2] = "token" => HasToken(r) /\ (HasEnd(r)' <=> HasEnd(r))
    <2>1. ~HasToken(r)'
        BY <1>4 DEF HasToken
    <2>2. Head(events)[2] = "token" => HasToken(r)
        BY <1>1 DEF HasToken
    <2>3. HasEnd(r)' => HasEnd(r)
        BY <1>2 DEF HasEnd
    <2>4. ASSUME Head(events)[2] = "token", NEW i \in DOMAIN events, events[i][1] = r, events[i][2] # "token"
          PROVE  HasEnd(r)'
        <3>1. i # 1
            BY <1>1, <2>4
        <3>2. i - 1 \in DOMAIN events' /\ events'[i - 1] = events[i]
            BY <1>2, <3>1
        <3>3. QED
            BY <2>4, <3>2 DEF HasEnd
    <2>5. QED
        BY <2>1, <2>2, <2>3, <2>4 DEF HasEnd
<1>7. Head(events)[2] # "token" => ~HasToken(r)
    <2> SUFFICES ASSUME NEW i \in DOMAIN events, events[i][1] = r, events[i][2] = "token",
                        Head(events)[2] # "token"
                 PROVE  FALSE
        BY DEF HasToken
    <2>1. i # 1 /\ events'[i - 1] = events[i] /\ i - 1 \in DOMAIN events'
        BY <1>1, <1>2
    <2>2. QED
        BY <1>4, <2>1
<1>8. ASSUME NEW s, s # r
      PROVE  (HasToken(s)' <=> HasToken(s)) /\ (HasEnd(s)' <=> HasEnd(s))
    <2>1. \A i \in DOMAIN events : events[i][1] = s =>
              i - 1 \in DOMAIN events' /\ events'[i - 1] = events[i]
        BY <1>1, <1>2, <1>8
    <2>2. \A i \in DOMAIN events' : i + 1 \in DOMAIN events /\ events'[i] = events[i + 1]
        BY <1>2
    <2>3. HasToken(s)' <=> HasToken(s)
        BY <2>1, <2>2 DEF HasToken
    <2>4. HasEnd(s)' <=> HasEnd(s)
        BY <2>1, <2>2 DEF HasEnd
    <2>5. QED
        BY <2>3, <2>4
<1>9. QED
    BY <1>5, <1>6, <1>7, <1>8

\* The stream of r gets its last event, if it is still open.
LEMMA EndingKeepsStreams ==
    ASSUME IInv, NEW r \in channels, NEW e \in Events, e[1] \in Terminals,
           r \in Streaming \ sent /\ e[1] = "finished" =>
               outcome[r] = "finished" /\ e[2] = Len(Stream(r)),
           stream' = Ended(r, e), sent' = Ends(r),
           UNCHANGED <<received, channels, outcome, tokens, mode>>,
           mode = "fail" \/ \A s : s # r => (HasToken(s)' <=> HasToken(s))
    PROVE  StreamsTrue'
<1> USE DEF IInv
<1>1. r \in Requests /\ Streaming \subseteq Requests
    BY RunnerAssumption DEF TypeOK
<1>2. tokens[r] \in Nat /\ Stream(r) \in Seq(Events)
    BY <1>1, StreamTyped DEF TypeOK
<1>3. CASE r \in Streaming \ sent
    <2>1. Len(stream[r]) <= Buffer /\ GapFree(Stream(r)) /\ Len(Stream(r)) <= tokens[r]
        BY <1>3 DEF StreamsTrue
    <2>2. /\ Stream(r)' = Append(Stream(r), e)
          /\ \A s \in Requests \ {r} : Stream(s)' = Stream(s) /\ stream'[s] = stream[s]
        BY <1>1, <1>3, <2>1, EndedStream
    <2>3. Complete(r, Append(Stream(r), e))
        BY <1>1, <1>2, <1>3, <2>1, GapFreeEnds
    <2>4. Complete(r, Stream(r))' /\ r \in sent'
        BY <1>3, <2>2, <2>3 DEF Complete, Ends
    <2>5. ASSUME NEW s \in Streaming, s # r
          PROVE  /\ s \in sent' => Complete(s, Stream(s))'
                 /\ s \in channels \ sent' =>
                       /\ Len(stream[s]') <= Buffer
                       /\ GapFree(Stream(s)') /\ Len(Stream(s)') <= tokens[s]
                       /\ mode # "fail" =>
                             Len(Stream(s)') = IF HasToken(s)' THEN tokens[s] - 1 ELSE tokens[s]
                 /\ s \notin channels => Stream(s)' = <<>> \/ Complete(s, Stream(s))'
        <3>1. s \in Requests /\ Stream(s)' = Stream(s) /\ stream'[s] = stream[s] /\ (s \in sent' <=> s \in sent)
            BY <1>1, <2>2, <2>5 DEF Ends
        <3>2. Complete(s, Stream(s))' <=> Complete(s, Stream(s))
            BY <3>1 DEF Complete
        <3>3. QED
            BY <2>5, <3>1, <3>2 DEF StreamsTrue
    <2>6. QED
        BY <2>4, <2>5 DEF StreamsTrue, GapFree
<1>4. CASE r \notin Streaming \ sent
    <2>1. UNCHANGED stream /\ \A s \in Streaming : s \in sent' <=> s \in sent
        BY <1>4 DEF Ended, Ends
    <2>2. \A s : Stream(s)' = Stream(s)
        BY <2>1, QuietStreams
    <2>3. \A s : Complete(s, Stream(s))' <=> Complete(s, Stream(s))
        BY <2>2 DEF Complete
    <2>4. \A s : GapFree(Stream(s))' <=> GapFree(Stream(s))
        BY <2>2 DEF GapFree
    <2>5. QED
        BY <1>4, <2>1, <2>2, <2>3, <2>4 DEF StreamsTrue
<1>5. QED
    BY <1>3, <1>4

\* A token is published: to nobody, to its stream, or to one that has no room.
LEMMA PublishTokenKeeps ==
    ASSUME IInv, NEW r \in Requests, PublishToken(r)
    PROVE  ChannelsTrue' /\ StagesTrue' /\ EventsTrue' /\ StreamsTrue' /\ ClosedInTime'
<1> USE DEF IInv
<1>1. /\ NextEvent(r, {"token"}) /\ events' = Tail(events)
      /\ UNCHANGED <<received, future, channels, outcome, tokens, stage, mode, checked, starter>>
    BY DEF PublishToken, clientVars, otherVars
<1>2. /\ r \in channels /\ Head(events)[2] = "token" /\ Head(events)[3] = tokens[r]
      /\ stage = "publish" /\ mode # "fail"
    BY <1>1, HeadHasChannel
<1>3. /\ EventsTrue' /\ ~HasToken(r)' /\ HasToken(r) /\ \A s : HasEnd(s)' <=> HasEnd(s)
      /\ \A s : s # r => (HasToken(s)' <=> HasToken(s))
    BY <1>1, <1>2, EventsPopped
<1>4. sent' = sent \/ sent' = Ends(r)
    BY DEF PublishToken
<1>5. ChannelsTrue'
    BY <1>1, <1>2, <1>4 DEF ChannelsTrue, Ends
<1>6. StagesTrue'
    BY <1>1, <1>2 DEF StagesTrue
<1>7. ClosedInTime'
    <2>1. \A s : Closed(s) => Closed(s)'
        BY <1>1, <1>4 DEF Closed, Ends
    <2>2. QED
        BY <1>1, <1>2, <1>3, <2>1 DEF ClosedInTime
<1>8. StreamsTrue'
    <2>1. CASE (r \notin Streaming \/ r \in sent) /\ UNCHANGED <<stream, sent>>
        <3>1. \A s : Stream(s)' = Stream(s)
            BY <1>1, <2>1, QuietStreams
        <3>2. \A s : Complete(s, Stream(s))' <=> Complete(s, Stream(s))
            BY <1>1, <3>1 DEF Complete
        <3>3. \A s : GapFree(Stream(s))' <=> GapFree(Stream(s))
            BY <3>1 DEF GapFree
        <3>4. QED
            BY <1>1, <1>3, <2>1, <3>1, <3>2, <3>3 DEF StreamsTrue
    <2>2. CASE /\ r \in Streaming \ sent /\ ~IsFull(r) /\ UNCHANGED sent
               /\ stream' = [stream EXCEPT ![r] = Append(@, <<"token", Head(events)[3]>>)]
        <3> DEFINE e == <<"token", tokens[r]>>
        <3>1. e \in Events
            BY DEF Events, TypeOK
        <3>2. /\ stream \in [Requests -> Seq(Events)] /\ stream[r] \in Seq(Events) /\ received[r] \in Seq(Events)
              /\ Stream(r) \in Seq(Events) /\ tokens[r] \in Nat /\ Buffer \in Nat
            BY StreamTyped, RunnerAssumption DEF TypeOK
        <3>3. stream' = [stream EXCEPT ![r] = Append(stream[r], e)]
            BY <1>2, <2>2
        <3> HIDE DEF e
        <3>4. stream'[r] = Append(stream[r], e) /\ \A s \in Requests \ {r} : stream'[s] = stream[s]
            BY <3>2, <3>3
        <3>5. Len(stream'[r]) <= Buffer
            <4>1. Len(stream[r]) < Buffer
                BY <2>2, <3>2 DEF IsFull
            <4>2. Len(Append(stream[r], e)) = Len(stream[r]) + 1 /\ Len(stream[r]) \in Nat
                BY <3>1, <3>2
            <4>3. QED
                BY <3>2, <3>4, <4>1, <4>2
        <3>6. Stream(r)' = Append(Stream(r), e)
            <4>1. \A s, t \in Seq(Events) : \A x \in Events : s \o Append(t, x) = Append(s \o t, x)
                BY AppendMoves
            <4>2. received[r] \o Append(stream[r], e) = Append(Stream(r), e)
                BY <3>1, <3>2, <4>1, Zenon DEF Stream
            <4>3. QED
                BY <1>1, <3>4, <4>2, Zenon DEF Stream
        <3>7. GapFree(Stream(r)) /\ Len(Stream(r)) = tokens[r] - 1
            BY <1>2, <1>3, <2>2 DEF StreamsTrue
        <3>8. GapFree(Append(Stream(r), e)) /\ Len(Append(Stream(r), e)) = tokens[r]
            <4>1. /\ DOMAIN Append(Stream(r), e) = 1..(Len(Stream(r)) + 1)
                  /\ DOMAIN Stream(r) = 1..Len(Stream(r)) /\ Len(Stream(r)) \in Nat
                  /\ \A i \in 1..Len(Stream(r)) : Append(Stream(r), e)[i] = Stream(r)[i]
                  /\ Append(Stream(r), e)[Len(Stream(r)) + 1] = e
                  /\ Len(Append(Stream(r), e)) = Len(Stream(r)) + 1
                BY <3>1, <3>2
            <4>2. e = <<"token", Len(Stream(r)) + 1>>
                BY <3>2, <3>7, <4>1 DEF e
            <4>3. QED
                BY <3>2, <3>7, <4>1, <4>2 DEF GapFree
        <3>9. ASSUME NEW s \in Streaming, s # r
              PROVE  /\ s \in sent' => Complete(s, Stream(s))'
                     /\ s \in channels \ sent' =>
                           /\ Len(stream[s]') <= Buffer
                           /\ GapFree(Stream(s)') /\ Len(Stream(s)') <= tokens[s]
                           /\ mode # "fail" =>
                                 Len(Stream(s)') = IF HasToken(s)' THEN tokens[s] - 1 ELSE tokens[s]
                     /\ s \notin channels => Stream(s)' = <<>> \/ Complete(s, Stream(s))'
            <4>1. s \in Requests /\ Stream(s)' = Stream(s) /\ stream'[s] = stream[s]
                BY <1>1, <3>4, <3>9, RunnerAssumption DEF Stream
            <4>2. Complete(s, Stream(s))' <=> Complete(s, Stream(s))
                BY <1>1, <4>1 DEF Complete
            <4>3. QED
                BY <1>3, <2>2, <3>9, <4>1, <4>2 DEF StreamsTrue
        <3>10. /\ r \notin sent' /\ r \in channels' /\ Len(stream[r]') <= Buffer /\ GapFree(Stream(r)')
               /\ Len(Stream(r)') = tokens[r] /\ tokens[r] <= tokens[r]
            BY <1>1, <1>2, <2>2, <3>2, <3>5, <3>6, <3>8
        <3>11. QED
            BY <1>1, <1>3, <3>9, <3>10 DEF StreamsTrue, GapFree
    <2>3. CASE stream' = Ended(r, <<"backpressure", 0>>) /\ sent' = Ends(r)
        <3> DEFINE e == <<"backpressure", 0>>
        <3>1. e \in Events /\ e[1] \in Terminals /\ e[1] # "finished"
            BY DEF Events, Terminals
        <3> HIDE DEF e
        <3>2. stream' = Ended(r, e)
            BY <2>3 DEF e
        <3>3. QED
            BY <1>1, <1>2, <1>3, <2>3, <3>1, <3>2, EndingKeepsStreams
    <2>4. QED
        BY <2>1, <2>2, <2>3 DEF PublishToken
<1>9. QED
    BY <1>3, <1>5, <1>6, <1>7, <1>8

\* The last event of a request is published: its future is set before, or was
\* set by somebody else.
LEMMA PublishTerminalKeeps ==
    ASSUME IInv, NEW r \in Requests, PublishTerminal(r)
    PROVE  ChannelsTrue' /\ StagesTrue' /\ EventsTrue' /\ StreamsTrue' /\ ClosedInTime'
<1> USE DEF IInv
<1> DEFINE kinds == {"finished", "cancelled", "failed"}
<1>1. /\ NextEvent(r, kinds) /\ UNCHANGED <<received, channels, starter>>
      /\ checked = r \/ ~Unfinished(r)
    BY DEF PublishTerminal, clientVars, otherVars
<1>2. /\ r \in channels /\ Head(events)[2] \in kinds /\ Head(events)[3] = tokens[r]
      /\ outcome[r] = Head(events)[2] /\ stage = "publish" /\ mode # "fail"
    BY <1>1, HeadHasChannel
<1>3. CASE Raise /\ UNCHANGED <<future, stream, sent>>
    BY <1>1, <1>2, <1>3, RaiseKeeps
<1>4. CASE /\ future' = [future EXCEPT ![r] = IF checked = r THEN "result" ELSE @]
           /\ stream' = Ended(r, <<Head(events)[2], Head(events)[3]>>) /\ sent' = Ends(r)
           /\ events' = Tail(events) /\ checked' = NoRequest
           /\ UNCHANGED <<outcome, tokens, pending, served, stage, mode>>
    <2> DEFINE e == <<outcome[r], tokens[r]>>
    <2>1. e \in Events /\ e[1] \in Terminals /\ e[1] = outcome[r] /\ e[2] = tokens[r]
        BY <1>2 DEF Events, Terminals, TypeOK
    <2>2. stream' = Ended(r, e)
        BY <1>2, <1>4
    <2> HIDE DEF e
    <2>3. /\ EventsTrue' /\ ~HasToken(r)
          /\ \A s : s # r => (HasToken(s)' <=> HasToken(s)) /\ (HasEnd(s)' <=> HasEnd(s))
        BY <1>1, <1>2, <1>4, EventsPopped
    <2>4. ChannelsTrue'
        BY <1>1, <1>2, <1>4 DEF ChannelsTrue, Ends
    <2>5. StagesTrue'
        BY <1>1, <1>2, <1>4 DEF StagesTrue
    <2>6. StreamsTrue'
        <3>1. r \in Streaming \ sent => Len(Stream(r)) = tokens[r]
            BY <1>2, <2>3 DEF StreamsTrue
        <3>2. QED
            BY <1>1, <1>2, <1>4, <2>1, <2>2, <2>3, <3>1, EndingKeepsStreams
    <2>7. ClosedInTime'
        <3>1. future \in [Requests -> {"none", "pending"} \cup Done]
            BY DEF TypeOK
        <3>2. Closed(r)'
            BY <1>1, <1>4, <3>1 DEF Closed, Ends, Unfinished, Done
        <3>3. \A s \in channels : s # r => (Closed(s) => Closed(s)')
            BY <1>4, <3>1 DEF Closed, Ends
        <3>4. QED
            BY <1>1, <1>2, <1>4, <2>3, <3>2, <3>3 DEF ClosedInTime
    <2>8. QED
        BY <2>3, <2>4, <2>5, <2>6, <2>7
<1>5. QED
    BY <1>3, <1>4 DEF PublishTerminal

\* A channel is failed.
LEMMA FailChannelKeeps ==
    ASSUME IInv, NEW r \in Requests, FailChannel(r)
    PROVE  ChannelsTrue' /\ StagesTrue' /\ EventsTrue' /\ StreamsTrue' /\ ClosedInTime'
<1> USE DEF IInv
<1>1. /\ stage = "fail" /\ r \in channels /\ mode = "fail" /\ events = <<>>
      /\ UNCHANGED <<received, channels, starter>>
    BY DEF FailChannel, clientVars, otherVars, StagesTrue
<1>2. CASE Crash /\ UNCHANGED <<future, stream, sent>>
    BY <1>1, <1>2, CrashKeeps
<1>3. CASE /\ stream' = Ended(r, <<"failed", 0>>) /\ sent' = Ends(r)
           /\ checked' = NoRequest
           /\ UNCHANGED <<engineVars, stage, mode>>
    <2> DEFINE e == <<"failed", 0>>
    <2>1. e \in Events /\ e[1] \in Terminals /\ e[1] # "finished"
        BY DEF Events, Terminals
    <2> HIDE DEF e
    <2>2. stream' = Ended(r, e)
        BY <1>3 DEF e
    <2>3. UNCHANGED <<outcome, tokens, events, mode, stage>>
        BY <1>3 DEF engineVars
    <2>4. StreamsTrue'
        BY <1>1, <1>3, <2>1, <2>2, <2>3, EndingKeepsStreams
    <2>5. ChannelsTrue' /\ StagesTrue' /\ EventsTrue'
        BY <1>1, <1>3, <2>3 DEF ChannelsTrue, StagesTrue, EventsTrue, Ends
    <2>6. ClosedInTime'
        BY <1>1, <2>3 DEF ClosedInTime
    <2>7. QED
        BY <2>4, <2>5, <2>6
<1>4. QED
    BY <1>2, <1>3 DEF FailChannel

-----------------------------------------------------------------------------
\* The invariant holds at first.
LEMMA InvariantAtInit == Init => IInv
<1> SUFFICES ASSUME Init PROVE IInv
    OBVIOUS
<1>1. TypeOK
    BY FreshTyped DEF Init
<1>2. /\ commands = <<>> /\ channels = {} /\ sent = {} /\ events = <<>> /\ checked = NoRequest
      /\ outcome = [r \in Requests |-> "absent"] /\ tokens = [r \in Requests |-> 0]
      /\ mode = "serve" /\ stage = "unborn"
      /\ stream = [r \in Requests |-> <<>>] /\ received = [r \in Requests |-> <<>>]
    BY DEF Init, Fresh, Engine!Init
<1>3. \A r \in Requests : Stream(r) = <<>>
    BY <1>2 DEF Stream
<1>4. SubmissionsFresh
    BY <1>2, <1>3 DEF SubmissionsFresh
<1>5. ChannelsTrue /\ StagesTrue /\ EventsTrue
    BY <1>2 DEF ChannelsTrue, StagesTrue, EventsTrue
<1>6. StreamsTrue
    BY <1>2, <1>3, RunnerAssumption DEF StreamsTrue
<1>7. ClosedInTime
    BY <1>2 DEF ClosedInTime
<1>8. QED
    BY <1>1, <1>4, <1>5, <1>6, <1>7 DEF IInv

\* The worker keeps it.
LEMMA WorkerKeeps ==
    ASSUME IInv, WorkerStep
    PROVE  IInv'
<1>1. ChannelsTrue' /\ StagesTrue' /\ EventsTrue' /\ StreamsTrue' /\ ClosedInTime'
    <2>1. ASSUME NEW r \in Requests, ProcessSubmit(r) \/ RejectSubmit(r)
          PROVE  ChannelsTrue' /\ StagesTrue' /\ EventsTrue' /\ StreamsTrue' /\ ClosedInTime'
        BY <2>1, SubmissionsKeep
    <2>2. ASSUME NEW r \in Requests, ProcessCancel(r) \/ RejectCancel(r) \/ CheckFuture(r)
          PROVE  ChannelsTrue' /\ StagesTrue' /\ EventsTrue' /\ StreamsTrue' /\ ClosedInTime'
        BY <2>2, OthersKeep
    <2>3. ASSUME NEW r \in Requests, EngineStep(r)
          PROVE  ChannelsTrue' /\ StagesTrue' /\ EventsTrue' /\ StreamsTrue' /\ ClosedInTime'
        BY <2>3, EngineStepKeeps
    <2>4. ASSUME NEW r \in Requests, PublishToken(r)
          PROVE  ChannelsTrue' /\ StagesTrue' /\ EventsTrue' /\ StreamsTrue' /\ ClosedInTime'
        BY <2>4, PublishTokenKeeps
    <2>5. ASSUME NEW r \in Requests, PublishTerminal(r)
          PROVE  ChannelsTrue' /\ StagesTrue' /\ EventsTrue' /\ StreamsTrue' /\ ClosedInTime'
        BY <2>5, PublishTerminalKeeps
    <2>6. ASSUME NEW r \in Requests, FailChannel(r)
          PROVE  ChannelsTrue' /\ StagesTrue' /\ EventsTrue' /\ StreamsTrue' /\ ClosedInTime'
        BY <2>6, FailChannelKeeps
    <2>7. QED
        BY <2>1, <2>2, <2>3, <2>4, <2>5, <2>6, OthersKeep, MovesKeep DEF WorkerStep
<1>2. TypeOK' /\ SubmissionsFresh'
    BY WorkerKeepsTypes, WorkerKeepsFresh DEF IInv
<1>3. QED
    BY <1>1, <1>2 DEF IInv

\* Every step keeps it.
LEMMA InvariantKept == IInv /\ [Next]_vars => IInv'
<1> SUFFICES ASSUME IInv, [Next]_vars PROVE IInv'
    OBVIOUS
<1>1. CASE UNCHANGED vars
    <2>1. TypeOK'
        BY TypesKept DEF IInv
    <2>2. UNCHANGED <<commands, future, stream, channels, sent, outcome, tokens, events, served,
                      stage, mode, checked, client, received, starter>>
        BY <1>1 DEF vars, workerVars, engineVars, clientVars, otherVars
    <2>3. \A r : Stream(r)' = Stream(r)
        BY <2>2, QuietStreams
    <2>4. Apart
        BY <2>2, <2>3, StreamTyped DEF Apart, IInv
    <2>5. ChannelsTrue' /\ EventsTrue' /\ StreamsTrue' /\ ClosedInTime'
        BY <2>1, <2>2, <2>4, ApartKeeps
    <2>6. SubmissionsFresh' /\ StagesTrue'
        BY <2>2, <2>3 DEF SubmissionsFresh, StagesTrue, IInv
    <2>7. QED
        BY <2>1, <2>5, <2>6 DEF IInv
<1>2. CASE Next
    BY <1>2, WorkerKeeps, CallersKeep, ClientsKeep DEF Next
<1>3. QED
    BY <1>1, <1>2

\* The streams are faithful, and every channel of a worker that has ended in
\* order is closed.
LEMMA InvariantGives == IInv => StreamsFaithful /\ RunnerConsistent
<1> SUFFICES ASSUME IInv PROVE StreamsFaithful /\ RunnerConsistent
    OBVIOUS
<1> USE DEF IInv
<1>1. Streaming \subseteq Requests
    BY RunnerAssumption
<1>2. ASSUME NEW r \in Streaming, NEW i \in DOMAIN Stream(r)
      PROVE  \/ Stream(r)[i] = <<"token", i>> /\ i <= tokens[r]
             \/ /\ Stream(r)[i][1] \in Terminals /\ i = Len(Stream(r))
                /\ Stream(r)[i][1] = "finished" =>
                       outcome[r] = "finished" /\ Stream(r)[i][2] = i - 1
    <2>1. /\ Stream(r) \in Seq(Events) /\ Len(Stream(r)) \in Nat /\ i \in 1..Len(Stream(r))
          /\ tokens[r] \in Nat
        <3>1. r \in Requests /\ tokens \in [Requests -> Nat]
            BY <1>1 DEF TypeOK
        <3>2. Stream(r) \in Seq(Events)
            BY <3>1, StreamTyped
        <3>3. DOMAIN Stream(r) = 1..Len(Stream(r)) /\ Len(Stream(r)) \in Nat
            BY <3>2
        <3>4. QED
            BY <3>1, <3>2, <3>3
    <2>2. Complete(r, Stream(r)) \/ (GapFree(Stream(r)) /\ Len(Stream(r)) <= tokens[r])
        BY <2>1 DEF StreamsTrue
    <2>3. CASE GapFree(Stream(r)) /\ Len(Stream(r)) <= tokens[r]
        <3>1. Stream(r)[i] = <<"token", i>>
            BY <2>3 DEF GapFree
        <3>2. i <= tokens[r]
            BY <2>1, <2>3
        <3>3. QED
            BY <3>1, <3>2
    <2>4. CASE Complete(r, Stream(r)) /\ i = Len(Stream(r))
        BY <2>4 DEF Complete
    <2>5. CASE Complete(r, Stream(r)) /\ i # Len(Stream(r))
        <3>1. i \in 1..(Len(Stream(r)) - 1) /\ i <= Len(Stream(r)) - 1
            BY <2>1, <2>5
        <3>2. i <= tokens[r]
            BY <2>1, <2>5, <3>1 DEF Complete
        <3>3. QED
            BY <2>5, <3>1, <3>2 DEF Complete
    <2>6. QED
        BY <2>2, <2>3, <2>4, <2>5
<1>3. StreamsFaithful
    BY <1>2 DEF StreamsFaithful
<1>4. ASSUME stage = "dead", NEW r \in channels
      PROVE  /\ future[r] \in Done
             /\ r \in Streaming => \E i \in DOMAIN Stream(r) : Stream(r)[i][1] \in Terminals
    <2>1. Closed(r)
        BY <1>4 DEF ClosedInTime
    <2>2. ASSUME r \in Streaming
          PROVE  \E i \in DOMAIN Stream(r) : Stream(r)[i][1] \in Terminals
        <3>1. Complete(r, Stream(r)) /\ Stream(r) \in Seq(Events)
            BY <1>1, <2>1, <2>2, StreamTyped DEF Closed, StreamsTrue
        <3>2. Len(Stream(r)) \in DOMAIN Stream(r)
            BY <3>1 DEF Complete
        <3>3. QED
            BY <3>1, <3>2 DEF Complete
    <2>3. QED
        BY <2>1, <2>2 DEF Closed
<1>5. RunnerConsistent
    BY <1>4 DEF RunnerConsistent, ChannelsCompleted
<1>6. QED
    BY <1>3, <1>5

\* The invariant holds of every execution.
THEOREM RunnerInvariant == Spec => []IInv
<1>1. QED
    BY InvariantAtInit, InvariantKept, PTL DEF Spec

\* For any clients, buffers, queue sizes and failures, what a stream's reader
\* gets is a gap-free prefix of the tokens and one terminal event at most, which
\* says "finished" only if no token is missing (_publish_token, _put_terminal,
\* _close_terminal_channel).
THEOREM StreamsAlwaysFaithful == Spec => []StreamsFaithful
<1>1. QED
    BY RunnerInvariant, InvariantGives, PTL

\* The runner's variables stay in range, and a worker that has ended in order
\* has answered every request that it had accepted, on its future and in its
\* stream (_owner_main, _fail_worker, _complete_channel).
THEOREM RunnerAlwaysConsistent == Spec => []RunnerConsistent
<1>1. QED
    BY RunnerInvariant, InvariantGives, PTL
=============================================================================
