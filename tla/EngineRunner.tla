----------------------------- MODULE EngineRunner -----------------------------
(***************************************************************************)
(* miniGPT's EngineRunner (src/minigpt/engine_runner.py): one worker thread *)
(* owns the engine, and clients reach it through a bounded command queue.   *)
(* Each request has a future for its result and, if it streams, a bounded   *)
(* queue of events.                                                         *)
(*                                                                          *)
(* Five kinds of actors interleave: the worker, a client per request (the   *)
(* thread that submits it and the HTTP handler that waits for it), an       *)
(* observer that asks for metrics or an inspection, and the callers of      *)
(* start and shutdown.  What one actor reads before and uses after another  *)
(* may have moved is a step of its own: the state before a command is       *)
(* queued, and done() before a future is completed.                         *)
(*                                                                          *)
(* The engine is its promise, RequestLifecycle; it may refuse a request,    *)
(* and its tick may raise.                                                  *)
(***************************************************************************)
EXTENDS Integers, Sequences, FiniteSets

CONSTANTS
    Requests,    \* request ids, all different (uuid4)
    Streaming,   \* those with a stream
    Leaving,     \* those whose client may stop waiting
    MaxNew,      \* MaxNew[r]: max_new_tokens; requests without output are left out
    QueueSize,   \* command_queue_size
    Buffer,      \* stream_buffer_size
    EngineRaises, \* whether a tick may raise
    NoRequest

ASSUME RunnerAssumption ==
    /\ IsFiniteSet(Requests) /\ NoRequest \notin Requests
    /\ Streaming \subseteq Requests /\ Leaving \subseteq Requests
    /\ MaxNew \in [Requests -> Nat \ {0}]
    /\ QueueSize \in Nat \ {0} /\ Buffer \in Nat \ {0}
    /\ EngineRaises \in BOOLEAN

VARIABLES
    state,     \* _state
    commands,  \* _commands
    future,    \* the future of each request
    stream,    \* the stream queue of each request
    channels,  \* the keys of _channels
    sent,      \* those with stream_terminal_sent
    outcome, tokens,  \* the engine's requests
    pending,   \* the engine's requested cancellations
    events,    \* the engine's events from _engine_event_cursor on
    served,    \* who has had a turn in this tick
    stage,     \* where the worker is
    mode,      \* why: it serves, shuts down, or fails
    checked,   \* whose future the worker has found not done
    client,    \* where the client of each request is
    received,  \* what the reader of each stream has read
    starter,   \* where the caller of start is
    observer,  \* where the observer is
    observed,  \* the future of its command
    shutdown,  \* where the caller of shutdown is
    acked      \* its acknowledgement

engineVars == <<outcome, tokens, pending, events, served>>
workerVars == <<channels, sent, engineVars, stage, mode, checked>>
clientVars == <<client, received>>
observerVars == <<observer, observed>>
shutdownVars == <<shutdown, acked>>
otherVars == <<starter, observerVars, shutdownVars>>
vars == <<state, commands, future, stream, workerVars, clientVars, otherVars>>

Engine == INSTANCE RequestLifecycle

Open == {r \in Requests : outcome[r] = "open"}
Done == {"cancelled", "result", "error"}

\* Nothing has been asked of the runner.
Fresh ==
    /\ mode = "serve"
    /\ commands = <<>> /\ channels = {} /\ sent = {}
    /\ future = [r \in Requests |-> "none"]
    /\ stream = [r \in Requests |-> <<>>]
    /\ Engine!Init
    /\ pending = {} /\ events = <<>> /\ served = {} /\ checked = NoRequest
    /\ received = [r \in Requests |-> <<>>]
    /\ observed = "none"
    /\ shutdown = "none" /\ acked = FALSE

\* There is no thread before start().
Init ==
    /\ Fresh
    /\ state = "new" /\ stage = "unborn" /\ starter = "none"
    /\ client = [r \in Requests |-> "new"] /\ observer = "new"

-----------------------------------------------------------------------------
\* Queues.

SubmitCommand(r) == <<"submit", r>>
CancelCommand(r) == <<"cancel", r>>
ShutdownCommand == <<"shutdown", NoRequest>>

HasRoom == Len(commands) < QueueSize
Enqueue(c) == HasRoom /\ commands' = Append(commands, c)

\* Mutant: no room is kept for the terminal event.
StreamSizeTight == Buffer
StreamSize == Buffer + 1

\* A terminal event displaces the oldest event of a full stream.
WithTerminal(q, e) == IF Len(q) < StreamSize THEN Append(q, e) ELSE Append(Tail(q), e)

\* The stream of r with a last event, if it has a stream that has not ended.
Ended(r, e) == IF r \in Streaming \ sent THEN [stream EXCEPT ![r] = WithTerminal(@, e)]
               ELSE stream
Ends(r) == IF r \in Streaming THEN sent \cup {r} ELSE sent

-----------------------------------------------------------------------------
\* Clients.

\* submit(), first half: the state is tested ...
CheckRunning(r) ==
    /\ client[r] = "new"
    /\ client' = [client EXCEPT ![r] = IF state = "running" THEN "checked" ELSE "refused"]
    /\ UNCHANGED <<state, commands, future, stream, workerVars, received, otherVars>>

\* ... second half: and the command is queued later, or refused.
Submit(r) ==
    /\ client[r] = "checked"
    /\ \/ /\ Enqueue(SubmitCommand(r))
          /\ future' = [future EXCEPT ![r] = "pending"]
          /\ client' = [client EXCEPT ![r] = "waiting"]
       \/ /\ ~HasRoom
          /\ client' = [client EXCEPT ![r] = "refused"]
          /\ UNCHANGED <<commands, future>>
    /\ UNCHANGED <<state, stream, workerVars, received, otherVars>>

\* A plain request is answered by its future.
Answer(r) ==
    /\ client[r] = "waiting" /\ r \notin Streaming /\ future[r] \in {"result", "error"}
    /\ client' = [client EXCEPT ![r] = "answered"]
    /\ UNCHANGED <<state, commands, future, stream, workerVars, received, otherVars>>

Terminals == {"finished", "cancelled", "failed", "backpressure"}

\* A streaming request is read until its terminal event, and cancelled if that
\* comes before its result.
Read(r) ==
    LET e == Head(stream[r]) IN
    /\ client[r] = "waiting" /\ stream[r] # <<>>
    /\ stream' = [stream EXCEPT ![r] = Tail(@)]
    /\ received' = [received EXCEPT ![r] = Append(@, e)]
    /\ client' = [client EXCEPT ![r] =
                     IF e[1] \notin Terminals THEN "waiting"
                     ELSE IF e[1] # "finished" /\ future[r] \notin Done THEN "leaving"
                     ELSE "answered"]
    /\ UNCHANGED <<state, commands, future, workerVars, otherVars>>

\* A client disconnects or meets its deadline: one that waits for the future
\* cancels it, and either asks the runner to cancel the request.
Leave(r) ==
    /\ client[r] = "waiting" /\ r \in Leaving /\ future[r] = "pending"
    /\ future' = [future EXCEPT ![r] = IF r \in Streaming THEN @ ELSE "cancelled"]
    /\ client' = [client EXCEPT ![r] = "leaving"]
    /\ UNCHANGED <<state, commands, stream, workerVars, received, otherVars>>

\* cancel(): waits for room, and gives up after a second.
SendCancel(r) ==
    /\ client[r] = "leaving"
    /\ \/ state \in {"running", "stopping"} /\ Enqueue(CancelCommand(r))
       \/ state \notin {"running", "stopping"} /\ UNCHANGED commands
       \/ ~HasRoom /\ UNCHANGED commands
    /\ client' = [client EXCEPT ![r] = "gone"]
    /\ UNCHANGED <<state, future, stream, workerVars, received, otherVars>>

-----------------------------------------------------------------------------
\* start(), by one caller.

Start ==
    /\ starter = "none"
    /\ \/ state = "new" /\ starter' = "waiting" /\ stage' = "born"
       \/ state # "new" /\ starter' = "refused" /\ UNCHANGED stage
    /\ UNCHANGED <<state, commands, future, stream, channels, sent, engineVars, mode, checked,
                   clientVars, observerVars, shutdownVars>>

\* The worker has set _started, whatever became of it since.
StartReturns ==
    /\ starter = "waiting" /\ stage # "born"
    /\ starter' = IF state = "running" THEN "returned" ELSE "refused"
    /\ UNCHANGED <<state, commands, future, stream, workerVars, clientVars, observerVars,
                   shutdownVars>>

StartTimesOut ==
    /\ starter = "waiting" /\ stage = "born"
    /\ starter' = "timeout"
    /\ UNCHANGED <<state, commands, future, stream, workerVars, clientVars, observerVars,
                   shutdownVars>>

-----------------------------------------------------------------------------
\* metrics() and inspect(): they test the state, queue a command, and wait.

Kinds == {"metrics", "inspect"}

CheckObservable ==
    /\ observer = "new"
    /\ observer' = IF state = "running" THEN "checked" ELSE "refused"
    /\ UNCHANGED <<state, commands, future, stream, workerVars, clientVars, starter, observed,
                   shutdownVars>>

Observe ==
    /\ observer = "checked"
    /\ \/ \E kind \in Kinds :
             Enqueue(<<kind, NoRequest>>) /\ observer' = kind /\ observed' = "pending"
       \/ /\ ~HasRoom /\ observer' = "refused"
          /\ UNCHANGED <<commands, observed>>
    /\ UNCHANGED <<state, future, stream, workerVars, clientVars, starter, shutdownVars>>

Observed ==
    /\ observer \in Kinds /\ observed \in {"result", "error"} /\ observer' = "answered"
    /\ UNCHANGED <<state, commands, future, stream, workerVars, clientVars, starter, observed,
                   shutdownVars>>

\* A timeout: inspect() cancels its future, unless the owner runs the call.
StopObserving ==
    /\ observer \in Kinds /\ observed \in {"pending", "running"} /\ observer' = "gone"
    /\ observed' = IF observer = "inspect" /\ observed = "pending" THEN "cancelled" ELSE observed
    /\ UNCHANGED <<state, commands, future, stream, workerVars, clientVars, starter, shutdownVars>>

-----------------------------------------------------------------------------
\* shutdown(), by one caller, without its timeouts.

\* Before the worker has said that it runs there is nothing to wait for.
BeginShutdown ==
    /\ shutdown = "none"
    /\ \/ state \in {"new", "stopped"} /\ shutdown' = "skipped" /\ state' = "stopped"
       \/ state = "failed" /\ shutdown' = "join" /\ UNCHANGED state
       \/ state \in {"running", "stopping"} /\ shutdown' = "ask" /\ state' = "stopping"
    /\ UNCHANGED <<commands, future, stream, workerVars, clientVars, starter, observerVars, acked>>

\* The worker may end between this test and the command.
TestAlive ==
    /\ shutdown = "ask"
    /\ shutdown' = IF state = "stopping" /\ stage \notin {"dead", "crashed"}
                   THEN "put" ELSE "join"
    /\ UNCHANGED <<state, commands, future, stream, workerVars, clientVars, starter, observerVars, acked>>

AskShutdown ==
    /\ shutdown = "put" /\ Enqueue(ShutdownCommand) /\ shutdown' = "ack"
    /\ UNCHANGED <<state, future, stream, workerVars, clientVars, starter, observerVars, acked>>

AwaitAck ==
    /\ shutdown = "ack" /\ acked /\ shutdown' = "join"
    /\ UNCHANGED <<state, commands, future, stream, workerVars, clientVars, starter, observerVars, acked>>

JoinWorker ==
    /\ shutdown = "join" /\ stage \in {"dead", "crashed"} /\ shutdown' = "returned"
    /\ UNCHANGED <<state, commands, future, stream, workerVars, clientVars, starter, observerVars, acked>>

-----------------------------------------------------------------------------
\* The worker's first steps: it runs, whatever the state is by then.
WorkerBegins ==
    /\ stage = "born" /\ stage' = "drain" /\ state' = "running"
    /\ UNCHANGED <<commands, future, stream, channels, sent, engineVars, mode, checked,
                   clientVars, otherVars>>

\* The worker between ticks: _drain_commands, or a blocking get when idle.

Failing(next) ==
    /\ mode # "fail" /\ mode' = "fail" /\ stage' = next
    /\ pending' = {} /\ events' = <<>> /\ served' = {} /\ checked' = NoRequest
    /\ UNCHANGED <<outcome, tokens>>

\* Mutant: the channels are forgotten.
RaiseQuietly == Failing("reject")
\* Any exception of the worker's loop: the engine is not used again.
Raise == Failing("fail")

\* Mutant: shutdown does not wait for its cancellations to be applied.
IsIdleAtStop == Open = {} \/ mode = "stop"
IsIdle == Open = {}

NextCommand(c) == /\ commands # <<>> /\ Head(commands) = c
                  /\ commands' = Tail(commands)

\* A future that was cancelled cannot be completed: set_exception raises.
\* A request that is refused for the state, and not by the engine, gets no
\* terminal event in its stream.
ProcessSubmit(r) ==
    /\ stage = "drain" /\ NextCommand(SubmitCommand(r))
    /\ \/ /\ state = "running"
          /\ Engine!Submit(r)
          /\ channels' = channels \cup {r}
          /\ UNCHANGED <<future, stream, pending, events, served, stage, mode, checked>>
       \/ /\ future[r] # "cancelled"
          /\ future' = [future EXCEPT ![r] = "error"]
          /\ stream' = IF state = "running" THEN Ended(r, <<"failed", 0>>) ELSE stream
          /\ UNCHANGED <<channels, engineVars, stage, mode, checked>>
       \/ /\ future[r] = "cancelled"
          /\ Raise /\ UNCHANGED <<channels, future, stream>>
    /\ UNCHANGED <<state, sent, clientVars, otherVars>>

\* The engine ignores unknown and ended requests.
CancelInEngine(S) == pending' = pending \cup (S \cap Open)

ProcessCancel(r) ==
    /\ stage = "drain" /\ NextCommand(CancelCommand(r))
    /\ CancelInEngine({r})
    /\ UNCHANGED <<state, future, stream, channels, sent, outcome, tokens, events, served,
                   stage, mode, checked, clientVars, otherVars>>

\* A metrics command is answered, also one that nobody waits for.
ProcessMetrics ==
    /\ stage = "drain" /\ NextCommand(<<"metrics", NoRequest>>)
    /\ observed' = "result"
    /\ UNCHANGED <<state, future, stream, workerVars, clientVars, starter, observer, shutdownVars>>

\* set_running_or_notify_cancel(): from here on it cannot be cancelled ...
BeginInspection ==
    /\ stage = "drain" /\ NextCommand(<<"inspect", NoRequest>>)
    /\ IF observed = "cancelled" THEN UNCHANGED <<stage, observed>>
       ELSE stage' = "inspect" /\ observed' = "running"
    /\ UNCHANGED <<state, future, stream, channels, sent, engineVars, mode, checked, clientVars,
                   starter, observer, shutdownVars>>

\* ... and the callable returns or raises.
EndInspection ==
    /\ stage = "inspect" /\ stage' = "drain"
    /\ observed' \in {"result", "error"}
    /\ UNCHANGED <<state, commands, future, stream, channels, sent, engineVars, mode, checked,
                   clientVars, starter, observer, shutdownVars>>

ProcessShutdown ==
    /\ stage = "drain" /\ NextCommand(ShutdownCommand)
    /\ CancelInEngine({r \in channels : future[r] \notin Done})
    /\ stage' = "stop" /\ mode' = "stop"
    /\ UNCHANGED <<state, future, stream, channels, sent, outcome, tokens, events, served,
                   checked, clientVars, otherVars>>

\* A tick when there is work: with the queue drained, or while shutting down.
BeginTick ==
    /\ \/ stage = "drain" /\ commands = <<>>
       \/ stage = "stop"
    /\ ~IsIdle
    /\ stage' = "tick" /\ served' = {}
    /\ UNCHANGED <<state, commands, future, stream, channels, sent, outcome, tokens,
                   pending, events, mode, checked, clientVars, otherVars>>

-----------------------------------------------------------------------------
\* The engine's tick: cancellations first, then at most one token for each
\* request, and at least one event altogether.

\* The events of one step of the engine on r.
Emitted(r) ==
    (IF tokens'[r] > tokens[r] THEN <<<<r, "token", tokens'[r]>>>> ELSE <<>>)
    \o (IF outcome'[r] # "open" THEN <<<<r, outcome'[r], tokens'[r]>>>> ELSE <<>>)

EngineStep(r) ==
    /\ stage = "tick" /\ r \notin served
    /\ \/ Engine!Cancel(r) /\ r \in pending
       \/ (Engine!Token(r) \/ Engine!Fail(r)) /\ pending = {}
    /\ pending' = pending \ {r}
    /\ events' = events \o Emitted(r)
    /\ served' = served \cup {r}
    /\ UNCHANGED <<state, commands, future, stream, channels, sent, stage, mode, checked,
                   clientVars, otherVars>>

EndTick ==
    /\ stage = "tick" /\ pending = {} /\ served # {}
    /\ stage' = "publish"
    /\ UNCHANGED <<state, commands, future, stream, channels, sent, engineVars, mode,
                   checked, clientVars, otherVars>>

TickRaises ==
    /\ EngineRaises /\ stage = "tick" /\ Raise
    /\ UNCHANGED <<state, commands, future, stream, channels, sent, clientVars, otherVars>>

-----------------------------------------------------------------------------
\* _publish_engine_events, one event at a time.

NextEvent(r, kinds) == /\ stage = "publish" /\ events # <<>>
                       /\ Head(events)[1] = r /\ Head(events)[2] \in kinds

IsFull(r) == Len(stream[r]) >= Buffer

\* Tokens after the terminal event are for nobody.
PublishToken(r) ==
    /\ NextEvent(r, {"token"})
    /\ \/ /\ r \notin Streaming \/ r \in sent
          /\ UNCHANGED <<stream, sent, pending>>
       \/ /\ r \in Streaming \ sent /\ ~IsFull(r)
          /\ stream' = [stream EXCEPT ![r] = Append(@, <<"token", Head(events)[3]>>)]
          /\ UNCHANGED <<sent, pending>>
       \/ /\ r \in Streaming \ sent /\ IsFull(r)
          /\ CancelInEngine({r})
          /\ stream' = Ended(r, <<"backpressure", 0>>) /\ sent' = Ends(r)
    /\ events' = Tail(events)
    /\ UNCHANGED <<state, commands, future, channels, outcome, tokens, served, stage, mode,
                   checked, clientVars, otherVars>>

Unfinished(r) == future[r] \notin Done

\* done() is tested here and in _fail_worker, and relied upon a step later.
CheckFuture(r) ==
    /\ \/ NextEvent(r, {"finished", "cancelled", "failed"})
       \/ stage = "fail" /\ r \in channels
    /\ checked = NoRequest /\ Unfinished(r)
    /\ checked' = r
    /\ UNCHANGED <<state, commands, future, stream, channels, sent, engineVars, stage, mode,
                   clientVars, otherVars>>

\* set_result on a future that was cancelled after the test raises.
PublishTerminal(r) ==
    /\ NextEvent(r, {"finished", "cancelled", "failed"})
    /\ checked = r \/ ~Unfinished(r)
    /\ \/ /\ checked = r /\ future[r] = "cancelled"
          /\ Raise /\ UNCHANGED <<future, stream, sent>>
       \/ /\ checked = r => future[r] # "cancelled"
          /\ future' = [future EXCEPT ![r] = IF checked = r THEN "result" ELSE @]
          /\ stream' = Ended(r, <<Head(events)[2], Head(events)[3]>>) /\ sent' = Ends(r)
          /\ events' = Tail(events) /\ checked' = NoRequest
          /\ UNCHANGED <<outcome, tokens, pending, served, stage, mode>>
    /\ UNCHANGED <<state, commands, channels, clientVars, otherVars>>

EndPublish ==
    /\ stage = "publish" /\ events = <<>>
    /\ stage' = IF mode = "stop" THEN "stop" ELSE "drain"
    /\ UNCHANGED <<state, commands, future, stream, channels, sent, engineVars, mode,
                   checked, clientVars, otherVars>>

-----------------------------------------------------------------------------
\* The end of the worker: an orderly one after shutdown, or _fail_worker.

\* An exception in _fail_worker has no handler: the thread ends as it stands.
Crash == /\ mode = "fail" /\ stage' = "crashed"
         /\ UNCHANGED <<engineVars, mode, checked>>

FailChannel(r) ==
    /\ stage = "fail" /\ r \in channels
    /\ checked = r \/ (checked = NoRequest /\ ~Unfinished(r) /\ r \in Streaming \ sent)
    /\ \/ /\ checked = r /\ future[r] = "cancelled"
          /\ Crash /\ UNCHANGED <<future, stream, sent>>
       \/ /\ checked = r => future[r] # "cancelled"
          /\ future' = [future EXCEPT ![r] = IF checked = r THEN "error" ELSE @]
          /\ stream' = Ended(r, <<"failed", 0>>) /\ sent' = Ends(r)
          /\ checked' = NoRequest
          /\ UNCHANGED <<engineVars, stage, mode>>
    /\ UNCHANGED <<state, commands, channels, clientVars, otherVars>>

\* No request is left in the engine, or no channel is left to fail.
BeginReject ==
    /\ \/ stage = "stop" /\ IsIdle
       \/ /\ stage = "fail" /\ checked = NoRequest
          /\ \A r \in channels : ~Unfinished(r) /\ r \notin Streaming \ sent
    /\ stage' = "reject"
    /\ UNCHANGED <<state, commands, future, stream, channels, sent, engineVars, mode,
                   checked, clientVars, otherVars>>

\* _reject_remaining_commands, without a test of the future.
RejectSubmit(r) ==
    /\ stage = "reject" /\ NextCommand(SubmitCommand(r))
    /\ \/ /\ future[r] = "cancelled" /\ (Raise \/ Crash)
          /\ UNCHANGED <<future, stream>>
       \/ /\ future[r] # "cancelled"
          /\ future' = [future EXCEPT ![r] = "error"]
          /\ stream' = Ended(r, <<"failed", 0>>)
          /\ UNCHANGED <<engineVars, stage, mode, checked>>
    /\ UNCHANGED <<state, channels, sent, clientVars, otherVars>>

RejectCancel(r) ==
    /\ stage = "reject" /\ NextCommand(CancelCommand(r))
    /\ UNCHANGED <<state, future, stream, workerVars, clientVars, otherVars>>

RejectShutdown ==
    /\ stage = "reject" /\ NextCommand(ShutdownCommand)
    /\ acked' = TRUE
    /\ UNCHANGED <<state, future, stream, workerVars, clientVars, starter, observerVars, shutdown>>

RejectMetrics ==
    /\ stage = "reject" /\ NextCommand(<<"metrics", NoRequest>>)
    /\ observed' = "error"
    /\ UNCHANGED <<state, future, stream, workerVars, clientVars, starter, observer, shutdownVars>>

\* Here done() is tested first ...
RejectInspection ==
    /\ stage = "reject" /\ NextCommand(<<"inspect", NoRequest>>)
    /\ stage' = IF observed = "cancelled" THEN "reject" ELSE "reject inspection"
    /\ UNCHANGED <<state, future, stream, channels, sent, engineVars, mode, checked, clientVars,
                   otherVars>>

\* ... and set_exception raises if the observer has left in between.
FailInspection ==
    /\ stage = "reject inspection"
    /\ \/ observed = "cancelled" /\ (Raise \/ Crash) /\ UNCHANGED observed
       \/ /\ observed # "cancelled" /\ observed' = "error" /\ stage' = "reject"
          /\ UNCHANGED <<engineVars, mode, checked>>
    /\ UNCHANGED <<state, commands, future, stream, channels, sent, clientVars, starter, observer,
                   shutdownVars>>

\* Mutant: only shutdown commands that are still queued are acknowledged.
AcknowledgedInQueue == acked
Acknowledged == acked \/ mode = "stop"

\* The queue is found empty, and what is queued from now on stays there.
EndReject ==
    /\ stage = "reject" /\ commands = <<>>
    /\ stage' = "close"
    /\ acked' = Acknowledged
    /\ UNCHANGED <<state, commands, future, stream, channels, sent, engineVars, mode,
                   checked, clientVars, starter, observerVars, shutdown>>

Close ==
    /\ stage = "close" /\ stage' = "dead"
    /\ state' = IF mode = "stop" THEN "stopped" ELSE "failed"
    /\ UNCHANGED <<commands, future, stream, channels, sent, engineVars, mode, checked,
                   clientVars, otherVars>>

-----------------------------------------------------------------------------
ClientStep(r) ==
    CheckRunning(r) \/ Submit(r) \/ Answer(r) \/ Read(r) \/ Leave(r) \/ SendCancel(r)

ObserverStep == CheckObservable \/ Observe \/ Observed \/ StopObserving

StartStep == Start \/ StartReturns \/ StartTimesOut

ShutdownStep == BeginShutdown \/ TestAlive \/ AskShutdown \/ AwaitAck \/ JoinWorker

WorkerStep ==
    \/ \E r \in Requests :
          \/ ProcessSubmit(r) \/ ProcessCancel(r)
          \/ EngineStep(r)
          \/ PublishToken(r) \/ CheckFuture(r) \/ PublishTerminal(r)
          \/ FailChannel(r) \/ RejectSubmit(r) \/ RejectCancel(r)
    \/ WorkerBegins
    \/ ProcessMetrics \/ BeginInspection \/ EndInspection
    \/ RejectMetrics \/ RejectInspection \/ FailInspection
    \/ ProcessShutdown \/ BeginTick \/ EndTick \/ TickRaises \/ EndPublish
    \/ BeginReject \/ RejectShutdown \/ EndReject \/ Close

Next == WorkerStep \/ StartStep \/ ObserverStep \/ ShutdownStep \/ \E r \in Requests : ClientStep(r)

\* The worker's loop goes on whatever clients do, and a caller of shutdown that
\* has begun goes on.  Nobody has to start, submit, read, observe, leave or shut
\* down.
Fairness == /\ WF_vars(WorkerStep)
            /\ WF_vars(TestAlive \/ AskShutdown \/ AwaitAck \/ JoinWorker)

Spec == Init /\ [][Next]_vars /\ Fairness

-----------------------------------------------------------------------------
Events == ({"token"} \cup Terminals) \X Nat

TypeOK ==
    /\ state \in {"new", "running", "stopping", "stopped", "failed"}
    /\ stage \in {"unborn", "born", "drain", "inspect", "tick", "publish", "stop", "fail",
                  "reject", "reject inspection", "close", "dead", "crashed"}
    /\ mode \in {"serve", "stop", "fail"}
    /\ commands \in Seq({"submit", "cancel", "metrics", "inspect", "shutdown"} \X (Requests \cup {NoRequest}))
    /\ Len(commands) <= QueueSize
    /\ future \in [Requests -> {"none", "pending"} \cup Done]
    /\ stream \in [Requests -> Seq(Events)] /\ received \in [Requests -> Seq(Events)]
    /\ \A r \in Requests : Len(stream[r]) <= StreamSize
    /\ channels \subseteq Requests /\ sent \subseteq Streaming
    /\ tokens \in [Requests -> Nat]
    /\ outcome \in [Requests -> {"absent", "open", "finished", "cancelled", "failed"}]
    /\ pending \subseteq Open /\ served \subseteq Requests
    /\ events \in Seq(Requests \X {"token", "finished", "cancelled", "failed"} \X Nat)
    /\ checked \in Requests \cup {NoRequest}
    /\ client \in [Requests -> {"new", "checked", "refused", "waiting", "leaving",
                                "answered", "gone"}]
    /\ starter \in {"none", "waiting", "returned", "refused", "timeout"}
    /\ observer \in Kinds \cup {"new", "checked", "refused", "answered", "gone"}
    /\ observed \in {"none", "pending", "running"} \cup Done
    /\ shutdown \in {"none", "skipped", "ask", "put", "ack", "join", "returned"}
    /\ acked \in BOOLEAN

\* What a reader has read, followed by what is in its stream.
Stream(r) == received[r] \o stream[r]

\* "Concatenating token-chunk text is identical to the non-streaming text": a
\* stream is a gap-free prefix of the tokens, at most one terminal event ends
\* it, and if that is "finished" then no token is missing, however slowly the
\* stream is read.
StreamsFaithful ==
    \A r \in Streaming : \A i \in DOMAIN Stream(r) :
        LET e == Stream(r)[i] IN
        \/ e = <<"token", i>> /\ i <= tokens[r]
        \/ /\ e[1] \in Terminals /\ i = Len(Stream(r))
           /\ e[1] = "finished" => outcome[r] = "finished" /\ e[2] = i - 1

\* "Completes every channel": a worker that has ended in order, by shutdown or
\* failure, has answered every request it had accepted, on the future and on
\* the stream.
ChannelsCompleted ==
    stage = "dead" =>
        \A r \in channels :
            /\ future[r] \in Done
            /\ r \in Streaming =>
                  \E i \in DOMAIN Stream(r) : Stream(r)[i][1] \in Terminals

\* The runner's variables are in range and every channel is completed.
RunnerConsistent == TypeOK /\ ChannelsCompleted

\* An accepted request is answered, whatever its reader, the other clients and
\* the shutdown do, unless the failure handler itself fails.
AcceptedAnswered ==
    \A r \in Requests : r \in channels ~> (future[r] \in Done \/ stage = "crashed")

\* Graceful shutdown returns, unless the worker fails.
ShutdownReturns ==
    shutdown = "ask" ~> (shutdown = "returned" \/ mode = "fail")

\* "A disconnect only affects the request concerned": an accepted request whose
\* client stays is not failed by the clients who leave, even without a shutdown.
DisconnectIsLocal ==
    shutdown = "none" =>
    \A r \in channels : client[r] \notin {"leaving", "gone"} => future[r] # "error"

\* "Graceful shutdown ... completes every channel": nobody who has submitted a
\* request is left waiting by a worker that has stopped.
ShutdownAnswersAll ==
    state = "stopped" =>
        \A r \in Requests :
            /\ future[r] # "pending"
            /\ client[r] = "waiting" /\ r \in Streaming =>
                  \E i \in DOMAIN stream[r] : stream[r][i][1] \in Terminals

\* "A queued stale observation is skipped without a race": an observer whose
\* command is still in the queue when it stops waiting does not fail the worker.
ObserversHarmless ==
    (~EngineRaises /\ Leaving = {}) => mode # "fail"

\* "Cancel all live work ... and join the owner": after a shutdown that returned
\* there is no worker that serves, wherever start() was.
ShutdownLasts ==
    shutdown \in {"skipped", "returned"} => state # "running"
=============================================================================
