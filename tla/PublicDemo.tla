------------------------------ MODULE PublicDemo ------------------------------
(***************************************************************************)
(* The request handlers of public_demo.py between the capacity gate, the   *)
(* global quota and the engine runner.  A request is read, waits for a     *)
(* slot, reserves its tokens, submits its work, and is answered, streamed, *)
(* timed out, disconnected or cancelled; whatever happens it must give     *)
(* back exactly the slot and the reservation it has.                       *)
(*                                                                         *)
(* Handlers share one event loop and interleave only where they await:     *)
(* "loop" is the handler that runs on without awaiting, if any.  The       *)
(* runner is what its clients see of it: a bounded queue of commands, a    *)
(* worker that empties the queue between two ticks, tokens, streams and    *)
(* terminal states (EngineRunner models its inside).  Everything happens   *)
(* within one hour, so no record of the quota expires (GlobalQuota has     *)
(* the clock).                                                             *)
(***************************************************************************)
EXTENDS Integers, Sequences, FiniteSets, Functions

CONSTANTS
  Requests,
  Workloads,          \* what the requests may ask for, endpoint and max_tokens of
                      \* each, and what may fail in a tick: a row, or the tick itself
  MaxConcurrent,      \* policy.max_concurrent_requests
  MaxQueueSize,       \* policy.max_queue_size
  RequestsPerHour,    \* policy.global_requests_per_hour
  TokensPerDay,       \* policy.global_generated_tokens_per_day
  BranchCount,        \* branches of a story; 3 in the code
  CommandQueueSize,   \* runtime.command_queue_size
  StreamBufferSize    \* runtime.stream_buffer_size

StoryKinds == {"story", "storyStream"}
StreamKinds == {"stream", "storyStream"}
Kinds == {"plain", "stream", "predict"} \cup StoryKinds \cup {"absent"}

\* validate_policy relates the command queue to the gate.
MinimumCommands == MaxConcurrent + MaxQueueSize + 2

ASSUME PolicyAssumption ==
  /\ IsFiniteSet(Requests)
  /\ MaxConcurrent \in Nat \ {0}
  /\ MaxQueueSize \in Nat
  /\ RequestsPerHour \in Nat \ {0}
  /\ TokensPerDay \in Nat \ {0}
  /\ Workloads \subseteq [kind : [Requests -> Kinds],
                           maxTokens : [Requests -> 1..TokensPerDay],
                           failures : SUBSET {"row", "tick"}]
  /\ BranchCount \in Nat \ {0}
  /\ StreamBufferSize \in Nat \ {0}
  /\ CommandQueueSize >= MinimumCommands

VARIABLES
  workload,                     \* what the requests ask for and what may fail, chosen once
  gate, holding, interrupted,   \* the capacity gate
  quota,                        \* the global quota
  charge,                       \* what each lease was settled for, -1 before
  pc,                           \* where each handler is
  loop,                         \* the handlers that hold the event loop: one or none
  recorded,                     \* what each request told the metrics
  turn,                         \* which of its works a handler is cancelling
  calls,                        \* the cancel call of each work, in its thread
  inspection,                   \* the inspection of each request, in its thread
  commands,                     \* the runner's command queue
  worker,                       \* draining the queue, ticking, or failed
  engine,                       \* status and tokens of each work
  streams,                      \* what each stream holds and its reader has seen
  counted                       \* generated_tokens of a stream's lifecycle

gateVars == <<gate, holding, interrupted>>
quotaVars == <<quota, charge>>
handlerVars == <<pc, loop, recorded, turn, counted>>
threadVars == <<calls, inspection>>
runnerVars == <<commands, worker, engine, streams>>
vars == <<workload, gateVars, quotaVars, handlerVars, threadVars, runnerVars>>

Kind(r) == workload.kind[r]
MaxTokens(r) == workload.maxTokens[r]

\* Units of engine work: a completion is one, a story is one per branch.
Works == Requests \X (1..BranchCount)
WorksOf(r) ==
  CASE Kind(r) \in {"predict", "absent"} -> {}
    [] Kind(r) \in StoryKinds -> {r} \X (1..BranchCount)
    [] OTHER -> {<<r, 1>>}

Reservation(r) ==
  IF Kind(r) = "predict" THEN 0 ELSE MaxTokens(r) * Cardinality(WorksOf(r))

\* What the works of a request generated so far.
Generated(r) == SumFunction([w \in WorksOf(r) |-> engine[w].tokens])

Gate == INSTANCE CapacityGate WITH Tasks <- Requests, Maximum <- MaxConcurrent

\* The quota's history, as far as one hour goes: every accepted request is in
\* the deque, every settlement in charge.
Quota == INSTANCE GlobalQuota WITH
  Maxima <- 0..TokensPerDay,
  Hour <- 1, Day <- 2, LastTick <- 0, now <- 0,
  lease <- [r \in Requests |-> IF r \in DOMAIN quota.reserved THEN "open"
                               ELSE IF charge[r] = -1 THEN "none" ELSE "final"],
  accepted <- {quota.requests[i] : i \in DOMAIN quota.requests},
  spent <- {[id |-> r, at |-> 0, count |-> charge[r]] : r \in {q \in Requests : charge[q] >= 0}}

-----------------------------------------------------------------------------
(* The runner as its clients see it *)

NoWork == [status |-> "none", tokens |-> 0]
NoStream == [emitted |-> 0, seen |-> 0, terminal |-> "none", ended |-> FALSE]

Ended == {"finished", "cancelled", "failed", "lost"}
Alive == {w \in Works : engine[w].status = "live"}
Unended == {w \in Works : engine[w].status \in {"queued", "live"}}

HasRoom == Len(commands) < CommandQueueSize

Streamed(w) == Kind(w[1]) \in StreamKinds

\* A terminal event closes a stream unless backpressure closed it before.
Closed(stream, terminal) ==
  IF stream.terminal = "none" THEN [stream EXCEPT !.terminal = terminal] ELSE stream

\* A work ends: its future gets the result, its stream the terminal event.
End(w, status, tokens) ==
  /\ engine' = [engine EXCEPT ![w] = [status |-> status, tokens |-> tokens]]
  /\ streams' = [streams EXCEPT ![w] = IF Streamed(w) THEN Closed(@, status) ELSE @]

Init ==
  /\ workload \in Workloads
  /\ Gate!Init
  /\ quota = Quota!NewQuota
  /\ charge = [r \in Requests |-> -1]
  /\ pc = [r \in Requests |-> "new"]
  /\ loop = {}
  /\ recorded = [r \in Requests |-> <<>>]
  /\ turn = [r \in Requests |-> 0]
  /\ calls = [w \in Works |-> "none"]
  /\ inspection = [r \in Requests |-> "none"]
  /\ commands = <<>>
  /\ worker = "draining"
  /\ engine = [w \in Works |-> NoWork]
  /\ streams = [w \in Works |-> NoStream]
  /\ counted = [r \in Requests |-> 0]

\* The worker takes the oldest command.
ProcessSubmit(w) ==
  /\ engine' = [engine EXCEPT ![w].status = "live"]
  /\ UNCHANGED <<threadVars, streams>>

ProcessCancel(w) ==
  /\ IF engine[w].status = "live"
     THEN End(w, "cancelled", engine[w].tokens)
     ELSE UNCHANGED <<engine, streams>>
  /\ calls' = [calls EXCEPT ![w] = IF @ = "waiting" THEN "accepted" ELSE @]
  /\ UNCHANGED inspection

\* An inspection whose caller has timed out is skipped.
ProcessInspection(r) ==
  /\ inspection' = [inspection EXCEPT ![r] = IF @ = "waiting" THEN "answered" ELSE @]
  /\ UNCHANGED <<calls, engine, streams>>

TakeCommand ==
  /\ worker = "draining"
  /\ commands # <<>>
  /\ LET command == Head(commands)
     IN  CASE command.op = "submit" -> ProcessSubmit(command.of)
           [] command.op = "cancel" -> ProcessCancel(command.of)
           [] command.op = "inspect" -> ProcessInspection(command.of)
  /\ commands' = Tail(commands)
  /\ UNCHANGED <<gateVars, quotaVars, handlerVars, worker>>

\* A tick begins when the queue is empty; commands that arrive during it wait.
BeginTick ==
  /\ worker = "draining"
  /\ commands = <<>>
  /\ Alive # {}
  /\ worker' = "ticking"
  /\ UNCHANGED <<gateVars, quotaVars, handlerVars, threadVars, commands, engine, streams>>

\* A token for a full stream ends the work instead of being delivered.
Overflows(w) ==
  /\ Streamed(w)
  /\ streams[w].emitted - streams[w].seen >= StreamBufferSize

\* A work makes a token: the last one at its maximum or, in a story, at EOS.
MakeToken(w) ==
  LET tokens == engine[w].tokens + 1
      more == [engine[w] EXCEPT !.tokens = tokens]
      delivered == [streams[w] EXCEPT !.emitted = @ + 1]
  IN  IF Overflows(w)
      THEN /\ engine' = [engine EXCEPT ![w] = [status |-> "cancelled", tokens |-> tokens]]
           /\ streams' = [streams EXCEPT ![w] = Closed(@, "backpressure")]
      ELSE \E last \in IF tokens = MaxTokens(w[1]) THEN {TRUE}
                       ELSE IF Kind(w[1]) \in StoryKinds THEN BOOLEAN ELSE {FALSE} :
             /\ engine' = [engine EXCEPT ![w] = IF last THEN [more EXCEPT !.status = "finished"]
                                               ELSE more]
             /\ streams' = IF ~Streamed(w) THEN streams
                           ELSE [streams EXCEPT ![w] = IF last THEN Closed(delivered, "finished")
                                                       ELSE delivered]

\* One row of the tick: a token, or a failure of this request alone.
EndTick ==
  /\ worker = "ticking"
  /\ worker' = "draining"
  /\ \E w \in Alive :
       \/ MakeToken(w)
       \/ "row" \in workload.failures /\ End(w, "failed", engine[w].tokens)
  /\ UNCHANGED <<gateVars, quotaVars, handlerVars, threadVars, commands>>

\* The tick raises: every future and stream fails, every command is refused.
WorkerFails ==
  /\ "tick" \in workload.failures
  /\ worker = "ticking"
  /\ worker' = "failed"
  /\ engine' = [w \in Works |-> IF w \in Unended THEN [engine[w] EXCEPT !.status = "lost"]
                                ELSE engine[w]]
  /\ streams' = [w \in Works |-> IF w \in Unended /\ Streamed(w) THEN Closed(streams[w], "lost")
                                 ELSE streams[w]]
  /\ calls' = [w \in Works |-> IF calls[w] = "waiting" THEN "accepted" ELSE calls[w]]
  /\ inspection' = [r \in Requests |-> IF inspection[r] = "waiting" THEN "failed"
                                       ELSE inspection[r]]
  /\ commands' = <<>>
  /\ UNCHANGED <<gateVars, quotaVars, handlerVars>>

-----------------------------------------------------------------------------
(* The threads of runner.cancel and runner.inspect.  The cancel call waits *)
(* for room and then for the worker, a second each, and its caller ignores *)
(* that it failed.                                                         *)

PutCancel(w) ==
  /\ calls[w] = "putting"
  /\ worker # "failed"
  /\ HasRoom
  /\ commands' = Append(commands, [op |-> "cancel", of |-> w])
  /\ calls' = [calls EXCEPT ![w] = "waiting"]
  /\ UNCHANGED <<gateVars, quotaVars, handlerVars, inspection, worker, engine, streams>>

CancelGivesUp(w) ==
  /\ \/ calls[w] = "putting" /\ (worker = "failed" \/ ~HasRoom)
     \/ calls[w] = "waiting"
  /\ calls' = [calls EXCEPT ![w] = "gaveUp"]
  /\ UNCHANGED <<gateVars, quotaVars, handlerVars, inspection, runnerVars>>

PutInspection(r) ==
  /\ inspection[r] = "putting"
  /\ IF worker # "failed" /\ HasRoom
     THEN /\ commands' = Append(commands, [op |-> "inspect", of |-> r])
          /\ inspection' = [inspection EXCEPT ![r] = "waiting"]
     ELSE /\ inspection' = [inspection EXCEPT ![r] = "refused"]
          /\ UNCHANGED commands
  /\ UNCHANGED <<gateVars, quotaVars, handlerVars, calls, worker, engine, streams>>

\* The call's own timeout, which cancels the command's future.
InspectionTimesOut(r) ==
  /\ inspection[r] = "waiting"
  /\ inspection' = [inspection EXCEPT ![r] = "failed"]
  /\ UNCHANGED <<gateVars, quotaVars, handlerVars, calls, runnerVars>>

-----------------------------------------------------------------------------
(* The handlers.  A handler that awaits runs again only when the loop is   *)
(* free; one that does not await keeps the loop.                           *)

LoopFree == loop = {}
At(r, place) == pc[r] = place /\ LoopFree
Go(r, place) == pc' = [pc EXCEPT ![r] = place]

\* A request counts once: a lifecycle remembers that it told the metrics.
Record(r, outcome) == recorded' = [recorded EXCEPT ![r] = Append(@, outcome)]
\* Mutant: the lifecycle does not remember.
RecordAgain(r, outcome) == Record(r, outcome)

RecordOnce(r, outcome) ==
  IF recorded[r] = <<>> THEN Record(r, outcome) ELSE UNCHANGED recorded

Waits == UNCHANGED <<threadVars, runnerVars, turn, counted>>

\* The request arrives and its handler starts to read the body.
Arrive(r) ==
  /\ At(r, "new")
  /\ Kind(r) # "absent"
  /\ Go(r, "reading")
  /\ UNCHANGED <<gateVars, quotaVars, loop, recorded>>
  /\ Waits

\* The body is refused, or the deadline, the client or the server ends the
\* reading: the request has nothing yet.
LeaveReading(r) ==
  /\ At(r, "reading")
  /\ \E outcome \in {"rejected", "failed"} : Record(r, outcome)
  /\ Go(r, "done")
  /\ UNCHANGED <<gateVars, quotaVars, loop>>
  /\ Waits

AcquireSlot(r) ==
  /\ At(r, "reading")
  /\ Gate!AcquireNow(r)
  /\ Go(r, "acquired")
  /\ loop' = {r}
  /\ UNCHANGED <<quotaVars, recorded>>
  /\ Waits

WaitForSlot(r) ==
  /\ At(r, "reading")
  /\ Gate!Wait(r)
  /\ Go(r, "queued")
  /\ UNCHANGED <<quotaVars, loop, recorded>>
  /\ Waits

FindLineFull(r) ==
  /\ At(r, "reading")
  /\ ~Gate!Vacant(gate)
  /\ Gate!LineFull(gate)
  /\ Record(r, "rejected")
  /\ Go(r, "done")
  /\ UNCHANGED <<gateVars, quotaVars, loop>>
  /\ Waits

\* The deadline or the server cancels a task that waits for its slot.
InterruptWaiter(r) ==
  /\ At(r, "queued")
  /\ Gate!Interrupt(r)
  /\ UNCHANGED <<quotaVars, pc, loop, recorded>>
  /\ Waits

GetSlot(r) ==
  /\ At(r, "queued")
  /\ Gate!Resume(r)
  /\ Go(r, "acquired")
  /\ loop' = {r}
  /\ UNCHANGED <<quotaVars, recorded>>
  /\ Waits

StopWaiting(r) ==
  /\ At(r, "queued")
  /\ Gate!Withdraw(r)
  /\ Record(r, "failed")
  /\ Go(r, "done")
  /\ UNCHANGED <<quotaVars, loop>>
  /\ Waits

-----------------------------------------------------------------------------
(* What ends a request: its lease is settled or rolled back, then its slot *)
(* is given back, without an await between them.                           *)

SettleLease(r, tokens) ==
  /\ quota' = Quota!Settled(quota, r, tokens, 0)
  /\ charge' = [charge EXCEPT ![r] = tokens]

\* cancel of the lease: RolledBack instead of a charge.
RolledBack == -2

CancelLease(r) ==
  /\ quota' = Quota!RolledBack(quota, r)
  /\ charge' = [charge EXCEPT ![r] = RolledBack]

\* Mutant: the slot is kept.
GiveNothingBack(r) ==
  /\ UNCHANGED gateVars
  /\ Go(r, "done")
  /\ loop' = {}

\* Mutant: the slot goes back to the pool, past those who wait.
GiveBackToPool(r) ==
  /\ gate' = [gate EXCEPT !.active = @ - 1]
  /\ holding' = holding \ {r}
  /\ Go(r, "done")
  /\ loop' = {}
  /\ UNCHANGED interrupted

GiveBack(r) ==
  /\ Gate!Release(r)
  /\ Go(r, "done")
  /\ loop' = {}

\* Quota first, immediately before the work is submitted.
Reserve(r) ==
  /\ pc[r] = "acquired"
  /\ ~Quota!Refused(quota, Reservation(r))
  /\ quota' = Quota!Admitted(quota, r, Reservation(r), 0)
  /\ Go(r, "reserved")
  /\ UNCHANGED <<gateVars, charge, loop, recorded>>
  /\ Waits

FindQuotaFull(r) ==
  /\ pc[r] = "acquired"
  /\ Quota!Refused(quota, Reservation(r))
  /\ Record(r, "rejected")
  /\ GiveBack(r)
  /\ UNCHANGED quotaVars
  /\ Waits

\* An error path that ends before the runner took any work: a completion and
\* an inspection roll their lease back, a story settles it for nothing.
UndoLease(r) ==
  IF Kind(r) \in StoryKinds THEN SettleLease(r, 0) ELSE CancelLease(r)

\* A prompt that cannot be framed is found out only now.
RefuseFraming(r) ==
  /\ pc[r] = "reserved"
  /\ Kind(r) \in StoryKinds \cup {"predict"}
  /\ \A w \in WorksOf(r) : engine[w].status = "none"
  /\ Record(r, "rejected")
  /\ UndoLease(r)
  /\ GiveBack(r)
  /\ Waits

Submitted(r) == {w \in WorksOf(r) : engine[w].status # "none"}

\* The works of a request are submitted in order, and the handler does not
\* await between them.
SubmitNext(r) ==
  /\ pc[r] = "reserved"
  /\ Kind(r) # "predict"
  /\ worker # "failed"
  /\ HasRoom
  /\ LET w == <<r, Cardinality(Submitted(r)) + 1>>
         last == Submitted(r) \cup {w} = WorksOf(r)
     IN  /\ commands' = Append(commands, [op |-> "submit", of |-> w])
         /\ engine' = [engine EXCEPT ![w].status = "queued"]
         /\ loop' = IF last THEN {} ELSE loop
         /\ pc' = IF ~last THEN pc
                  ELSE [pc EXCEPT ![r] = IF Kind(r) \in StreamKinds THEN "streaming" ELSE "waiting"]
  /\ UNCHANGED <<gateVars, quotaVars, recorded, turn, counted, threadVars, worker, streams>>

Refuses == worker = "failed" \/ ~HasRoom

\* The runner is down or its queue is full, and has none of the works.
SubmitRefused(r) ==
  /\ pc[r] = "reserved"
  /\ Kind(r) # "predict"
  /\ Refuses
  /\ Submitted(r) = {}
  /\ Record(r, "rejected")
  /\ UndoLease(r)
  /\ GiveBack(r)
  /\ Waits

StartCancel(r, n) ==
  /\ turn' = [turn EXCEPT ![r] = n]
  /\ calls' = [calls EXCEPT ![<<r, n>>] = "putting"]

\* The runner refuses a branch after it took others: submit_three_branches
\* cancels those it has, on the event loop itself.
BeginRollback(r) ==
  /\ pc[r] = "reserved"
  /\ Kind(r) \in StoryKinds
  /\ Refuses
  /\ Submitted(r) # {}
  /\ Go(r, "rollback")
  /\ StartCancel(r, 1)
  /\ UNCHANGED <<gateVars, quotaVars, loop, recorded, counted, inspection, runnerVars>>

\* Mutant: only the worker's acceptance ends the wait for a cancel call.
CallAccepted(r) == calls[<<r, turn[r]>>] = "accepted"

CallOver(r) == calls[<<r, turn[r]>>] \in {"accepted", "gaveUp"}

\* The next work is cancelled when the call for the one before has returned.
CancelNext(r) ==
  /\ pc[r] = "rollback" \/ At(r, "aborting")
  /\ CallOver(r)
  /\ turn[r] < Cardinality(Submitted(r))
  /\ StartCancel(r, turn[r] + 1)
  /\ UNCHANGED <<gateVars, quotaVars, pc, loop, recorded, counted, inspection, runnerVars>>

EndRollback(r) ==
  /\ pc[r] = "rollback"
  /\ CallOver(r)
  /\ turn[r] = Cardinality(Submitted(r))
  /\ Record(r, "rejected")
  /\ SettleLease(r, 0)
  /\ GiveBack(r)
  /\ Waits

-----------------------------------------------------------------------------
(* Waiting for the result of a completion, or of all branches of a story *)

Statuses(r) == {engine[w].status : w \in WorksOf(r)}

Settlement(r) ==
  IF Kind(r) = "plain" \/ Statuses(r) = {"finished"} THEN Generated(r) ELSE Reservation(r)

\* The future of every work is done.  A completion whose future holds an
\* exception is aborted instead; a story counts it as one failed branch.
Answered(r) ==
  /\ At(r, "waiting")
  /\ Statuses(r) \subseteq Ended
  /\ Kind(r) = "plain" => Statuses(r) # {"lost"}
  /\ Record(r, IF Statuses(r) = {"finished"} THEN "completed" ELSE "failed")
  /\ SettleLease(r, Settlement(r))
  /\ GiveBack(r)
  /\ Waits

\* The deadline, a disconnect, the server or an exception ends the wait.
Abort(r) ==
  /\ At(r, "waiting")
  /\ Go(r, "aborting")
  /\ StartCancel(r, 1)
  /\ UNCHANGED <<gateVars, quotaVars, loop, recorded, counted, inspection, runnerVars>>

\* Mutant: who does not wait for the end does not pay.
AbortFree(r) == 0

\* What an aborted request pays: a completion nothing, a stream the tokens
\* its reader saw, a story everything it reserved, unless it ended first.
AbortPrice(r) ==
  CASE Kind(r) = "plain" -> 0
    [] Kind(r) = "stream" -> counted[r]
    [] Kind(r) = "story" -> Reservation(r)
    [] Kind(r) = "storyStream" ->
         IF recorded[r] = <<"completed">> THEN counted[r] ELSE Reservation(r)

EndAbort(r) ==
  /\ At(r, "aborting")
  /\ CallOver(r)
  /\ turn[r] = Cardinality(WorksOf(r))
  /\ RecordOnce(r, "failed")
  /\ SettleLease(r, AbortPrice(r))
  /\ GiveBack(r)
  /\ Waits

\* The server cancels the task of a completion while it awaits its cancel
\* call: the finally clause runs, and nothing is told to the metrics.
AbortInterrupted(r) ==
  /\ At(r, "aborting")
  /\ Kind(r) = "plain"
  /\ SettleLease(r, 0)
  /\ Gate!Release(r)
  /\ Go(r, "dropped")
  /\ UNCHANGED <<loop, recorded>>
  /\ Waits

-----------------------------------------------------------------------------
(* Streaming *)

\* The reader takes a token, counts it and sends it.
ReadToken(w) ==
  LET r == w[1]
  IN  /\ At(r, "streaming")
      /\ streams[w].seen < streams[w].emitted
      /\ streams' = [streams EXCEPT ![w].seen = @ + 1]
      /\ counted' = [counted EXCEPT ![r] = @ + 1]
      /\ UNCHANGED <<gateVars, quotaVars, pc, loop, recorded, turn, threadVars,
                     commands, worker, engine>>

\* The terminal event of a stream, behind its tokens.
TakesEnd(w) ==
  /\ At(w[1], "streaming")
  /\ streams[w].seen = streams[w].emitted
  /\ streams[w].terminal # "none"
  /\ ~streams[w].ended
  /\ streams' = [streams EXCEPT ![w].ended = TRUE]
  /\ UNCHANGED <<gateVars, quotaVars, loop, inspection, commands, worker, engine>>

\* A completion's stream ends well only with a finished result; anything
\* else is an error event, and the cleanup cancels.
ReadLast(w) ==
  LET r == w[1]
  IN  /\ Kind(r) = "stream"
      /\ TakesEnd(w)
      /\ IF streams[w].terminal = "finished"
         THEN /\ Record(r, "completed")
              /\ Go(r, "closing")
              /\ counted' = [counted EXCEPT ![r] = engine[w].tokens]
              /\ UNCHANGED <<turn, calls>>
         ELSE /\ Record(r, "failed")
              /\ Go(r, "aborting")
              /\ StartCancel(r, 1)
              /\ UNCHANGED counted

\* A story's stream goes on until every branch is terminal, in any way, and
\* then counts as completed.
ReadBranchEnd(w) ==
  LET r == w[1]
      others == WorksOf(r) \ {w}
  IN  /\ Kind(r) = "storyStream"
      /\ TakesEnd(w)
      /\ IF \A other \in others : streams[other].ended
         THEN Record(r, "completed") /\ Go(r, "closing")
         ELSE UNCHANGED <<recorded, pc>>
      /\ UNCHANGED <<turn, calls, counted>>

\* The deadline, a disconnect or the server ends the stream, before its end
\* or while its last events are sent.
BreakStream(r) ==
  /\ At(r, "streaming") \/ At(r, "closing")
  /\ RecordOnce(r, "failed")
  /\ Go(r, "aborting")
  /\ StartCancel(r, 1)
  /\ UNCHANGED <<gateVars, quotaVars, loop, counted, inspection, runnerVars>>

\* The generator returns: the cleanup has nothing to cancel.
CloseStream(r) ==
  /\ At(r, "closing")
  /\ SettleLease(r, counted[r])
  /\ GiveBack(r)
  /\ UNCHANGED recorded
  /\ Waits

-----------------------------------------------------------------------------
(* Inspection *)

StartInspection(r) ==
  /\ pc[r] = "reserved"
  /\ Kind(r) = "predict"
  /\ inspection' = [inspection EXCEPT ![r] = "putting"]
  /\ Go(r, "inspecting")
  /\ loop' = {}
  /\ UNCHANGED <<gateVars, quotaVars, recorded, turn, counted, calls, runnerVars>>

\* The call returned, raised or timed out, or the deadline, the client or the
\* server ends the wait for it.
EndInspection(r) ==
  /\ At(r, "inspecting")
  /\ inspection[r] # "refused"
  /\ \E outcome \in {"failed"} \cup {o \in {"completed"} : inspection[r] = "answered"} :
       Record(r, outcome)
  /\ SettleLease(r, 0)
  /\ GiveBack(r)
  /\ Waits

InspectionRefused(r) ==
  /\ At(r, "inspecting")
  /\ inspection[r] = "refused"
  /\ Record(r, "rejected")
  /\ CancelLease(r)
  /\ GiveBack(r)
  /\ Waits

-----------------------------------------------------------------------------
\* What keeps or frees the loop, or ends an await that has ended.
HandlerStep(r) ==
  /\ UNCHANGED workload
  /\ \/ Reserve(r) \/ FindQuotaFull(r) \/ RefuseFraming(r)
     \/ SubmitNext(r) \/ SubmitRefused(r) \/ BeginRollback(r)
     \/ CancelNext(r) \/ EndRollback(r) \/ EndAbort(r)
     \/ GetSlot(r) \/ StopWaiting(r)
     \/ CloseStream(r) \/ StartInspection(r) \/ InspectionRefused(r)

\* What its deadline does to a handler, wherever it awaits.
Deadline(r) ==
  /\ UNCHANGED workload
  /\ \/ LeaveReading(r) \/ InterruptWaiter(r) \/ Abort(r)
     \/ BreakStream(r) \/ EndInspection(r)

Client(r) ==
  /\ UNCHANGED workload
  /\ \/ Arrive(r) \/ AcquireSlot(r) \/ WaitForSlot(r) \/ FindLineFull(r)
     \/ Answered(r) \/ AbortInterrupted(r)

Reader(w) == UNCHANGED workload /\ (ReadToken(w) \/ ReadLast(w) \/ ReadBranchEnd(w))

\* The bounded waits of a call in its thread.
Thread(w) == UNCHANGED workload /\ (PutCancel(w) \/ CancelGivesUp(w))
Inspector(r) == UNCHANGED workload /\ (PutInspection(r) \/ InspectionTimesOut(r))

Runner == UNCHANGED workload /\ (TakeCommand \/ BeginTick \/ EndTick \/ WorkerFails)

Next ==
  \/ \E r \in Requests : HandlerStep(r) \/ Deadline(r) \/ Client(r) \/ Inspector(r)
  \/ \E w \in Works : Reader(w) \/ Thread(w)
  \/ Runner

Spec == Init /\ [][Next]_vars

\* The event loop runs what is ready, deadlines fire, and the calls of the
\* runner time out.  The worker may hang for ever: nothing is assumed of it.
Fairness ==
  /\ \A r \in Requests : WF_vars(HandlerStep(r)) /\ WF_vars(Deadline(r))
  /\ \A w \in Works : WF_vars(Thread(w))

FairSpec == Spec /\ Fairness

-----------------------------------------------------------------------------
(* Properties *)

Over(r) == pc[r] \in {"done", "dropped"}

Places == {"new", "reading", "queued", "acquired", "reserved", "rollback", "waiting",
           "aborting", "streaming", "closing", "inspecting", "done", "dropped"}

\* Handlers, calls, commands and works are in one of their states, no queue
\* exceeds its size, and the loop is held by a handler that does not await.
TypeOK ==
  /\ pc \in [Requests -> Places]
  /\ loop = {r \in Requests : pc[r] \in {"acquired", "reserved", "rollback"}}
  /\ Cardinality(loop) <= 1
  /\ Len(commands) <= CommandQueueSize
  /\ \A w \in Works :
       /\ engine[w].status \in Ended \cup {"none", "queued", "live"}
       /\ engine[w].tokens \in 0..MaxTokens(w[1])
       /\ streams[w].emitted - streams[w].seen \in 0..StreamBufferSize
  /\ \A r \in Requests : charge[r] \in RolledBack..Reservation(r)

\* A request has its slot and its reservation exactly as long as its handler
\* is past the gate and the quota: every way out, in whatever order deadline,
\* disconnect, refusal, failure and cancellation come, gives both back.
LeasesFollowHandlers ==
  \A r \in Requests :
    /\ r \in holding <=> ~Over(r) /\ pc[r] \notin {"new", "reading", "queued"}
    /\ r \in DOMAIN quota.reserved <=> r \in holding /\ pc[r] # "acquired"

\* Every request that ends tells the metrics once; only a completion whose
\* task is cancelled during its own cleanup tells them nothing.
CountedOnce ==
  \A r \in Requests :
    /\ Len(recorded[r]) <= 1
    /\ pc[r] = "done" => Len(recorded[r]) = 1

\* A request that completed pays for exactly what it generated, or, as a
\* stream of branches, for what it delivered; and a story that was submitted
\* as a whole never pays less than it makes the engine generate, not even when
\* its cancellation is late or lost.
PaysForItsWork ==
  \A r \in Requests :
    /\ pc[r] = "done" /\ recorded[r] = <<"completed">> =>
         charge[r] = IF Kind(r) = "storyStream"
                     THEN SumFunction([w \in WorksOf(r) |-> streams[w].emitted])
                     ELSE Generated(r)
    /\ Kind(r) = "story" /\ Over(r) /\ Submitted(r) = WorksOf(r) =>
         charge[r] >= Generated(r)

\* The handlers use the gate and the quota as their specifications say: with
\* any of their ways out, nobody takes, awaits or gives back a slot out of
\* turn, and each reservation is settled or rolled back once, and never for
\* more than it is.
UsesLimits == Gate!Spec /\ Quota!QuotaSpec

\* Every request that arrives is answered or given up, however long the
\* worker takes: its deadline ends each wait, and the cancel calls that the
\* cleanup makes are bounded themselves.
EveryRequestEnds == \A r \in Requests : pc[r] = "reading" ~> Over(r)

-----------------------------------------------------------------------------
(* What the documentation says and the code does not do *)

\* "Settled by the tokens actually generated", for streams and completions,
\* on timeout, disconnect, error and cancellation alike (the playground's
\* design document): no request pays less than it generated by then.
SettledForActualTokens ==
  [][\A r \in Requests : charge[r] = -1 /\ charge'[r] >= 0 => charge'[r] >= Generated(r)]_vars

\* "The hourly quota counts a request only when the runner accepts its
\* submission" (the deployment guide): what is over and still counts was
\* taken by the runner.
HourlyCountsAccepted ==
  \A i \in DOMAIN quota.requests :
    LET r == quota.requests[i].id
    IN  Over(r) /\ Kind(r) # "predict" => Submitted(r) # {}

\* "On any partial failure every accepted request is cancelled" (docstring of
\* submit_three_branches): a branch taken before the refusal has ended, or
\* its cancellation is on its way.
RollbackCancels ==
  \A r \in Requests :
    Over(r) /\ Submitted(r) # WorksOf(r) =>
      \A w \in Submitted(r) :
        \/ engine[w].status \in Ended
        \/ \E i \in DOMAIN commands : commands[i] = [op |-> "cancel", of |-> w]

\* The command queue that validate_policy accepts "leaves capacity for queued
\* submits and cleanup": no submission finds it full.
SubmissionsFit ==
  \A r \in Requests : pc[r] = "reserved" /\ worker # "failed" => HasRoom
=============================================================================
