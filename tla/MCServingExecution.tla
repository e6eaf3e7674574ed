------------------------- MODULE MCServingExecution -------------------------
(***************************************************************************)
(* An instance of BatchedExecution and one of ServingEngine with chunked   *)
(* prefill and preemption for TLC.  They share nothing here, so that it is *)
(* enough to let one move while the other is as it was in the beginning.   *)
(***************************************************************************)
EXTENDS BatchedExecution, TLC

\* The configuration of the scheduler, as in ServingEngine.
CONSTANTS Clients, Cancelling, MaxActive, MaxCached, LifetimeCap, NumBlocks,
          Chunk, Budget, Preemption, Lazy, NoRequest

VARIABLES status, produced, cached, reserved, waiting, active, pending,
          cursor, resume, blocked, decoded, recomputed, tick

engineVars == <<status, produced, cached, reserved, waiting, active, pending,
                cursor, resume, blocked, decoded, recomputed, tick>>

\* A prompt of a block and a token, one that is the same block, and one that
\* starts with it and fills the window, so that its decodes overflow.
RowPrompt == <<<<1, 0, 1>>, <<1, 0>>, <<1, 0, 0, 1>> >>
RowMaxNew == <<2, 2, 3>>

\* Two that need the window of four for themselves, and two short ones.
PromptLong == "a" :> 3 @@ "b" :> 2 @@ "c" :> 1 @@ "d" :> 1
MaxNewLong == "a" :> 3 @@ "b" :> 3 @@ "c" :> 1 @@ "d" :> 1

Engine == INSTANCE ServingEngine WITH
  Requests <- Clients, Prompt <- PromptLong, MaxNew <- MaxNewLong, generated <- produced

ASSUME Engine!ConfigAssumption /\ Engine!RequestAssumption

ServingInit == Init /\ Engine!Init

EngineStep == Init /\ kind = "reference" /\ Engine!Next /\ UNCHANGED vars

ExecutionStep == Engine!Init /\ Next /\ UNCHANGED engineVars

ServingSpec ==
  /\ ServingInit
  /\ [][EngineStep \/ ExecutionStep]_<<vars, engineVars>>
  /\ WF_engineVars(Engine!TickStep)

\* The properties of ServingEngine, by their names.
BookkeepingConsistent == Engine!BookkeepingConsistent
WorkloadsComplete == Engine!WorkloadsComplete
=============================================================================
