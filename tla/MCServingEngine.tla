-------------------------- MODULE MCServingEngine --------------------------
(***************************************************************************)
(* Instances of ServingEngine for TLC: what each request asks for.          *)
(***************************************************************************)
EXTENDS ServingEngine, TLC

\* One that can never fit, two that compete, one without output.
PromptMixed == "big" :> 6 @@ "b" :> 2 @@ "c" :> 3 @@ "empty" :> 1
MaxNewMixed == "big" :> 1 @@ "b" :> 3 @@ "c" :> 2 @@ "empty" :> 0

\* Three that start small and grow.
PromptGrowing == "a" :> 2 @@ "b" :> 1 @@ "c" :> 1
MaxNewGrowing == "a" :> 3 @@ "b" :> 3 @@ "c" :> 3
=============================================================================
