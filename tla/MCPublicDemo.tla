---------------------------- MODULE MCPublicDemo ----------------------------
(* Instances of PublicDemo for TLC *)
EXTENDS PublicDemo, TLC

CONSTANTS a, b, c

Asks(first, second, third, tokens, failures) ==
  [kind |-> (a :> first) @@ (b :> second) @@ (c :> third),
   maxTokens |-> (a :> tokens[1]) @@ (b :> tokens[2]) @@ (c :> tokens[3]),
   failures |-> failures]

\* A completion, a stream and an inspection compete; or two stories do, one of
\* them streamed.
AllKinds == {Asks("plain", "stream", "predict", <<2, 2, 1>>, {"row", "tick"}),
             Asks("story", "storyStream", "absent", <<1, 2, 1>>, {"tick"})}

OneCompletion == {Asks("plain", "absent", "absent", <<2, 1, 1>>, {})}
OneStory == {Asks("story", "absent", "absent", <<1, 1, 1>>, {})}
TwoStories == {Asks("story", "storyStream", "absent", <<1, 1, 1>>, {})}
=============================================================================
