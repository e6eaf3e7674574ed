--------------------------- MODULE MCEngineRunner ---------------------------
(***************************************************************************)
(* Instances of EngineRunner for TLC.                                       *)
(***************************************************************************)
EXTENDS EngineRunner, TLC

\* A stream longer than its buffer, and plain requests of one token.
MCMaxNew == [r \in Requests |-> IF r \in Streaming THEN 3 ELSE 1]

\* The clients of S and nobody else.
Clients(S) == client = [r \in Requests |-> IF r \in S THEN "new" ELSE "gone"]

\* All the clients of a runner that has started, or the start of a runner with
\* an observer and the clients without a stream.
MCInit ==
    /\ Fresh
    /\ \/ /\ state = "running" /\ stage = "drain" /\ starter = "returned"
          /\ Clients(Requests) /\ observer = "gone"
       \/ /\ state = "new" /\ stage = "unborn" /\ starter = "none" /\ observer = "new"
          /\ Clients(Requests \ Streaming)

MCSpec == MCInit /\ [][Next]_vars /\ Fairness
=============================================================================
