-------------------------- MODULE RequestLifecycle --------------------------
(***************************************************************************)
(* What a serving engine promises about each request: submitted once, it    *)
(* yields at most its maximum of tokens, none of which is ever taken back,  *)
(* and ends in exactly one of three ways, for good.                         *)
(***************************************************************************)
EXTENDS Integers

CONSTANTS Requests, MaxNew

VARIABLES outcome,  \* where the request is in its life
          tokens    \* how many tokens it has yielded

Init == /\ outcome = [r \in Requests |-> "absent"]
        /\ tokens = [r \in Requests |-> 0]

Submit(r) == /\ outcome[r] = "absent"
             /\ outcome' = [outcome EXCEPT ![r] = "open"]
             /\ UNCHANGED tokens

\* The token that completes the request, by length or end of sequence, also
\* finishes it.
Token(r) == /\ outcome[r] = "open" /\ tokens[r] < MaxNew[r]
            /\ tokens' = [tokens EXCEPT ![r] = @ + 1]
            /\ \/ tokens'[r] < MaxNew[r] /\ UNCHANGED outcome
               \/ outcome' = [outcome EXCEPT ![r] = "finished"]

\* A request without output finishes without a token.
FinishEmpty(r) == /\ outcome[r] = "open" /\ MaxNew[r] = 0
                  /\ outcome' = [outcome EXCEPT ![r] = "finished"]
                  /\ UNCHANGED tokens

Fail(r) == /\ outcome[r] = "open"
           /\ outcome' = [outcome EXCEPT ![r] = "failed"]
           /\ UNCHANGED tokens

Cancel(r) == /\ outcome[r] = "open"
             /\ outcome' = [outcome EXCEPT ![r] = "cancelled"]
             /\ UNCHANGED tokens

Next == \E r \in Requests :
            Submit(r) \/ Token(r) \/ FinishEmpty(r) \/ Fail(r) \/ Cancel(r)

Spec == Init /\ [][Next]_<<outcome, tokens>>
=============================================================================
