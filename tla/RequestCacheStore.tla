-------------------------- MODULE RequestCacheStore --------------------------
(***************************************************************************)
(* What the paged pool promises its callers: every request has a cache of   *)
(* its own.  The cache is the list of the data in its blocks; opening one   *)
(* may find a prefix of the prompt already there, writing extends it, an    *)
(* overflow rebuild replaces it, and no call on one request shows in the    *)
(* cache of another.  A call that fails leaves the cache as it was.         *)
(***************************************************************************)
EXTENDS Integers, Sequences

CONSTANTS Requests, Chain, Window,
          Closed     \* the value of a request without a cache

VARIABLE cache

\* Block i of r's prompt holds the data its hash names, a later block the
\* data of r alone.
PromptData(r, i) == IF i <= Len(Chain[r]) THEN Chain[r][i] ELSE r

Init == cache = [r \in Requests |-> Closed]

\* Open r with the first k blocks of its prompt.
Open(r) ==
    /\ cache[r] = Closed
    /\ \E k \in 0 .. Len(Chain[r]) :
          cache' = [cache EXCEPT ![r] = [i \in 1 .. k |-> Chain[r][i]]]

\* Extend r's cache by k blocks: the next ones of its prompt, or its own.
Extend(r) ==
    /\ cache[r] # Closed
    /\ \E k \in 1 .. Window :
          \/ cache' = [cache EXCEPT ![r] =
                @ \o [i \in 1 .. k |-> PromptData(r, Len(cache[r]) + i)]]
          \/ cache' = [cache EXCEPT ![r] = @ \o [i \in 1 .. k |-> r]]

\* Replace r's cache by a rebuilt window of k blocks.
Replace(r) ==
    /\ cache[r] # Closed
    /\ \E k \in 1 .. Window : cache' = [cache EXCEPT ![r] = [i \in 1 .. k |-> r]]

Close(r) == cache' = [cache EXCEPT ![r] = Closed]

CloseAll == cache' = [r \in Requests |-> Closed]

Next == \/ \E r \in Requests : Open(r) \/ Extend(r) \/ Replace(r) \/ Close(r)
        \/ CloseAll

Spec == Init /\ [][Next]_cache
=============================================================================
