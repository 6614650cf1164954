---------------------------- MODULE MCAccountPool ----------------------------
(* The TLC instance of AccountPool: two accounts with a workspace each, and *)
(* at most two of two requests and a session refresh under way at a time.   *)
EXTENDS AccountPool, TLC

CONSTANTS a1, a2, w1, w2

TwoAccounts == w1 :> a1 @@ w2 :> a2
TwoDefaults == a1 :> w1 @@ a2 :> w2

TwoAtATime ==
  Cardinality({r \in Requests: req[r].pc # "idle"})
    + Cardinality({x \in {refresh.pc}: x # "idle"}) <= 2

\* Requests are interchangeable, and so are two accounts with one workspace
\* each, together with their workspaces.
RequestSymmetry == Permutations(Requests)
Swap == a1 :> a2 @@ a2 :> a1 @@ w1 :> w2 @@ w2 :> w1
FullSymmetry == RequestSymmetry \cup {p @@ Swap: p \in RequestSymmetry}
===============================================================================
