--------------------------- MODULE MCAccountsPanel ---------------------------
(* TLC's instance of AccountsPanel: an account with two workspaces, the     *)
(* second of which has a model to choose, and one with a single workspace   *)
(* that is not in the pool at first. Of two requests in flight one reads the *)
(* accounts, and one draft at a time is unsaved.                            *)
EXTENDS AccountsPanel, TLC

CONSTANTS a1, a2, w1, w2, w3, model

SampleOwner == (w1 :> a1) @@ (w2 :> a1) @@ (w3 :> a2)

\* All limits are zero; the panel shows the one for requests at a time as one.
SamplePools ==
  {[listed |-> {a1, w1, w2}, setting |-> [k \in Keys |-> Unset],
    activeAccount |-> a1, active |-> w1,
    default |-> (a1 :> w2) @@ (a2 :> None),
    manual |-> [s \in Spaces |-> IF s = w2 THEN Models ELSE {}]]}

SampleTyped == {<<w1, "priority", 1>>, <<w1, "quota", 1>>, <<a1, "disabled", 1>>}

OneChange == Cardinality({t \in Tasks : task[t].op \notin {"none", "refresh"}}) <= 1
OneDraft == Cardinality({k \in Keys : typed[k] # None}) <= 1

TaskSymmetry == Permutations(Tasks)
===============================================================================
