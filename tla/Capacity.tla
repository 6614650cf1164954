------------------------------- MODULE Capacity -------------------------------
(***************************************************************************)
(* What the dispatch slots promise, without the slots: every key (one per  *)
(* credential, one per workspace) has a limit, and a request is admitted   *)
(* to a key only while fewer requests than its limit are admitted to it.   *)
(* DispatchSlots shows that reference counted slot objects, rebuilt when   *)
(* the configuration changes, implement this.                              *)
(***************************************************************************)
EXTENDS Naturals, FiniteSets

CONSTANTS
  Keys,        \* what capacity is counted for
  Requests,    \* the requests that are admitted
  Limits       \* the limits, naturals, the configuration may give a key

VARIABLES
  holders,     \* holders[k]: the requests admitted to key k
  limit        \* limit[k]: how many requests key k admits

Init ==
  /\ holders = [k \in Keys |-> {}]
  /\ limit \in [Keys -> Limits]

Admit(k, r) ==
  /\ r \notin holders[k]
  /\ Cardinality(holders[k]) < limit[k]
  /\ holders' = [holders EXCEPT ![k] = @ \cup {r}]
  /\ UNCHANGED limit

Leave(k, r) ==
  /\ r \in holders[k]
  /\ holders' = [holders EXCEPT ![k] = @ \ {r}]
  /\ UNCHANGED limit

\* A limit may change at any time, below the number of holders too.
Resize ==
  /\ limit' \in [Keys -> Limits]
  /\ UNCHANGED holders

Next ==
  \/ \E k \in Keys, r \in Requests: Admit(k, r) \/ Leave(k, r)
  \/ Resize

Spec == Init /\ [][Next]_<<holders, limit>>
===============================================================================
