------------------------- MODULE DispatchSlots_proofs -------------------------
(***************************************************************************)
(* For every set of requests, accounts and workspaces and all limits: the  *)
(* in-flight counters count the leases, no rebuild takes a slot from a     *)
(* request in flight, and the slots implement the abstract Capacity.       *)
(***************************************************************************)
EXTENDS DispatchSlots, FiniteSetTheorems, TLAPS

USE SlotAssumption

LEMMA TypeInit == Init => TypeOK
BY DEF Init, TypeOK, Keys, Slot, Limits, NoLease, Pcs, Inside, LimitOf, Configs

LEMMA HoldersFinite ==
  ASSUME NEW k, NEW o
  PROVE  IsFiniteSet(HoldersOf(k, o)) /\ Cardinality(HoldersOf(k, o)) \in Nat
<1>1. HoldersOf(k, o) \in SUBSET Requests
  BY DEF HoldersOf
<1> QED BY <1>1, FS_Subset, FS_CardinalityType

LEMMA InitIInv == Init => IInv
<1> SUFFICES ASSUME Init PROVE IInv
  OBVIOUS
<1>1. TypeOK
  BY TypeInit
<1>2. CountsLeases
  <2> SUFFICES ASSUME NEW k \in Keys, NEW o \in Objects
               PROVE  inflight[k][o] = Cardinality(HoldersOf(k, o))
    BY DEF CountsLeases
  <2>1. HoldersOf(k, o) = {}
    BY DEF Init, HoldersOf, NoLease
  <2> QED BY <2>1, FS_EmptySet DEF Init
<1>3. SlotSurvives
  BY DEF Init, SlotSurvives, NoLease
<1>4. AttemptInv
  BY DEF Init, AttemptInv, HeldKeys, NoLease
<1>5. TableInv
  BY DEF Init, TableInv, Listed, Keys, Configs
<1> QED BY <1>1, <1>2, <1>3, <1>4, <1>5 DEF IInv

(* What an attempt holds, and the two keys of one attempt.                 *)
LEMMA TwoKeys ==
  ASSUME TypeOK, NEW r \in Requests
  PROVE  /\ target[r] \in Keys /\ CredentialOf[target[r]] \in Keys
         /\ CredentialOf[target[r]] # target[r]
BY DEF TypeOK, Keys

(* A successful compare-and-swap on a key that the attempt does not hold.  *)
LEMMA TakeCounts ==
  ASSUME TypeOK, CountsLeases, SlotSurvives, NEW r \in Requests, NEW k \in Keys,
         lease[r][k] = NoObject, Take(r, k)
  PROVE  /\ inflight' \in [Keys -> [Objects -> Nat]]
         /\ lease' \in [Requests -> [Keys -> Slot]]
         /\ CountsLeases'
         /\ SlotSurvives'
         /\ \A q \in Requests, j \in Keys:
              (lease'[q][j] # NoObject) <=> (lease[q][j] # NoObject \/ (q = r /\ j = k))
<1>1. table[k] \in Objects
  BY DEF Take, HasRoom, TypeOK, Slot
<1>2. inflight' \in [Keys -> [Objects -> Nat]] /\ lease' \in [Requests -> [Keys -> Slot]]
  BY <1>1 DEF Take, TypeOK, Slot
<1>3. \A q \in Requests, j \in Keys:
        lease'[q][j] = IF q = r /\ j = k THEN table[k] ELSE lease[q][j]
  BY DEF Take, TypeOK
<1>4. CountsLeases'
  <2> SUFFICES ASSUME NEW j \in Keys, NEW o \in Objects
               PROVE  inflight'[j][o] = Cardinality(HoldersOf(j, o)')
    BY DEF CountsLeases
  <2>1. CASE j = k /\ o = table[k]
    <3>1. HoldersOf(j, o)' = HoldersOf(j, o) \cup {r}
      BY <1>3, <2>1 DEF HoldersOf
    <3>2. r \notin HoldersOf(j, o)
      BY <2>1 DEF HoldersOf
    <3>3. IsFiniteSet(HoldersOf(j, o))
      BY HoldersFinite
    <3>4. Cardinality(HoldersOf(j, o) \cup {r}) = Cardinality(HoldersOf(j, o)) + 1
      BY <3>2, <3>3, FS_AddElement
    <3>5. inflight'[j][o] = inflight[j][o] + 1
      BY <1>1, <2>1 DEF Take, TypeOK
    <3>6. inflight[j][o] = Cardinality(HoldersOf(j, o))
      BY DEF CountsLeases
    <3> QED BY <3>1, <3>4, <3>5, <3>6
  <2>2. CASE ~(j = k /\ o = table[k])
    <3>1. HoldersOf(j, o)' = HoldersOf(j, o)
      BY <1>3, <2>2 DEF HoldersOf
    <3>2. inflight'[j][o] = inflight[j][o]
      BY <1>1, <2>2 DEF Take, TypeOK
    <3> QED BY <3>1, <3>2 DEF CountsLeases
  <2> QED BY <2>1, <2>2
<1>5. SlotSurvives'
  BY <1>3 DEF SlotSurvives, Take
<1> QED BY <1>1, <1>2, <1>3, <1>4, <1>5

(* A release of a key that the attempt holds.                              *)
LEMMA GiveCounts ==
  ASSUME TypeOK, CountsLeases, SlotSurvives, NEW r \in Requests, NEW k \in Keys,
         lease[r][k] # NoObject, Give(r, k)
  PROVE  /\ inflight' \in [Keys -> [Objects -> Nat]]
         /\ lease' \in [Requests -> [Keys -> Slot]]
         /\ CountsLeases'
         /\ SlotSurvives'
         /\ \A q \in Requests, j \in Keys:
              (lease'[q][j] # NoObject) <=> (lease[q][j] # NoObject /\ ~(q = r /\ j = k))
<1> DEFINE mine == lease[r][k]
<1>1. mine \in Objects
  BY DEF TypeOK, Slot
<1>2. \A q \in Requests, j \in Keys:
        lease'[q][j] = IF q = r /\ j = k THEN NoObject ELSE lease[q][j]
  BY DEF Give, TypeOK
<1>3. r \in HoldersOf(k, mine) /\ inflight[k][mine] = Cardinality(HoldersOf(k, mine))
  BY <1>1 DEF HoldersOf, CountsLeases
<1>4. inflight[k][mine] \in Nat /\ inflight[k][mine] > 0
  BY <1>3, HoldersFinite, FS_EmptySet
<1>5. inflight'[k][mine] = inflight[k][mine] - 1
  BY <1>1, <1>4 DEF Give, TypeOK
<1>6. \A j \in Keys, o \in Objects:
        ~(j = k /\ o = mine) => inflight'[j][o] = inflight[j][o]
  BY <1>1 DEF Give, TypeOK
<1>7. inflight' \in [Keys -> [Objects -> Nat]] /\ lease' \in [Requests -> [Keys -> Slot]]
  BY <1>1, <1>4 DEF Give, TypeOK, Slot
<1>8. CountsLeases'
  <2> SUFFICES ASSUME NEW j \in Keys, NEW o \in Objects
               PROVE  inflight'[j][o] = Cardinality(HoldersOf(j, o)')
    BY DEF CountsLeases
  <2>1. CASE j = k /\ o = mine
    <3>1. HoldersOf(j, o)' = HoldersOf(j, o) \ {r}
      BY <1>1, <1>2, <2>1 DEF HoldersOf
    <3>2. r \in HoldersOf(j, o) /\ IsFiniteSet(HoldersOf(j, o))
      BY <1>3, <2>1, HoldersFinite
    <3>3. Cardinality(HoldersOf(j, o) \ {r}) = Cardinality(HoldersOf(j, o)) - 1
      BY <3>2, FS_RemoveElement
    <3>4. inflight'[j][o] = Cardinality(HoldersOf(j, o)) - 1
      BY <1>3, <1>5, <2>1
    <3> QED BY <3>1, <3>3, <3>4
  <2>2. CASE ~(j = k /\ o = mine)
    <3>1. HoldersOf(j, o)' = HoldersOf(j, o)
      BY <1>2, <2>2 DEF HoldersOf
    <3> QED BY <1>6, <2>2, <3>1 DEF CountsLeases
  <2> QED BY <2>1, <2>2
<1>9. SlotSurvives'
  BY <1>2 DEF SlotSurvives, Give
<1> QED BY <1>2, <1>7, <1>8, <1>9

(* The rebuild keeps every counter: a new object is held by nobody.        *)
LEMMA RebuildStep == IInv /\ ApplyConfig => IInv'
<1> SUFFICES ASSUME IInv, ApplyConfig PROVE IInv'
  OBVIOUS
<1> USE DEF IInv
<1>1. PICK c \in Configs, next \in [Keys -> Slot]:
        /\ Rebuilt(c, next)
        /\ config' = c
        /\ table' = next
        /\ inflight' = [k \in Keys |-> [o \in Objects |->
                          IF table[k] = NoObject /\ next[k] = o THEN 0 ELSE inflight[k][o]]]
        /\ max' = [k \in Keys |-> IF k \in Listed(c) THEN LimitOf(c, k) ELSE max[k]]
  BY DEF ApplyConfig
<1>2. UNCHANGED <<pc, target, lease>>
  BY DEF ApplyConfig
<1>3. \A k \in Listed(c): k \in Keys /\ LimitOf(c, k) \in Limits
  BY DEF Listed, LimitOf, Configs, Keys
<1>4. TypeOK'
  BY <1>1, <1>2, <1>3 DEF TypeOK
<1>5. \A k \in Keys, o \in Objects: HoldersOf(k, o)' = HoldersOf(k, o)
  BY <1>2 DEF HoldersOf
<1>6. \A k \in Keys, o \in Objects: inflight'[k][o] = inflight[k][o]
  <2> SUFFICES ASSUME NEW k \in Keys, NEW o \in Objects, table[k] = NoObject, next[k] = o
               PROVE  inflight[k][o] = 0
    BY <1>1 DEF TypeOK
  <2>1. HoldersOf(k, o) = {}
    BY <1>1 DEF Rebuilt
  <2>2. Cardinality({}) = 0
    BY FS_EmptySet
  <2>3. inflight[k][o] = Cardinality(HoldersOf(k, o))
    BY DEF CountsLeases
  <2> QED BY <2>1, <2>2, <2>3
<1>7. CountsLeases'
  BY <1>5, <1>6 DEF CountsLeases
<1>8. SlotSurvives'
  <2> SUFFICES ASSUME NEW r \in Requests, NEW k \in Keys, lease[r][k] # NoObject
               PROVE  next[k] = lease[r][k]
    BY <1>1, <1>2 DEF SlotSurvives
  <2> DEFINE mine == lease[r][k]
  <2>1. mine \in Objects /\ table[k] = mine
    BY DEF TypeOK, Slot, SlotSurvives
  <2>2. r \in HoldersOf(k, mine) /\ inflight[k][mine] = Cardinality(HoldersOf(k, mine))
    BY <2>1 DEF HoldersOf, CountsLeases
  <2>3. inflight[k][mine] > 0
    BY <2>2, HoldersFinite, FS_EmptySet
  <2> QED BY <1>1, <2>1, <2>3 DEF Rebuilt
<1>9. AttemptInv'
  BY <1>2 DEF AttemptInv, HeldKeys, ApplyConfig, Inside
<1>10. TableInv'
  <2> SUFFICES ASSUME NEW k \in Listed(c)
               PROVE  next[k] # NoObject /\ max'[k] = LimitOf(c, k)
    BY <1>1 DEF TableInv
  <2> QED BY <1>1, <1>3 DEF Rebuilt
<1> QED BY <1>4, <1>7, <1>8, <1>9, <1>10

(* A step of an attempt that acquires or releases nothing.                 *)
LEMMA MoveOnly ==
  ASSUME CountsLeases, SlotSurvives, TableInv,
         UNCHANGED <<config, table, inflight, max, lease>>
  PROVE  CountsLeases' /\ SlotSurvives' /\ TableInv'
BY DEF CountsLeases, SlotSurvives, TableInv, HoldersOf

LEMMA AttemptStep ==
  ASSUME IInv, NEW r \in Requests, Enter(r) \/ Step(r)
  PROVE  IInv'
<1> USE DEF IInv
<1>0. target[r] \in Keys /\ CredentialOf[target[r]] \in Keys /\ CredentialOf[target[r]] # target[r]
  BY TwoKeys
<1>1. CASE Enter(r)
  <2>1. \A k \in Keys: lease[r][k] = NoObject
    BY <1>1 DEF Enter, AttemptInv, HeldKeys
  <2>2. lease[r] = NoLease /\ lease' = lease
    BY <1>1, <2>1 DEF TypeOK, NoLease, Enter
  <2>3. TypeOK'
    BY <1>1, <2>2 DEF Enter, TypeOK, Pcs, Inside
  <2>4. AttemptInv'
    BY <1>1, <2>2 DEF Enter, AttemptInv, HeldKeys, TypeOK
  <2> QED BY <1>1, <2>2, <2>3, <2>4, MoveOnly DEF Enter
<1>2. CASE TakeCredential(r)
  <2>1. CASE Take(r, CredentialOf[target[r]]) /\ pc' = [pc EXCEPT ![r] = "workspace"]
    <3>1. lease[r][CredentialOf[target[r]]] = NoObject
      BY <1>0, <1>2 DEF TakeCredential, AttemptInv, HeldKeys
    <3>2. TypeOK' /\ CountsLeases' /\ SlotSurvives'
      BY <1>0, <2>1, <3>1, TakeCounts DEF TypeOK, Take, Pcs, Inside
    <3>3. AttemptInv'
      <4>1. \A q \in Requests, j \in Keys:
              (lease'[q][j] # NoObject) <=> (lease[q][j] # NoObject \/ (q = r /\ j = CredentialOf[target[r]]))
        BY <1>0, <2>1, <3>1, TakeCounts
      <4>2. \A q \in Requests, j \in Keys:
              j \in HeldKeys(q)' <=> (j \in HeldKeys(q) \/ (q = r /\ j = CredentialOf[target[r]]))
        BY <1>2, <2>1 DEF TakeCredential, Take, HeldKeys, TypeOK
      <4>3. \A q \in Requests: pc'[q] = IF q = r THEN "workspace" ELSE pc[q]
        BY <2>1 DEF TypeOK
      <4> QED BY <4>1, <4>2, <4>3, <1>2, <2>1 DEF TakeCredential, Take, AttemptInv
    <3>4. TableInv'
      BY <2>1 DEF Take, TableInv
    <3> QED BY <3>2, <3>3, <3>4
  <2>2. CASE pc' = [pc EXCEPT ![r] = "idle"] /\ UNCHANGED <<config, table, inflight, max, target, lease>>
    <3>1. TypeOK'
      BY <2>2 DEF TypeOK, Pcs
    <3>2. AttemptInv'
      BY <1>2, <2>2 DEF TakeCredential, AttemptInv, HeldKeys, TypeOK
    <3> QED BY <2>2, <3>1, <3>2, MoveOnly
  <2> QED BY <1>2, <2>1, <2>2 DEF TakeCredential
<1>3. CASE TakeWorkspace(r)
  <2>1. CASE Take(r, target[r]) /\ pc' = [pc EXCEPT ![r] = "running"]
    <3>1. lease[r][target[r]] = NoObject
      BY <1>0, <1>3 DEF TakeWorkspace, AttemptInv, HeldKeys
    <3>2. TypeOK' /\ CountsLeases' /\ SlotSurvives'
      BY <1>0, <2>1, <3>1, TakeCounts DEF TypeOK, Take, Pcs, Inside
    <3>3. AttemptInv'
      <4>1. \A q \in Requests, j \in Keys:
              (lease'[q][j] # NoObject) <=> (lease[q][j] # NoObject \/ (q = r /\ j = target[r]))
        BY <1>0, <2>1, <3>1, TakeCounts
      <4>2. \A q \in Requests, j \in Keys:
              j \in HeldKeys(q)' <=> (j \in HeldKeys(q) \/ (q = r /\ j = target[r]))
        BY <1>3, <2>1 DEF TakeWorkspace, Take, HeldKeys, TypeOK
      <4>3. \A q \in Requests: pc'[q] = IF q = r THEN "running" ELSE pc[q]
        BY <2>1 DEF TypeOK
      <4> QED BY <4>1, <4>2, <4>3, <1>3, <2>1 DEF TakeWorkspace, Take, AttemptInv
    <3>4. TableInv'
      BY <2>1 DEF Take, TableInv
    <3> QED BY <3>2, <3>3, <3>4
  <2>2. CASE pc' = [pc EXCEPT ![r] = "rollback"] /\ UNCHANGED <<config, table, inflight, max, target, lease>>
    <3>1. TypeOK'
      BY <2>2 DEF TypeOK, Pcs, Inside
    <3>2. AttemptInv'
      BY <1>3, <2>2 DEF TakeWorkspace, AttemptInv, HeldKeys, TypeOK
    <3> QED BY <2>2, <3>1, <3>2, MoveOnly
  <2> QED BY <1>3, <2>1, <2>2 DEF TakeWorkspace
<1>4. CASE Rollback(r)
  <2>1. lease[r][CredentialOf[target[r]]] # NoObject /\ Give(r, CredentialOf[target[r]])
    BY <1>0, <1>4 DEF Rollback, AttemptInv, HeldKeys
  <2>2. TypeOK' /\ CountsLeases' /\ SlotSurvives'
    BY <1>0, <1>4, <2>1, GiveCounts DEF Rollback, Give, TypeOK, Pcs
  <2>3. AttemptInv'
    <3>1. \A q \in Requests, j \in Keys:
            (lease'[q][j] # NoObject) <=> (lease[q][j] # NoObject /\ ~(q = r /\ j = CredentialOf[target[r]]))
      BY <1>0, <2>1, GiveCounts
    <3>2. \A q \in Requests, j \in Keys:
            j \in HeldKeys(q)' <=> (j \in HeldKeys(q) /\ ~(q = r /\ j = CredentialOf[target[r]]))
      BY <1>0, <1>4, <2>1 DEF Rollback, Give, HeldKeys, TypeOK
    <3>3. \A q \in Requests: pc'[q] \in {"credential", "workspace"} => pc[q] = pc'[q]
      BY <1>4 DEF Rollback, TypeOK
    <3>4. target' = target /\ config' = config
      BY <2>1 DEF Give
    <3> QED BY <1>0, <3>1, <3>2, <3>3, <3>4 DEF AttemptInv
  <2> QED BY <2>1, <2>2, <2>3 DEF Give, TableInv
<1>5. CASE ReleaseWorkspace(r)
  <2>1. lease[r][target[r]] # NoObject /\ Give(r, target[r])
    BY <1>0, <1>5 DEF ReleaseWorkspace, AttemptInv, HeldKeys
  <2>2. TypeOK' /\ CountsLeases' /\ SlotSurvives'
    BY <1>0, <1>5, <2>1, GiveCounts DEF ReleaseWorkspace, Give, TypeOK, Pcs, Inside
  <2>3. AttemptInv'
    <3>1. \A q \in Requests, j \in Keys:
            (lease'[q][j] # NoObject) <=> (lease[q][j] # NoObject /\ ~(q = r /\ j = target[r]))
      BY <1>0, <2>1, GiveCounts
    <3>2. \A q \in Requests, j \in Keys:
            j \in HeldKeys(q)' <=> (j \in HeldKeys(q) /\ ~(q = r /\ j = target[r]))
      BY <1>0, <1>5, <2>1 DEF ReleaseWorkspace, Give, HeldKeys, TypeOK
    <3>3. \A q \in Requests: pc'[q] \in {"credential", "workspace"} => pc[q] = pc'[q]
      BY <1>5 DEF ReleaseWorkspace, TypeOK
    <3>4. target' = target /\ config' = config
      BY <2>1 DEF Give
    <3> QED BY <1>0, <3>1, <3>2, <3>3, <3>4 DEF AttemptInv
  <2> QED BY <2>1, <2>2, <2>3 DEF Give, TableInv
<1>6. CASE ReleaseCredential(r)
  <2>1. lease[r][CredentialOf[target[r]]] # NoObject /\ Give(r, CredentialOf[target[r]])
    BY <1>0, <1>6 DEF ReleaseCredential, AttemptInv, HeldKeys
  <2>2. TypeOK' /\ CountsLeases' /\ SlotSurvives'
    BY <1>0, <1>6, <2>1, GiveCounts DEF ReleaseCredential, Give, TypeOK, Pcs
  <2>3. AttemptInv'
    <3>1. \A q \in Requests, j \in Keys:
            (lease'[q][j] # NoObject) <=> (lease[q][j] # NoObject /\ ~(q = r /\ j = CredentialOf[target[r]]))
      BY <1>0, <2>1, GiveCounts
    <3>2. \A q \in Requests, j \in Keys:
            j \in HeldKeys(q)' <=> (j \in HeldKeys(q) /\ ~(q = r /\ j = CredentialOf[target[r]]))
      BY <1>0, <1>6, <2>1 DEF ReleaseCredential, Give, HeldKeys, TypeOK
    <3>3. \A q \in Requests: pc'[q] \in {"credential", "workspace"} => pc[q] = pc'[q]
      BY <1>6 DEF ReleaseCredential, TypeOK
    <3>4. target' = target /\ config' = config
      BY <2>1 DEF Give
    <3> QED BY <1>0, <3>1, <3>2, <3>3, <3>4 DEF AttemptInv
  <2> QED BY <2>1, <2>2, <2>3 DEF Give, TableInv
<1>7. CASE Return(r)
  <2>1. TypeOK'
    BY <1>7 DEF Return, TypeOK, Pcs
  <2>2. AttemptInv'
    BY <1>7 DEF Return, AttemptInv, HeldKeys, TypeOK
  <2> QED BY <1>7, <2>1, <2>2, MoveOnly DEF Return
<1> QED BY <1>1, <1>2, <1>3, <1>4, <1>5, <1>6, <1>7 DEF Step

LEMMA IInvStep == IInv /\ [Next]_vars => IInv'
<1> SUFFICES ASSUME IInv, [Next]_vars PROVE IInv'
  OBVIOUS
<1>1. CASE ApplyConfig
  BY <1>1, RebuildStep
<1>2. ASSUME NEW r \in Requests, Enter(r) \/ Step(r) PROVE IInv'
  BY <1>2, AttemptStep
<1>3. CASE UNCHANGED vars
  <2>1. TypeOK' /\ AttemptInv'
    BY <1>3 DEF vars, IInv, TypeOK, AttemptInv, HeldKeys
  <2> QED BY <1>3, <2>1, MoveOnly DEF vars, IInv
<1> QED BY <1>1, <1>2, <1>3 DEF Next

(* The invariant that carries the rest: what every attempt holds at each    *)
(* point, that the counters count it, and that the table has the slots.     *)
THEOREM Inductive == Spec => []IInv
BY InitIInv, IInvStep, PTL DEF Spec

(* No path through acquisition, roll back and the two releases leaks a slot *)
(* or gives one back twice.                                                 *)
THEOREM CountersCountLeases == Spec => []CountsLeases
BY Inductive, PTL DEF IInv

(* A rebuild of the table never takes the slot of a request in flight.      *)
THEOREM SlotsSurviveRebuilds == Spec => []SlotSurvives
BY Inductive, PTL DEF IInv

(* The keys held, and their limits, as Capacity sees them.                  *)
LEMMA HoldersOfKey ==
  ASSUME IInv, NEW k \in Keys, table[k] # NoObject
  PROVE  {r \in Requests: lease[r][k] # NoObject} = HoldersOf(k, table[k])
BY DEF IInv, SlotSurvives, HoldersOf

(* Capacity counts with the same Cardinality.                               *)
LEMMA SameCardinality ==
  ASSUME NEW S
  PROVE  Promise!Cardinality(S) = Cardinality(S)
BY DEF Promise!Cardinality, Cardinality

LEMMA TakeAdmits ==
  ASSUME IInv, NEW r \in Requests, NEW k \in Keys, k \in Listed(config),
         lease[r][k] = NoObject, Take(r, k)
  PROVE  Promise!Admit(k, r)
<1> DEFINE H(j) == {q \in Requests: lease[q][j] # NoObject}
<1>1. r \notin H(k)
  OBVIOUS
<1>2. Cardinality(H(k)) < LimitOf(config, k)
  <2>1. table[k] \in Objects /\ inflight[k][table[k]] < max[k]
    BY DEF Take, HasRoom, IInv, TypeOK, Slot
  <2>2. Cardinality(H(k)) = inflight[k][table[k]]
    BY <2>1, HoldersOfKey DEF IInv, CountsLeases
  <2> QED BY <2>1, <2>2 DEF IInv, TableInv
<1>3. \A q \in Requests, j \in Keys:
        (lease'[q][j] # NoObject) <=> (lease[q][j] # NoObject \/ (q = r /\ j = k))
  BY TakeCounts DEF IInv
<1>4. [j \in Keys |-> H(j)]' = [[j \in Keys |-> H(j)] EXCEPT ![k] = @ \cup {r}]
  <2>1. ASSUME NEW j \in Keys
        PROVE  H(j)' = IF j = k THEN H(k) \cup {r} ELSE H(j)
    BY <1>3
  <2> HIDE DEF H
  <2> QED BY <2>1, Zenon
<1>5. [j \in Keys |-> LimitOf(config, j)]' = [j \in Keys |-> LimitOf(config, j)]
  BY DEF Take
<1>6. [j \in Keys |-> H(j)][k] = H(k) /\ [j \in Keys |-> LimitOf(config, j)][k] = LimitOf(config, k)
  OBVIOUS
<1> QED BY <1>1, <1>2, <1>4, <1>5, <1>6, SameCardinality DEF Promise!Admit

LEMMA GiveLeaves ==
  ASSUME IInv, NEW r \in Requests, NEW k \in Keys, lease[r][k] # NoObject, Give(r, k)
  PROVE  Promise!Leave(k, r)
<1> DEFINE H(j) == {q \in Requests: lease[q][j] # NoObject}
<1>1. r \in H(k)
  OBVIOUS
<1>2. \A q \in Requests, j \in Keys:
        (lease'[q][j] # NoObject) <=> (lease[q][j] # NoObject /\ ~(q = r /\ j = k))
  BY GiveCounts DEF IInv
<1>3. [j \in Keys |-> H(j)]' = [[j \in Keys |-> H(j)] EXCEPT ![k] = @ \ {r}]
  <2>1. ASSUME NEW j \in Keys
        PROVE  H(j)' = IF j = k THEN H(k) \ {r} ELSE H(j)
    BY <1>2
  <2> HIDE DEF H
  <2> QED BY <2>1, Zenon
<1>4. [j \in Keys |-> LimitOf(config, j)]' = [j \in Keys |-> LimitOf(config, j)]
  BY DEF Give
<1> QED BY <1>1, <1>3, <1>4 DEF Promise!Leave

AbstractVars == <<[k \in Keys |-> {r \in Requests: lease[r][k] # NoObject}],
                  [k \in Keys |-> LimitOf(config, k)]>>

LEMMA StepPromised == IInv /\ [Next]_vars => [Promise!Next]_AbstractVars
<1> SUFFICES ASSUME IInv, [Next]_vars PROVE [Promise!Next]_AbstractVars
  OBVIOUS
<1>1. CASE ApplyConfig
  <2>1. PICK c \in Configs: config' = c /\ lease' = lease
    BY <1>1 DEF ApplyConfig
  <2>2. \A k \in Keys: LimitOf(c, k) \in Limits
    BY DEF LimitOf, Configs, Keys
  <2>3. Promise!Resize
    BY <2>1, <2>2 DEF Promise!Resize
  <2> QED BY <2>3 DEF Promise!Next, AbstractVars
<1>2. ASSUME NEW r \in Requests, Enter(r) \/ Step(r)
      PROVE  [Promise!Next]_AbstractVars
  <2>0. target[r] \in Keys /\ CredentialOf[target[r]] \in Keys /\ CredentialOf[target[r]] # target[r]
    BY TwoKeys DEF IInv
  <2>1. CASE Enter(r)
    <3>1. lease' = lease
      <4>1. \A k \in Keys: lease[r][k] = NoObject
        BY <2>1 DEF Enter, IInv, AttemptInv, HeldKeys
      <4> QED BY <2>1, <4>1 DEF IInv, TypeOK, NoLease, Enter
    <3> QED BY <2>1, <3>1 DEF Enter, AbstractVars
  <2>2. CASE TakeCredential(r)
    <3>1. CASE Take(r, CredentialOf[target[r]])
      <4>1. lease[r][CredentialOf[target[r]]] = NoObject
        BY <2>0, <2>2 DEF TakeCredential, IInv, AttemptInv, HeldKeys
      <4>2. CredentialOf[target[r]] \in Listed(config)
        BY <2>2 DEF TakeCredential, IInv, AttemptInv, TypeOK, Configs, Listed
      <4> QED BY <2>0, <3>1, <4>1, <4>2, TakeAdmits DEF Promise!Next
    <3>2. CASE UNCHANGED <<config, lease>>
      BY <3>2 DEF AbstractVars
    <3> QED BY <2>2, <3>1, <3>2 DEF TakeCredential
  <2>3. CASE TakeWorkspace(r)
    <3>1. CASE Take(r, target[r])
      <4>1. lease[r][target[r]] = NoObject
        BY <2>0, <2>3 DEF TakeWorkspace, IInv, AttemptInv, HeldKeys
      <4>2. target[r] \in Listed(config)
        BY <2>3 DEF TakeWorkspace, IInv, AttemptInv, Listed
      <4> QED BY <2>0, <3>1, <4>1, <4>2, TakeAdmits DEF Promise!Next
    <3>2. CASE UNCHANGED <<config, lease>>
      BY <3>2 DEF AbstractVars
    <3> QED BY <2>3, <3>1, <3>2 DEF TakeWorkspace
  <2>4. CASE Rollback(r) \/ ReleaseCredential(r)
    <3>1. lease[r][CredentialOf[target[r]]] # NoObject /\ Give(r, CredentialOf[target[r]])
      BY <2>0, <2>4 DEF Rollback, ReleaseCredential, IInv, AttemptInv, HeldKeys
    <3> QED BY <2>0, <3>1, GiveLeaves DEF Promise!Next
  <2>5. CASE ReleaseWorkspace(r)
    <3>1. lease[r][target[r]] # NoObject /\ Give(r, target[r])
      BY <2>0, <2>5 DEF ReleaseWorkspace, IInv, AttemptInv, HeldKeys
    <3> QED BY <2>0, <3>1, GiveLeaves DEF Promise!Next
  <2>6. CASE Return(r)
    BY <2>6 DEF Return, AbstractVars
  <2> QED BY <1>2, <2>1, <2>2, <2>3, <2>4, <2>5, <2>6 DEF Step
<1>3. CASE UNCHANGED vars
  BY <1>3 DEF vars, AbstractVars
<1> QED BY <1>1, <1>2, <1>3 DEF Next

LEMMA InitPromised == Init => Promise!Init
<1> SUFFICES ASSUME Init PROVE Promise!Init
  OBVIOUS
<1>1. \A k \in Keys: LimitOf(config, k) \in Limits
  BY DEF Init, LimitOf, Configs, Keys
<1>2. \A k \in Keys: {r \in Requests: lease[r][k] # NoObject} = {}
  BY DEF Init, NoLease
<1> QED BY <1>1, <1>2 DEF Promise!Init

(* The slots implement Capacity: no credential and no workspace admits a    *)
(* request beyond the limit configured at that moment, whatever happened to *)
(* the configuration while requests were in flight.                         *)
THEOREM Implements == Spec => HoldsLimits
BY InitPromised, StepPromised, Inductive, PTL DEF Spec, HoldsLimits, Promise!Spec, AbstractVars
===============================================================================
