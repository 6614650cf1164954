----------------------------- MODULE DispatchSlots -----------------------------
(***************************************************************************)
(* The concurrency slots of the dispatcher (main.go): an in-flight counter *)
(* and a limit per credential and per workspace, held in a table that a    *)
(* change of the configuration rebuilds while requests are in flight.      *)
(*                                                                         *)
(* A slot is an object: a key may lose its slot and later get a new one.   *)
(* A request that acquired an object must give back that very object, so   *)
(* objects have an identity here, <<key, object>>, apart from the table.   *)
(*                                                                         *)
(* Acquiring and releasing hold s.mu for reading and interleave with each  *)
(* other; a rebuild holds s.mu exclusively and is one step.                *)
(***************************************************************************)
EXTENDS Naturals, FiniteSets

CONSTANTS
  Requests,       \* dispatch attempts, each the sequence of its acquisitions
  Credentials,    \* accounts, one credential slot each
  Workspaces,     \* account workspaces, one slot each
  CredentialOf,   \* the account of a workspace
  MaxLimit,       \* largest concurrency limit the configuration gives (bound)
  Objects,        \* names for the slot objects of one key (bound)
  NoObject        \* "no slot": the zero value of the table, and of a lease

ASSUME SlotAssumption ==
  /\ Credentials \cap Workspaces = {}
  /\ CredentialOf \in [Workspaces -> Credentials]
  /\ MaxLimit \in Nat
  /\ IsFiniteSet(Requests)
  /\ NoObject \notin Objects

VARIABLES
  config,     \* s.Config: the accounts and workspaces listed, and their limits
  table,      \* s.slots: the object of each key, or NoObject
  inflight,   \* inflight[k][o]: accountSlot.inflight of an object
  max,        \* max[k]: accountSlot.max of the table's object of a key
  pc,         \* where an attempt is
  target,     \* the workspace of an attempt: the candidate it dispatches to
  lease       \* the objects its dispatchSlotLease lists, per key

vars == <<config, table, inflight, max, pc, target, lease>>

Keys == Credentials \cup Workspaces
Limits == 1..MaxLimit
Slot == Objects \cup {NoObject}

NoLease == [k \in Keys |-> NoObject]

\* Inside the read-side critical section of acquire or release.
Inside == {"credential", "workspace", "rollback", "releasing"}
Pcs == Inside \cup {"idle", "running", "released"}

\* What the slots take from a configuration: one limit for all the accounts
\* (Dispatch.AccountMaxConcurrency), one per workspace.
Configs ==
  {c \in [accounts: SUBSET Credentials, workspaces: SUBSET Workspaces,
          accountMax: Limits, max: [Workspaces -> Limits]]:
     \A w \in c.workspaces: CredentialOf[w] \in c.accounts}

LimitOf(c, k) == IF k \in Credentials THEN c.accountMax ELSE c.max[k]

\* The keys rebuildAccountSlotsLocked walks: the listed accounts and workspaces.
Listed(c) == c.accounts \cup c.workspaces

\* The requests whose lease lists object o of key k.
HoldersOf(k, o) == {r \in Requests: lease[r][k] = o}
-------------------------------------------------------------------------------
Init ==
  /\ config \in Configs
  /\ table \in [Keys -> Slot]
  /\ \A k \in Keys: (table[k] # NoObject) <=> (k \in Listed(config))
  /\ inflight = [k \in Keys |-> [o \in Objects |-> 0]]
  /\ max = [k \in Keys |-> LimitOf(config, k)]
  /\ pc = [r \in Requests |-> "idle"]
  /\ target \in [Requests -> Workspaces]
  /\ lease = [r \in Requests |-> NoLease]

\* Mutant: a rebuild that walks only the listed keys.
RebuiltListedOnly(c, next) ==
  \A k \in Keys:
    IF k \in Listed(c)
    THEN IF table[k] # NoObject
         THEN next[k] = table[k]
         ELSE next[k] \in Objects /\ HoldersOf(k, next[k]) = {}
    ELSE next[k] = NoObject

\* rebuildAccountSlotsLocked: a listed key keeps its object or gets a new one,
\* a key no longer listed keeps its object while a request is in flight on it.
Rebuilt(c, next) ==
  \A k \in Keys:
    IF k \in Listed(c)
    THEN IF table[k] # NoObject
         THEN next[k] = table[k]
         ELSE next[k] \in Objects /\ HoldersOf(k, next[k]) = {}
    ELSE next[k] = IF table[k] # NoObject /\ inflight[k][table[k]] > 0
                   THEN table[k]
                   ELSE NoObject

\* ApplyConfig: the whole exclusive section. A new object starts at zero; every
\* listed key's object takes the configured limit.
ApplyConfig ==
  /\ \A r \in Requests: pc[r] \notin Inside
  /\ \E c \in Configs, next \in [Keys -> Slot]:
       /\ Rebuilt(c, next)
       /\ config' = c
       /\ table' = next
       /\ inflight' = [k \in Keys |-> [o \in Objects |->
                         IF table[k] = NoObject /\ next[k] = o THEN 0 ELSE inflight[k][o]]]
       /\ max' = [k \in Keys |-> IF k \in Listed(c) THEN LimitOf(c, k) ELSE max[k]]
  /\ UNCHANGED <<pc, target, lease>>

\* acquireWorkspaceDispatchSlot: s.mu.RLock and the lookup in the live
\* configuration; an attempt whose workspace is not listed gets no lease.
\* The same steps serve the retry of a refreshed account, whose first lease
\* was released ("released").
Enter(r) ==
  /\ pc[r] \in {"idle", "released"}
  /\ target[r] \in config.workspaces
  /\ pc' = [pc EXCEPT ![r] = "credential"]
  /\ lease' = [lease EXCEPT ![r] = NoLease]
  /\ UNCHANGED <<config, table, inflight, max, target>>

\* Mutant: one request more than the limit.
HasRoomForOneMore(k) ==
  /\ table[k] # NoObject
  /\ inflight[k][table[k]] <= max[k]

HasRoom(k) ==
  /\ table[k] # NoObject
  /\ inflight[k][table[k]] < max[k]

\* tryAcquireAccountSlot: the compare-and-swap on the table's object of key k,
\* and the object appended to the lease.
Take(r, k) ==
  /\ HasRoom(k)
  /\ inflight' = [inflight EXCEPT ![k][table[k]] = @ + 1]
  /\ lease' = [lease EXCEPT ![r][k] = table[k]]
  /\ UNCHANGED <<config, table, max, target>>

TakeCredential(r) ==
  /\ pc[r] = "credential"
  /\ \/ /\ Take(r, CredentialOf[target[r]])
        /\ pc' = [pc EXCEPT ![r] = "workspace"]
     \/ /\ ~HasRoom(CredentialOf[target[r]])
        /\ pc' = [pc EXCEPT ![r] = "idle"]
        /\ UNCHANGED <<config, table, inflight, max, target, lease>>

TakeWorkspace(r) ==
  /\ pc[r] = "workspace"
  /\ \/ /\ Take(r, target[r])
        /\ pc' = [pc EXCEPT ![r] = "running"]
     \/ /\ ~HasRoom(target[r])
        /\ pc' = [pc EXCEPT ![r] = "rollback"]
        /\ UNCHANGED <<config, table, inflight, max, target, lease>>

\* releaseAccountSlot on the object the lease lists for key k; a counter that
\* is already zero stays zero.
Give(r, k) ==
  /\ inflight' = [inflight EXCEPT ![k][lease[r][k]] = IF @ > 0 THEN @ - 1 ELSE @]
  /\ lease' = [lease EXCEPT ![r][k] = NoObject]
  /\ UNCHANGED <<config, table, max, target>>

\* Mutant: an admission that fails on the workspace keeps the credential slot.
RollbackNothing(r) ==
  /\ pc[r] = "rollback"
  /\ lease' = [lease EXCEPT ![r] = NoLease]
  /\ pc' = [pc EXCEPT ![r] = "idle"]
  /\ UNCHANGED <<config, table, inflight, max, target>>

Rollback(r) ==
  /\ pc[r] = "rollback"
  /\ Give(r, CredentialOf[target[r]])
  /\ pc' = [pc EXCEPT ![r] = "idle"]

\* dispatchSlotLease.release, the first time it is called: the objects in the
\* reverse of the order they were acquired in.
ReleaseWorkspace(r) ==
  /\ pc[r] = "running"
  /\ Give(r, target[r])
  /\ pc' = [pc EXCEPT ![r] = "releasing"]

ReleaseCredential(r) ==
  /\ pc[r] = "releasing"
  /\ Give(r, CredentialOf[target[r]])
  /\ pc' = [pc EXCEPT ![r] = "released"]

\* The deferred release when dispatchCandidate returns: sync.Once makes it do
\* nothing after an earlier one.
Return(r) ==
  /\ pc[r] = "released"
  /\ pc' = [pc EXCEPT ![r] = "idle"]
  /\ UNCHANGED <<config, table, inflight, max, target, lease>>

Step(r) ==
  \/ TakeCredential(r)
  \/ TakeWorkspace(r)
  \/ Rollback(r)
  \/ ReleaseWorkspace(r)
  \/ ReleaseCredential(r)
  \/ Return(r)

Next ==
  \/ ApplyConfig
  \/ \E r \in Requests: Enter(r) \/ Step(r)

Spec == Init /\ [][Next]_vars

-------------------------------------------------------------------------------
TypeOK ==
  /\ config \in Configs
  /\ table \in [Keys -> Slot]
  /\ inflight \in [Keys -> [Objects -> Nat]]
  /\ max \in [Keys -> Limits]
  /\ pc \in [Requests -> Pcs]
  /\ target \in [Requests -> Workspaces]
  /\ lease \in [Requests -> [Keys -> Slot]]

\* The in-flight counter of every object is the number of requests whose lease
\* lists it: no path through acquire, roll back, release and the second,
\* deferred release leaks a slot or gives one back twice.
CountsLeases ==
  \A k \in Keys, o \in Objects: inflight[k][o] = Cardinality(HoldersOf(k, o))

\* A request in flight never loses its slot to a rebuild, whatever the
\* configuration did to its workspace meanwhile: the object it will release is
\* the object the table has for that key.
SlotSurvives ==
  \A r \in Requests, k \in Keys: lease[r][k] # NoObject => table[k] = lease[r][k]

\* The keys an attempt holds at each point of its way.
HeldKeys(r) ==
  {k \in Keys:
     \/ k = CredentialOf[target[r]] /\ pc[r] \in {"workspace", "rollback", "running", "releasing"}
     \/ k = target[r] /\ pc[r] = "running"}

\* What each attempt holds, and what it may rely on inside the critical section.
AttemptInv ==
  \A r \in Requests:
    /\ \A k \in Keys: lease[r][k] # NoObject <=> k \in HeldKeys(r)
    /\ pc[r] \in {"credential", "workspace"} => target[r] \in config.workspaces

\* Every listed key has a slot, and its limit is the configured one.
TableInv ==
  \A k \in Listed(config):
    table[k] # NoObject /\ max[k] = LimitOf(config, k)

\* The inductive invariant.
IInv == TypeOK /\ CountsLeases /\ SlotSurvives /\ AttemptInv /\ TableInv

\* The slots implement the abstract capacity: a request is admitted to a
\* credential or a workspace only while fewer requests than the limit now
\* configured are in flight on it, across removals, re-additions and lowered
\* limits.
Promise == INSTANCE Capacity WITH
  holders <- [k \in Keys |-> {r \in Requests: lease[r][k] # NoObject}],
  limit   <- [k \in Keys |-> LimitOf(config, k)]

HoldsLimits == Promise!Spec
===============================================================================
