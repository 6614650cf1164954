-------------------------- MODULE AccountPool_proofs --------------------------
(***************************************************************************)
(* For every set of requests, accounts and workspaces, all limits, quotas  *)
(* and cooldowns: prompts stay within the slots, request windows within    *)
(* their quota, a pause that upstream asked for is on record before the    *)
(* account is used again, and no commit shortens one.                      *)
(***************************************************************************)
EXTENDS AccountPool, FiniteSetTheorems, TLAPS

USE PoolAssumption

LEMMA Constants ==
  /\ CredentialLimit \in Nat /\ WorkspaceLimit \in Nat /\ HourlyQuota \in Nat /\ Window \in Nat
  /\ Cooldown \in Nat /\ QuotaCooldown \in Nat /\ MaxTime \in Nat /\ MaxFaults \in Nat
  /\ MaxEdits \in Nat /\ MaxTime > 0
OBVIOUS

(***************************************************************************)
(* Records: what the operations on them return.                            *)
(***************************************************************************)
LEMMA Literals ==
  /\ {"ready", "failed", "expired", "pending_code", "quota_exhausted"} \subseteq Statuses
  /\ 0 \in Nat /\ 0 \in 0..MaxFaults /\ 0 \in 0..MaxTime
BY Constants DEF Statuses

LEMMA BookFields ==
  ASSUME NEW b \in Books
  PROVE  /\ b.status \in Statuses /\ b.until \in Nat /\ b.mark \in 0..MaxFaults
         /\ b.quotaAt \in 0..MaxFaults /\ b.fails \in Nat /\ b.started \in 0..MaxTime
         /\ b.count \in Nat
BY DEF Books

LEMMA BookStatus ==
  ASSUME NEW b \in Books, NEW s \in Statuses
  PROVE  /\ [b EXCEPT !.status = s] \in Books
         /\ [b EXCEPT !.status = s].count = b.count
BY DEF Books

LEMMA BookCounted ==
  ASSUME NEW b \in Books, NEW f \in Nat, NEW m \in 0..MaxFaults
  PROVE  /\ [b EXCEPT !.fails = f, !.mark = m] \in Books
         /\ [b EXCEPT !.fails = f, !.mark = m].count = b.count
BY DEF Books

LEMMA BookCooled ==
  ASSUME NEW b \in Books, NEW s \in Statuses, NEW u \in Nat
  PROVE  /\ [b EXCEPT !.status = s, !.until = u] \in Books
         /\ [b EXCEPT !.status = s, !.until = u].count = b.count
BY DEF Books

LEMMA BookDrained ==
  ASSUME NEW b \in Books, NEW s \in Statuses, NEW q \in 0..MaxFaults, NEW u \in Nat
  PROVE  /\ [b EXCEPT !.status = s, !.quotaAt = q, !.until = u] \in Books
         /\ [b EXCEPT !.status = s, !.quotaAt = q, !.until = u].count = b.count
BY DEF Books

LEMMA BookCleared ==
  ASSUME NEW b \in Books, NEW s \in Statuses, NEW u \in Nat, NEW m \in 0..MaxFaults, NEW f \in Nat
  PROVE  /\ [b EXCEPT !.status = s, !.until = u, !.mark = m, !.fails = f] \in Books
         /\ [b EXCEPT !.status = s, !.until = u, !.mark = m, !.fails = f].count = b.count
BY DEF Books

LEMMA BookWindow ==
  ASSUME NEW b \in Books, NEW t \in 0..MaxTime, NEW n \in Nat
  PROVE  [b EXCEPT !.started = t, !.count = n] \in Books
BY DEF Books

LEMMA BookCount ==
  ASSUME NEW b \in Books, NEW n \in Nat
  PROVE  [b EXCEPT !.count = n] \in Books
BY DEF Books

LEMMA WindowType ==
  ASSUME now \in 1..MaxTime, NEW b \in Books
  PROVE  WindowOf(b) \in Books
<1>1. now \in 0..MaxTime
  BY Constants
<1>2. [b EXCEPT !.started = 0, !.count = 0] \in Books /\ [b EXCEPT !.started = now, !.count = 0] \in Books
  BY <1>1, BookWindow, Literals
<1> QED BY <1>2 DEF WindowOf

\* A request that begins while there is quota leaves the window within it.
LEMMA StartType ==
  ASSUME now \in 1..MaxTime, NEW b \in Books
  PROVE  /\ MarkStart(b) \in Books
         /\ HourlyQuota > 0 /\ HasQuota(b) => MarkStart(b).count <= HourlyQuota
<1> DEFINE fresh == WindowOf(b)
           n == IF HourlyQuota > 0 THEN fresh.count + 1 ELSE fresh.count
<1>1. fresh \in Books
  BY WindowType
<1>2. fresh.count \in Nat
  BY <1>1, BookFields
<1>3. n \in Nat
  BY <1>2, Constants
<1>4. MarkStart(b) = [fresh EXCEPT !.count = n]
  BY DEF MarkStart
<1>5. MarkStart(b) \in Books
  <2> HIDE DEF n, fresh
  <2>1. [fresh EXCEPT !.count = n] \in Books
    BY <1>1, <1>3, BookCount
  <2> QED BY <2>1, <1>4
<1>6. MarkStart(b).count = n
  <2> HIDE DEF n, fresh
  <2> QED BY <1>1, <1>3, <1>4 DEF Books
<1>7. HourlyQuota > 0 /\ HasQuota(b) => n <= HourlyQuota
  <2>1. HourlyQuota > 0 /\ HasQuota(b) => fresh.count < HourlyQuota
    BY Constants DEF HasQuota
  <2> HIDE DEF fresh
  <2> QED BY <1>2, <2>1, Constants
<1> QED BY <1>5, <1>6, <1>7

LEMMA SuccessType ==
  ASSUME NEW b \in Books
  PROVE  MarkSuccess(b) \in Books /\ MarkSuccess(b).count = b.count
<1> DEFINE ready == "ready"
           zero == 0
<1>1. ready \in Statuses /\ zero \in Nat /\ zero \in 0..MaxFaults
  BY Literals
<1>2. MarkSuccess(b) =
        [b EXCEPT !.status = ready, !.until = zero, !.mark = zero, !.fails = zero]
  BY DEF MarkSuccess
<1> HIDE DEF ready, zero
<1> QED BY <1>1, <1>2 DEF Books

LEMMA ErrorType ==
  ASSUME NEW e \in Errors
  PROVE  e.kind \in Kinds /\ e.wait \in Nat
<1>1. e \in [kind: Kinds, wait: Waits \cup {0}]
  BY DEF Errors
<1>2. e.kind \in Kinds
  BY <1>1
<1>3. e.wait \in Waits \cup {0}
  BY <1>1
<1>4. e.wait \in Nat
  <2>1. Waits \subseteq Nat
    OBVIOUS
  <2>2. CASE e.wait \in Waits
    BY <2>1, <2>2, Zenon
  <2>3. CASE e.wait = 0
    BY <2>3
  <2> QED BY <1>3, <2>2, <2>3
<1> QED BY <1>2, <1>4

LEMMA NamedErrors == NoError \in Errors /\ Other \in Errors
BY DEF Errors, NoError, Other, Kinds, Pausing

LEMMA FailureType ==
  ASSUME now \in 1..MaxTime, NEW b \in Books, NEW e \in Errors, NEW retryable \in BOOLEAN,
         NEW n \in 0..MaxFaults
  PROVE  MarkFailure(b, e, retryable, n) \in Books /\ MarkFailure(b, e, retryable, n).count = b.count
<1> DEFINE counted == [b EXCEPT !.fails = b.fails + 1, !.mark = n]
           status == IF counted.status = "pending_code" THEN counted.status
                     ELSE IF retryable THEN "expired" ELSE "failed"
           until == IF e.kind = "rate" THEN Max2(now + Cooldown, now + e.wait) ELSE now + Cooldown
           after == now + QuotaCooldown
           drained == "quota_exhausted"
<1>1. b.fails + 1 \in Nat
  BY BookFields
<1>2. counted \in Books /\ counted.count = b.count
  BY <1>1, BookCounted
<1>3. MarkFailure(b, e, retryable, n) =
        IF e.kind = "quota"
        THEN [counted EXCEPT !.status = drained, !.quotaAt = n, !.until = after]
        ELSE [counted EXCEPT !.status = status, !.until = until]
  BY DEF MarkFailure
<1>4. until \in Nat /\ after \in Nat
  BY Constants, ErrorType DEF Max2
<1>5. status \in Statuses /\ drained \in Statuses
  BY <1>2, BookFields, Literals
<1> HIDE DEF counted, status, until, after, drained
<1>6. /\ [counted EXCEPT !.status = drained, !.quotaAt = n, !.until = after] \in Books
      /\ [counted EXCEPT !.status = drained, !.quotaAt = n, !.until = after].count
           = counted.count
  BY <1>2, <1>4, <1>5 DEF Books
<1>7. /\ [counted EXCEPT !.status = status, !.until = until] \in Books
      /\ [counted EXCEPT !.status = status, !.until = until].count = counted.count
  BY <1>2, <1>4, <1>5, BookCooled
<1> QED BY <1>2, <1>3, <1>6, <1>7

LEMMA RefreshedType ==
  ASSUME NEW started \in Books, NEW ended \in Books, NEW live \in Books
  PROVE  Refreshed(started, ended, live) \in Books /\ Refreshed(started, ended, live).count = live.count
<1>1. MarkSuccess(live) \in Books /\ MarkSuccess(live).count = live.count
  BY SuccessType
<1>2. ended.status \in Statuses
  BY BookFields
<1>3. [live EXCEPT !.status = ended.status] \in Books /\ [live EXCEPT !.status = ended.status].count = live.count
  BY <1>2, BookStatus
<1> QED BY <1>1, <1>3 DEF Refreshed, MarkSuccess

LEMMA BackoffType ==
  ASSUME now \in 1..MaxTime, NEW e \in Errors
  PROVE  Backoff(e) \in Nat
BY ErrorType, Constants DEF Backoff

LEMMA ConfigFields ==
  ASSUME NEW c \in Configs
  PROVE  /\ c.book \in [Workspaces -> Books] /\ c.paused \in [Accounts -> Nat]
         /\ c.relogin \in [Accounts -> 0..MaxTime] /\ c.disabled \in SUBSET Accounts
         /\ c.active \in Workspaces \cup {NoWorkspace}
BY DEF Configs

LEMMA NoConfigType == NoConfig \in Configs
BY Constants DEF NoConfig, Configs, Books, Statuses

LEMMA ViewType ==
  ASSUME NEW c \in Configs
  PROVE  RefreshView(c) \in Configs /\ RequestView(c) \in Configs
<1>1. \A w \in Workspaces: c.book[w] \in Books
  BY ConfigFields
<1>4. \A w \in Workspaces: [c.book[w] EXCEPT !.started = 0, !.count = 0] \in Books
  BY <1>1, BookWindow, Literals
<1>2. RefreshView(c) \in Configs
  BY <1>4, ConfigFields DEF RefreshView, Configs
<1>3. RequestView(c) \in Configs
  BY <1>2 DEF RequestView, Configs
<1> QED BY <1>2, <1>3

\* A copy that a refresh or a relogin ends with.
LEMMA CopyType ==
  ASSUME NEW c \in Configs, NEW w \in Workspaces, NEW status \in Statuses, NEW t \in 0..MaxTime
  PROVE  /\ Renewed(c, w) \in Configs
         /\ Expired(c, w, status) \in Configs
         /\ [Renewed(c, w) EXCEPT !.relogin[AccountOf[w]] = t] \in Configs
         /\ [Expired(c, w, status) EXCEPT !.relogin[AccountOf[w]] = t] \in Configs
<1>4. c.book[w] \in Books
  BY ConfigFields
<1>1. MarkSuccess(c.book[w]) \in Books /\ [c.book[w] EXCEPT !.status = status] \in Books
  BY <1>4, SuccessType, BookStatus
<1>2. Renewed(c, w) \in Configs
  BY <1>1, ConfigFields DEF Renewed, Configs
<1>3. Expired(c, w, status) \in Configs
  BY <1>1, ConfigFields DEF Expired, Configs
<1> QED BY <1>2, <1>3 DEF Configs

\* commitAccountRefreshResult touches neither a window nor a pause.
LEMMA CommittedType ==
  ASSUME cfg \in Configs, NEW old \in Configs, NEW new \in Configs, NEW w \in Workspaces,
         NEW makeActive \in BOOLEAN
  PROVE  /\ Committed(old, new, w, makeActive) \in Configs
         /\ Committed(old, new, w, makeActive).paused = cfg.paused
         /\ \A v \in Workspaces:
              Committed(old, new, w, makeActive).book[v].count = cfg.book[v].count
<1> DEFINE live == Refreshed(old.book[w], new.book[w], cfg.book[w])
           c == Committed(old, new, w, makeActive)
<1>1. live \in Books /\ live.count = cfg.book[w].count
  BY RefreshedType, ConfigFields
<1>2. /\ c.book = [cfg.book EXCEPT ![w] = live]
      /\ c.paused = cfg.paused
      /\ c.disabled = cfg.disabled
  BY DEF Committed, Configs
<1>3. c \in Configs
  BY <1>1, ConfigFields DEF Committed, Configs
<1>4. \A v \in Workspaces: c.book[v].count = cfg.book[v].count
  BY <1>1, <1>2, ConfigFields
<1> QED BY <1>2, <1>3, <1>4

(***************************************************************************)
(* Requests: what becomes of the one that moves, the others stay.          *)
(***************************************************************************)
Moves(r) ==
  /\ req' \in [Requests -> Dispatches]
  /\ \A q \in Requests \ {r}: req'[q] = req[q]

Becomes(r, pc, lease) ==
  /\ Moves(r)
  /\ req'[r].pc = pc
  /\ req'[r].lease = lease

\* r takes no slot, and stays under a lease while its prompt runs.
Releases(r) ==
  /\ Moves(r)
  /\ req'[r].lease => req[r].lease /\ req'[r].at = req[r].at
  /\ req'[r].pc \in {"leased", "begun", "rerun"} => req'[r].lease
  /\ req'[r].lease \/ req'[r].pc \notin {"idle", "next"} => req'[r].at \in Workspaces

LEMMA DispatchFields ==
  ASSUME NEW d \in Dispatches
  PROVE  /\ d.pc \in Pcs /\ d.todo \subseteq Workspaces /\ d.at \in Workspaces \cup {NoWorkspace}
         /\ d.lease \in BOOLEAN /\ d.seen \in Configs /\ d.relogged \in 0..MaxTime
         /\ d.err \in Errors /\ d.nth \in 0..MaxFaults
BY DEF Dispatches

LEMMA IdleType == Idle \in Dispatches
BY NamedErrors, NoConfigType, Literals DEF Idle, Dispatches, Pcs

LEMMA GoesStep ==
  ASSUME req \in [Requests -> Dispatches], NEW r \in Requests, NEW pc \in Pcs,
         NEW lease \in BOOLEAN, Goes(r, pc, lease)
  PROVE  Becomes(r, pc, lease) /\ req'[r].at = req[r].at
<1> DEFINE d == [req[r] EXCEPT !.pc = pc, !.lease = lease]
<1>1. req[r] \in Dispatches /\ req' = [req EXCEPT ![r] = d]
  BY DEF Goes
<1>2. d \in Dispatches /\ d.pc = pc /\ d.lease = lease /\ d.at = req[r].at
  BY <1>1 DEF Dispatches
<1> HIDE DEF d
<1> QED BY <1>1, <1>2 DEF Becomes, Moves

LEMMA GoesWithStep ==
  ASSUME req \in [Requests -> Dispatches], NEW r \in Requests, NEW pc \in Pcs,
         NEW lease \in BOOLEAN, NEW e \in Errors, faults + 1 \in 0..MaxFaults,
         GoesWith(r, pc, lease, e)
  PROVE  Becomes(r, pc, lease) /\ req'[r].at = req[r].at /\ req'[r].err = e
<1> DEFINE n == faults + 1
           d == [req[r] EXCEPT !.pc = pc, !.lease = lease, !.err = e, !.nth = n]
<1>1. req[r] \in Dispatches /\ n \in 0..MaxFaults
  OBVIOUS
<1>2. req' = [req EXCEPT ![r] = d]
  BY DEF GoesWith
<1> HIDE DEF n
<1>3. /\ d \in Dispatches
      /\ d.pc = pc /\ d.lease = lease /\ d.err = e /\ d.at = req[r].at
  BY <1>1 DEF Dispatches
<1> HIDE DEF d
<1> QED BY <1>2, <1>3 DEF Becomes, Moves

LEMMA EndsStep ==
  ASSUME req \in [Requests -> Dispatches], NEW r \in Requests, Ends(r)
  PROVE  Becomes(r, "idle", FALSE)
<1>1. req'[r] = Idle /\ \A q \in Requests \ {r}: req'[q] = req[q]
  BY DEF Ends
<1>2. req' \in [Requests -> Dispatches]
  BY IdleType DEF Ends
<1> QED BY <1>1, <1>2 DEF Becomes, Moves, Idle

\* A request that looks for its next candidate.
LEMMA NextType ==
  ASSUME NEW todo \in SUBSET Workspaces, NEW c \in Configs
  PROVE  LET d == [Idle EXCEPT !.pc = "next", !.todo = todo, !.seen = c]
         IN  d \in Dispatches /\ d.pc = "next" /\ d.lease = FALSE
<1> DEFINE pc == "next"
<1>1. Idle \in Dispatches /\ pc \in Pcs
  BY IdleType DEF Pcs
<1>2. Idle.lease = FALSE
  BY DEF Idle
<1>3. [Idle EXCEPT !.pc = pc, !.todo = todo, !.seen = c] \in Dispatches
  <2> HIDE DEF pc
  <2> QED BY <1>1 DEF Dispatches
<1>4. /\ [Idle EXCEPT !.pc = pc, !.todo = todo, !.seen = c].pc = pc
      /\ [Idle EXCEPT !.pc = pc, !.todo = todo, !.seen = c].lease = Idle.lease
  <2> HIDE DEF pc
  <2> QED BY <1>1 DEF Dispatches
<1> QED BY <1>2, <1>3, <1>4

LEMMA MovesOnStep ==
  ASSUME req \in [Requests -> Dispatches], NEW r \in Requests, MovesOn(r)
  PROVE  Becomes(r, "next", FALSE)
<1> DEFINE d == [Idle EXCEPT !.pc = "next", !.todo = req[r].todo, !.seen = req[r].seen]
<1>1. d \in Dispatches /\ d.pc = "next" /\ d.lease = FALSE
  BY NextType, DispatchFields
<1>2. req' = [req EXCEPT ![r] = d]
  BY DEF MovesOn
<1> HIDE DEF d
<1> QED BY <1>1, <1>2 DEF Becomes, Moves

(***************************************************************************)
(* The configuration: what a save leaves of the invariant.                 *)
(***************************************************************************)
\* No window is charged and no pause ends.
Lenient(new) ==
  /\ new \in Configs
  /\ \A a \in Accounts: new.paused[a] >= cfg.paused[a]
  /\ \A w \in Workspaces: new.book[w].count <= cfg.book[w].count

\* No pause is cut short.
PausesHold == \A a \in Accounts: cfg'.paused[a] >= cfg.paused[a]

\* What every step but the begin of a dispatch does to the configuration.
Harmless ==
  /\ order' \subseteq Workspaces
  /\ Lenient(cfg')

LEMMA SaveHarmless ==
  ASSUME NEW new, Lenient(new), Saved(new)
  PROVE  Harmless
BY DEF Saved, EligibleIn, Harmless

LEMMA UnchangedHarmless ==
  ASSUME TypeOK, UNCHANGED <<cfg, order>>
  PROVE  Harmless
<1>1. cfg \in Configs /\ order \subseteq Workspaces
  BY DEF TypeOK
<1>2. \A a \in Accounts: cfg.paused[a] \in Nat
  BY <1>1, ConfigFields
<1>3. \A w \in Workspaces: cfg.book[w].count \in Nat
  BY <1>1, ConfigFields, BookFields
<1> QED BY <1>1, <1>2, <1>3 DEF Harmless, Lenient

LEMMA SaveFailedHarmless ==
  ASSUME TypeOK, NEW new, Lenient(new), SaveFailed(new)
  PROVE  Harmless /\ faults + 1 \in 0..MaxFaults /\ faults' \in 0..MaxFaults
<1>1. Harmless
  BY SaveHarmless, UnchangedHarmless DEF SaveFailed
<1>2. faults + 1 \in 0..MaxFaults /\ faults' = faults + 1
  BY Constants DEF SaveFailed, TypeOK
<1> QED BY <1>1, <1>2

LEMMA SavedOrNotHarmless ==
  ASSUME TypeOK, NEW new, Lenient(new), SavedOrNot(new)
  PROVE  Harmless /\ faults' \in 0..MaxFaults
<1>1. CASE Saved(new) /\ UNCHANGED faults
  BY <1>1, SaveHarmless DEF TypeOK
<1>2. CASE SaveFailed(new)
  BY <1>2, SaveFailedHarmless
<1> QED BY <1>1, <1>2 DEF SavedOrNot

LEMMA CommittedLenient ==
  ASSUME TypeOK, NEW old \in Configs, NEW new \in Configs, NEW w \in Workspaces,
         NEW makeActive \in BOOLEAN
  PROVE  Lenient(Committed(old, new, w, makeActive))
<1> DEFINE c == Committed(old, new, w, makeActive)
<1>1. cfg \in Configs
  BY DEF TypeOK
<1>2. /\ c \in Configs
      /\ c.paused = cfg.paused
      /\ \A v \in Workspaces: c.book[v].count = cfg.book[v].count
  BY <1>1, CommittedType
<1>3. \A a \in Accounts: cfg.paused[a] \in Nat
  BY <1>1, ConfigFields
<1>4. \A v \in Workspaces: cfg.book[v].count \in Nat
  BY <1>1, ConfigFields, BookFields
<1>5. Lenient(c)
  <2> HIDE DEF c
  <2> QED BY <1>2, <1>3, <1>4 DEF Lenient
<1> QED BY <1>5

LEMMA WindowKept ==
  ASSUME TypeOK, WindowWithinQuota, Harmless
  PROVE  WindowWithinQuota'
<1> SUFFICES ASSUME NEW w \in Workspaces, HourlyQuota > 0
             PROVE  cfg'.book[w].count <= HourlyQuota
  BY DEF WindowWithinQuota
<1>1. cfg.book[w].count \in Nat /\ cfg'.book[w].count \in Nat
  BY ConfigFields, BookFields DEF TypeOK, Harmless, Lenient
<1>2. cfg'.book[w].count <= cfg.book[w].count
  BY DEF Harmless, Lenient
<1>3. cfg.book[w].count <= HourlyQuota
  BY DEF WindowWithinQuota
<1> QED BY <1>1, <1>2, <1>3, Constants

(***************************************************************************)
(* Slots.                                                                  *)
(***************************************************************************)
LEMMA HoldersFinite ==
  ASSUME NEW x
  PROVE  /\ IsFiniteSet(HoldingOf(x)) /\ Cardinality(HoldingOf(x)) \in Nat
         /\ IsFiniteSet(Holding(x)) /\ Cardinality(Holding(x)) \in Nat
<1>1. HoldingOf(x) \in SUBSET Requests /\ Holding(x) \in SUBSET Requests
  BY DEF HoldingOf, Holding
<1> QED BY <1>1, FS_Subset, FS_CardinalityType

LEMMA FewerHolders ==
  ASSUME NEW S, NEW T, IsFiniteSet(T), S \subseteq T
  PROVE  Cardinality(S) \in Nat /\ Cardinality(S) <= Cardinality(T)
BY FS_Subset, FS_CardinalityType

LEMMA LeaseKept ==
  ASSUME TypeOK, LeaseInv, NEW r \in Requests, Releases(r), UNCHANGED refresh
  PROVE  LeaseInv'
<1>1. \A q \in Requests: req'[q].lease => req[q].lease /\ req'[q].at = req[q].at
  BY DEF Releases, Moves
<1>2. ASSUME NEW a \in Accounts
      PROVE  Cardinality(HoldingOf(a)') <= CredentialLimit
  <2>1. HoldingOf(a)' \subseteq HoldingOf(a)
    BY <1>1 DEF HoldingOf
  <2>2. Cardinality(HoldingOf(a)) \in Nat /\ Cardinality(HoldingOf(a)) <= CredentialLimit
    BY HoldersFinite DEF LeaseInv
  <2> QED BY <2>1, <2>2, FewerHolders, HoldersFinite, Constants
<1>3. ASSUME NEW w \in Workspaces
      PROVE  Cardinality(Holding(w)') <= WorkspaceLimit
  <2>1. Holding(w)' \subseteq Holding(w)
    BY <1>1 DEF Holding
  <2>2. Cardinality(Holding(w)) \in Nat /\ Cardinality(Holding(w)) <= WorkspaceLimit
    BY HoldersFinite DEF LeaseInv
  <2> QED BY <2>1, <2>2, FewerHolders, HoldersFinite, Constants
<1>4. ASSUME NEW q \in Requests
      PROVE  /\ req'[q].pc \in {"leased", "begun", "rerun"} => req'[q].lease
             /\ req'[q].lease \/ req'[q].pc \notin {"idle", "next"} => req'[q].at \in Workspaces
  BY DEF LeaseInv, Releases, Moves
<1> QED BY <1>2, <1>3, <1>4 DEF LeaseInv

\* r takes the slots of w.
LEMMA LeaseTaken ==
  ASSUME TypeOK, LeaseInv, NEW r \in Requests, NEW w \in Workspaces, Moves(r),
         HasSlots(w), req'[r].at = w, req'[r].lease, UNCHANGED refresh
  PROVE  LeaseInv'
<1>1. ASSUME NEW S, NEW T, IsFiniteSet(S), T \subseteq S \cup {r}
      PROVE  Cardinality(T) \in Nat /\ Cardinality(T) <= Cardinality(S) + 1
  <2>1. IsFiniteSet(S \cup {r}) /\ Cardinality(S \cup {r}) <= Cardinality(S) + 1
    <3>1. IsFiniteSet(S \cup {r}) /\ Cardinality(S) \in Nat
      BY <1>1, FS_AddElement, FS_CardinalityType
    <3>2. CASE r \in S
      <4>1. S \cup {r} = S
        BY <3>2
      <4>2. Cardinality(S \cup {r}) = Cardinality(S)
        BY <4>1
      <4> QED BY <3>1, <4>2
    <3>3. CASE r \notin S
      BY <1>1, <3>1, <3>3, FS_AddElement
    <3> QED BY <3>1, <3>2, <3>3
  <2> QED BY <1>1, <2>1, FewerHolders, FS_CardinalityType
<1>2. ASSUME NEW a \in Accounts
      PROVE  Cardinality(HoldingOf(a)') <= CredentialLimit
  <2>1. CASE a = AccountOf[w]
    <3>1. HoldingOf(a)' \subseteq HoldingOf(a) \cup {r}
      BY DEF HoldingOf, Moves
    <3>2. Cardinality(HoldingOf(a)) \in Nat /\ Cardinality(HoldingOf(a)) < CredentialLimit
      BY <2>1, HoldersFinite DEF HasSlots
    <3> QED BY <1>1, <3>1, <3>2, HoldersFinite, Constants
  <2>2. CASE a # AccountOf[w]
    <3>1. HoldingOf(a)' \subseteq HoldingOf(a)
      BY <2>2 DEF HoldingOf, Moves
    <3>2. Cardinality(HoldingOf(a)) \in Nat /\ Cardinality(HoldingOf(a)) <= CredentialLimit
      BY HoldersFinite DEF LeaseInv
    <3> QED BY <3>1, <3>2, FewerHolders, HoldersFinite, Constants
  <2> QED BY <2>1, <2>2
<1>3. ASSUME NEW v \in Workspaces
      PROVE  Cardinality(Holding(v)') <= WorkspaceLimit
  <2>1. CASE v = w
    <3>1. Holding(v)' \subseteq Holding(v) \cup {r}
      BY DEF Holding, Moves
    <3>2. Cardinality(Holding(v)) \in Nat /\ Cardinality(Holding(v)) < WorkspaceLimit
      BY <2>1, HoldersFinite DEF HasSlots
    <3> QED BY <1>1, <3>1, <3>2, HoldersFinite, Constants
  <2>2. CASE v # w
    <3>1. Holding(v)' \subseteq Holding(v)
      BY <2>2 DEF Holding, Moves
    <3>2. Cardinality(Holding(v)) \in Nat /\ Cardinality(Holding(v)) <= WorkspaceLimit
      BY HoldersFinite DEF LeaseInv
    <3> QED BY <3>1, <3>2, FewerHolders, HoldersFinite, Constants
  <2> QED BY <2>1, <2>2
<1>4. ASSUME NEW q \in Requests
      PROVE  /\ req'[q].pc \in {"leased", "begun", "rerun"} => req'[q].lease
             /\ req'[q].lease \/ req'[q].pc \notin {"idle", "next"} => req'[q].at \in Workspaces
  BY DEF LeaseInv, Moves
<1> QED BY <1>2, <1>3, <1>4 DEF LeaseInv

LEMMA LeaseSame ==
  ASSUME LeaseInv, UNCHANGED req, refresh'.pc # "idle" => refresh'.at \in Workspaces
  PROVE  LeaseInv'
BY DEF LeaseInv, HoldingOf, Holding

\* With one slot per account there is one holder.
LEMMA OneHolder ==
  ASSUME TypeOK, LeaseInv, CredentialLimit = 1, NEW r \in Requests, NEW q \in Requests,
         req[r].lease, req[q].lease, AccountOf[req[r].at] = AccountOf[req[q].at]
  PROVE  q = r
<1> DEFINE a == AccountOf[req[r].at]
<1>1. a \in Accounts
  BY DEF LeaseInv
<1>2. {r, q} \subseteq HoldingOf(a)
  BY DEF HoldingOf
<1>3. Cardinality({r, q}) <= 1
  <2>1. Cardinality(HoldingOf(a)) \in Nat /\ Cardinality(HoldingOf(a)) <= 1
    BY <1>1, HoldersFinite DEF LeaseInv
  <2> HIDE DEF a
  <2> QED BY <1>2, <2>1, HoldersFinite, FewerHolders
<1>4. Cardinality({q}) = 1
  BY FS_Singleton
<1>5. r # q => Cardinality({r, q}) = 2
  <2>1. r # q => {q} \cup {r} = {r, q} /\ r \notin {q}
    OBVIOUS
  <2>2. IsFiniteSet({q})
    BY FS_Singleton
  <2>3. r # q => Cardinality({q} \cup {r}) = Cardinality({q}) + 1
    BY <2>1, <2>2, FS_AddElement
  <2>4. Cardinality({q}) + 1 = 2
    BY <1>4
  <2>5. ASSUME r # q PROVE Cardinality({r, q}) = 2
    BY <2>1, <2>3, <2>4, <2>5
  <2> QED BY <2>5
<1> QED BY <1>3, <1>5

(***************************************************************************)
(* Pauses.                                                                 *)
(***************************************************************************)
\* The request that is about to put a pause of a on record.
Recorder(r, a) ==
  /\ r \in HoldingOf(a)
  /\ req[r].pc = "record"
  /\ req[r].err.kind \in Pausing
  /\ heard[a] <= now + req[r].err.wait

OnRecord(a) == heard[a] <= cfg.paused[a] \/ \E r \in Requests: Recorder(r, a)

LEMMA PauseForm == PauseInv <=> (CredentialLimit = 1 => \A a \in Accounts: OnRecord(a))
BY DEF PauseInv, OnRecord, Recorder, HoldingOf

LEMMA Clocks ==
  ASSUME TypeOK
  PROVE  /\ now \in Nat /\ now \in 0..MaxTime
         /\ \A a \in Accounts: heard[a] \in Nat /\ cfg.paused[a] \in Nat
         /\ \A r \in Requests: req[r] \in Dispatches /\ req[r].err \in Errors /\ req[r].err.wait \in Nat
<1>1. \A a \in Accounts: cfg.paused[a] \in Nat
  BY ConfigFields DEF TypeOK
<1>2. \A r \in Requests: req[r] \in Dispatches
  BY DEF TypeOK
<1>3. \A r \in Requests: req[r].err \in Errors
  BY <1>2, DispatchFields
<1>4. \A r \in Requests: req[r].err.wait \in Nat
  BY <1>3, ErrorType
<1> QED BY <1>1, <1>2, <1>3, <1>4, Constants DEF TypeOK

\* r moves, and was not the one to record a pause.
LEMMA PauseKept ==
  ASSUME TypeOK, PauseInv, NEW r \in Requests, Moves(r), cfg' \in Configs,
         \A a \in Accounts: cfg'.paused[a] >= cfg.paused[a],
         ~(req[r].lease /\ req[r].pc = "record"), UNCHANGED <<now, heard>>
  PROVE  PauseInv'
<1> SUFFICES ASSUME CredentialLimit = 1, NEW a \in Accounts PROVE OnRecord(a)'
  BY DEF PauseInv, OnRecord, Recorder, HoldingOf
<1>1. OnRecord(a)
  BY PauseForm
<1>2. cfg'.paused[a] >= cfg.paused[a] /\ cfg'.paused[a] \in Nat
  BY ConfigFields
<1>3. CASE heard[a] <= cfg.paused[a]
  BY <1>2, <1>3, Clocks DEF OnRecord
<1>4. CASE \E q \in Requests: Recorder(q, a)
  <2>1. PICK q \in Requests: Recorder(q, a)
    BY <1>4
  <2>2. q # r
    BY <2>1 DEF Recorder, HoldingOf
  <2>3. Recorder(q, a)'
    BY <2>1, <2>2 DEF Recorder, HoldingOf, Moves
  <2> QED BY <2>3 DEF OnRecord
<1> QED BY <1>1, <1>3, <1>4 DEF OnRecord

LEMMA PauseSame ==
  ASSUME TypeOK, PauseInv, Harmless, UNCHANGED <<req, heard>>, now' \in Nat, now' >= now
  PROVE  PauseInv'
<1> SUFFICES ASSUME CredentialLimit = 1, NEW a \in Accounts PROVE OnRecord(a)'
  BY DEF PauseInv, OnRecord, Recorder, HoldingOf
<1>1. OnRecord(a)
  BY PauseForm
<1>2. cfg'.paused[a] >= cfg.paused[a] /\ cfg'.paused[a] \in Nat
  BY ConfigFields DEF Harmless, Lenient
<1>3. CASE heard[a] <= cfg.paused[a]
  BY <1>2, <1>3, Clocks DEF OnRecord
<1>4. CASE \E q \in Requests: Recorder(q, a)
  <2>1. PICK q \in Requests: Recorder(q, a)
    BY <1>4
  <2>2. heard[a] <= now' + req[q].err.wait
    BY <2>1, Clocks DEF Recorder
  <2>3. Recorder(q, a)'
    BY <2>1, <2>2 DEF Recorder, HoldingOf
  <2> QED BY <2>3 DEF OnRecord
<1> QED BY <1>1, <1>3, <1>4 DEF OnRecord

(***************************************************************************)
(* Steps that hear nothing from upstream and take no slot.                 *)
(***************************************************************************)
LEMMA QuietStep ==
  ASSUME IInv, NEW r \in Requests, Releases(r), Harmless,
         ~(req[r].lease /\ req[r].pc = "record"), faults' \in 0..MaxFaults,
         UNCHANGED <<now, refresh, heard, edits>>
  PROVE  IInv' /\ PausesHold /\ Moves(r)
<1> USE DEF IInv
<1>1. TypeOK'
  BY DEF TypeOK, Releases, Moves, Harmless, Lenient
<1>2. WindowWithinQuota'
  BY WindowKept
<1>3. LeaseInv'
  BY LeaseKept
<1>4. PauseInv'
  BY PauseKept DEF Releases, Harmless, Lenient
<1> QED BY <1>1, <1>2, <1>3, <1>4 DEF Releases, Harmless, Lenient, PausesHold

\* The same of a step of the refresh, an admin or the clock.
LEMMA StillStep ==
  ASSUME IInv, Harmless, UNCHANGED <<req, heard>>, refresh' \in Refreshes,
         refresh'.pc # "idle" => refresh'.at \in Workspaces,
         now' \in 1..MaxTime, now' >= now, faults' \in 0..MaxFaults, edits' \in 0..MaxEdits
  PROVE  IInv' /\ PausesHold
<1> USE DEF IInv
<1>1. TypeOK'
  BY DEF TypeOK, Harmless, Lenient
<1>2. WindowWithinQuota'
  BY WindowKept
<1>3. LeaseInv'
  BY LeaseSame
<1>4. now' \in Nat
  BY Constants
<1>5. PauseInv'
  BY <1>4, PauseSame
<1> QED BY <1>1, <1>2, <1>3, <1>5 DEF Harmless, Lenient, PausesHold

(***************************************************************************)
(* A request leaves its attempt, or goes on with the candidate it has.     *)
(***************************************************************************)
LEMMA LeavesAttempt ==
  ASSUME NEW r \in Requests, NEW pc \in {"idle", "next"}, Becomes(r, pc, FALSE)
  PROVE  Releases(r)
BY DEF Releases, Becomes

LEMMA GoesOn ==
  ASSUME LeaseInv, NEW r \in Requests, NEW pc \in Pcs, NEW lease \in BOOLEAN,
         Becomes(r, pc, lease), req'[r].at = req[r].at, lease => req[r].lease,
         pc \in {"leased", "begun", "rerun"} => lease, req[r].pc \notin {"idle", "next"}
  PROVE  Releases(r)
BY DEF Releases, Becomes, LeaseInv

LEMMA SeenStep ==
  ASSUME req \in [Requests -> Dispatches], NEW r \in Requests, NEW pc \in Pcs, NEW c \in Configs,
         req' = [req EXCEPT ![r].pc = pc, ![r].seen = c]
  PROVE  Becomes(r, pc, req[r].lease) /\ req'[r].at = req[r].at
<1> DEFINE d == [req[r] EXCEPT !.pc = pc, !.seen = c]
<1>1. req[r] \in Dispatches /\ req' = [req EXCEPT ![r] = d]
  OBVIOUS
<1>2. d \in Dispatches /\ d.pc = pc /\ d.lease = req[r].lease /\ d.at = req[r].at
  BY <1>1 DEF Dispatches
<1> HIDE DEF d
<1> QED BY <1>1, <1>2 DEF Becomes, Moves

LEMMA ReloggedStep ==
  ASSUME req \in [Requests -> Dispatches], NEW r \in Requests, NEW pc \in Pcs,
         NEW t \in 0..MaxTime, req' = [req EXCEPT ![r].pc = pc, ![r].relogged = t]
  PROVE  Becomes(r, pc, req[r].lease) /\ req'[r].at = req[r].at
<1> DEFINE d == [req[r] EXCEPT !.pc = pc, !.relogged = t]
<1>1. req[r] \in Dispatches /\ req' = [req EXCEPT ![r] = d]
  OBVIOUS
<1>2. d \in Dispatches /\ d.pc = pc /\ d.lease = req[r].lease /\ d.at = req[r].at
  BY <1>1 DEF Dispatches
<1> HIDE DEF d
<1> QED BY <1>1, <1>2 DEF Becomes, Moves

LEMMA PcStep ==
  ASSUME req \in [Requests -> Dispatches], NEW r \in Requests, NEW pc \in Pcs,
         req' = [req EXCEPT ![r].pc = pc]
  PROVE  Becomes(r, pc, req[r].lease) /\ req'[r].at = req[r].at
<1> DEFINE d == [req[r] EXCEPT !.pc = pc]
<1>1. req[r] \in Dispatches /\ req' = [req EXCEPT ![r] = d]
  OBVIOUS
<1>2. d \in Dispatches /\ d.pc = pc /\ d.lease = req[r].lease /\ d.at = req[r].at
  BY <1>1 DEF Dispatches
<1> HIDE DEF d
<1> QED BY <1>1, <1>2 DEF Becomes, Moves

(***************************************************************************)
(* The actions of a request.                                               *)
(***************************************************************************)
LEMMA StartInv ==
  ASSUME IInv, NEW r \in Requests, Start(r)
  PROVE  IInv' /\ PausesHold /\ Moves(r)
<1> USE DEF IInv
<1> DEFINE d == [Idle EXCEPT !.pc = "next", !.todo = order \cup EligibleIn(cfg),
                             !.seen = RequestView(cfg)]
<1>1. order \cup EligibleIn(cfg) \in SUBSET Workspaces /\ RequestView(cfg) \in Configs
  BY ViewType DEF TypeOK, EligibleIn
<1>2. d \in Dispatches /\ d.pc = "next" /\ d.lease = FALSE
  BY <1>1, NextType
<1>3. req' = [req EXCEPT ![r] = d]
  BY DEF Start
<1>4. Becomes(r, "next", FALSE)
  <2> HIDE DEF d
  <2> QED BY <1>2, <1>3 DEF Becomes, Moves, TypeOK
<1>5. Releases(r)
  BY <1>4, LeavesAttempt
<1>6. Harmless
  BY UnchangedHarmless DEF Start
<1> QED BY <1>5, <1>6, QuietStep DEF Start, TypeOK

LEMMA GiveUpInv ==
  ASSUME IInv, NEW r \in Requests, GiveUp(r)
  PROVE  IInv' /\ PausesHold /\ Moves(r)
<1> USE DEF IInv
<1>1. Releases(r)
  BY EndsStep, LeavesAttempt DEF GiveUp, TypeOK
<1>2. Harmless
  BY UnchangedHarmless DEF GiveUp
<1> QED BY <1>1, <1>2, QuietStep DEF GiveUp, TypeOK

LEMMA AcquireInv ==
  ASSUME IInv, NEW r \in Requests, Acquire(r)
  PROVE  IInv' /\ PausesHold /\ Moves(r)
<1> USE DEF IInv
<1>1. PICK w \in req[r].todo:
        /\ HasSlots(w)
        /\ req' = [req EXCEPT ![r].pc = "leased", ![r].lease = TRUE, ![r].at = w,
                              ![r].todo = @ \ {w}]
  BY DEF Acquire
<1> DEFINE pc == "leased"
           todo == req[r].todo \ {w}
           d == [req[r] EXCEPT !.pc = pc, !.lease = TRUE, !.at = w, !.todo = todo]
<1>2. req[r] \in Dispatches /\ pc \in Pcs /\ w \in Workspaces /\ todo \subseteq Workspaces
  BY Clocks, DispatchFields DEF Pcs
<1>3. req' = [req EXCEPT ![r] = d]
  BY <1>1
<1>4. d \in Dispatches /\ d.lease = TRUE /\ d.at = w
  <2> HIDE DEF pc, todo
  <2> QED BY <1>2 DEF Dispatches
<1>5. Moves(r) /\ req'[r].lease /\ req'[r].at = w
  <2> HIDE DEF d
  <2> QED BY <1>3, <1>4 DEF Moves, TypeOK
<1>6. Harmless
  BY UnchangedHarmless DEF Acquire
<1>7. TypeOK'
  BY <1>5, <1>6 DEF Moves, Harmless, Lenient, TypeOK, Acquire
<1>8. WindowWithinQuota'
  BY <1>6, WindowKept
<1>9. LeaseInv'
  BY <1>1, <1>2, <1>5, LeaseTaken DEF Acquire
<1>10. PauseInv'
  BY <1>5, <1>6, PauseKept DEF Acquire, Harmless, Lenient
<1> QED BY <1>5, <1>6, <1>7, <1>8, <1>9, <1>10 DEF Harmless, Lenient, PausesHold

\* The one step that charges a window.
LEMMA BeginInv ==
  ASSUME IInv, NEW r \in Requests, Begin(r)
  PROVE  IInv' /\ PausesHold /\ Moves(r)
<1> USE DEF IInv
<1> DEFINE w == req[r].at
           book == MarkStart(cfg.book[w])
           new == [cfg EXCEPT !.book[w] = MarkStart(@)]
<1>1. w \in Workspaces /\ req[r].lease /\ req[r].pc = "leased"
  BY DEF Begin, LeaseInv
<1>2. cfg \in Configs /\ cfg.book[w] \in Books
  BY <1>1, ConfigFields DEF TypeOK
<1>3. CASE Eligible(cfg, w)
  <2>1. Saved(new)
    BY <1>3 DEF Begin
  <2>2. req' = [req EXCEPT ![r].pc = "begun", ![r].relogged = cfg.relogin[AccountOf[w]]]
    BY <1>3 DEF Begin
  <2>3. book \in Books /\ (HourlyQuota > 0 => book.count <= HourlyQuota)
    BY <1>2, <1>3, StartType DEF Eligible, TypeOK
  <2>4. new = [cfg EXCEPT !.book[w] = book]
    OBVIOUS
  <2>5. /\ new \in Configs
        /\ new.paused = cfg.paused
        /\ new.book = [cfg.book EXCEPT ![w] = book]
    <3> HIDE DEF w, book
    <3> QED BY <1>1, <1>2, <2>3, <2>4 DEF Configs
  <2> HIDE DEF new
  <2>6. cfg' = new /\ order' \subseteq Workspaces
    BY <2>1 DEF Saved, EligibleIn
  <2>7. Becomes(r, "begun", TRUE) /\ req'[r].at = w
    <3>1. "begun" \in Pcs /\ cfg.relogin[AccountOf[w]] \in 0..MaxTime
      BY <1>1, <1>2, ConfigFields DEF Pcs
    <3>2. req \in [Requests -> Dispatches] /\ req[r].lease = TRUE
      BY <1>1, Clocks, DispatchFields DEF TypeOK
    <3> QED BY <2>2, <3>1, <3>2, ReloggedStep
  <2>8. Releases(r)
    BY <1>1, <2>7, GoesOn DEF Pcs
  <2>9. TypeOK'
    BY <2>5, <2>6, <2>7 DEF Begin, Becomes, Moves, TypeOK
  <2>10. WindowWithinQuota'
    <3> HIDE DEF w, book
    <3> QED BY <1>1, <1>2, <2>3, <2>5, <2>6, ConfigFields DEF WindowWithinQuota
  <2>11. LeaseInv'
    BY <2>8, LeaseKept DEF Begin
  <2>12. PausesHold
    BY <2>5, <2>6, Clocks DEF PausesHold
  <2>13. PauseInv'
    BY <1>1, <2>5, <2>6, <2>7, <2>12, PauseKept DEF Becomes, Begin, PausesHold
  <2> QED BY <2>8, <2>9, <2>10, <2>11, <2>12, <2>13 DEF Releases
<1>4. CASE ~Eligible(cfg, w)
  <2>1. Releases(r)
    BY <1>4, MovesOnStep, LeavesAttempt DEF Begin, TypeOK
  <2>2. Harmless
    BY <1>4, UnchangedHarmless DEF Begin
  <2> QED BY <1>1, <2>1, <2>2, QuietStep DEF Begin, TypeOK
<1> QED BY <1>3, <1>4

LEMMA SucceedInv ==
  ASSUME IInv, NEW r \in Requests, Succeed(r)
  PROVE  IInv' /\ PausesHold /\ Moves(r)
<1> USE DEF IInv
<1>1. Releases(r)
  BY GoesStep, GoesOn DEF Succeed, TypeOK, Pcs
<1>2. Harmless
  BY UnchangedHarmless DEF Succeed
<1> QED BY <1>1, <1>2, QuietStep DEF Succeed, TypeOK

LEMMA TryRefreshInv ==
  ASSUME IInv, NEW r \in Requests, TryRefresh(r)
  PROVE  IInv' /\ PausesHold /\ Moves(r)
<1> USE DEF IInv
<1>1. Releases(r)
  BY GoesStep, GoesOn DEF TryRefresh, TypeOK, Pcs
<1>2. Harmless
  BY UnchangedHarmless DEF TryRefresh
<1> QED BY <1>1, <1>2, QuietStep DEF TryRefresh, TypeOK

\* The bound on failures leaves a name for the next one.
LEMMA CountedType ==
  ASSUME TypeOK, NEW e \in Errors, Counted(e)
  PROVE  /\ faults' \in 0..MaxFaults
         /\ e.kind \notin {"abort", "model"} => faults + 1 \in 0..MaxFaults
BY Constants DEF Counted, TypeOK

\* A pause is heard by a request that holds its slot, and is about to be
\* recorded before the slot is free.
LEMMA HearsPause ==
  ASSUME IInv, NEW r \in Requests, NEW e \in Errors, e.kind \in Pausing, Hears(r, e),
         req[r].pc \in {"begun", "rerun"}, Becomes(r, "record", TRUE),
         req'[r].at = req[r].at, req'[r].err = e, faults' \in 0..MaxFaults,
         UNCHANGED <<now, cfg, order, refresh, edits>>
  PROVE  IInv' /\ PausesHold /\ Moves(r)
<1> USE DEF IInv
<1> DEFINE a == AccountOf[req[r].at]
           until == now + e.wait
<1>1. req[r].at \in Workspaces /\ a \in Accounts /\ req[r].lease
  BY DEF LeaseInv
<1>2. e.wait \in Nat /\ now \in Nat /\ until \in Nat
  BY ErrorType, Clocks
<1>3. heard' = [heard EXCEPT ![a] = Max2(@, until)]
  BY DEF Hears
<1>4. /\ \A b \in Accounts: heard[b] \in Nat
      /\ heard'[a] = heard[a] \/ heard'[a] = until
      /\ \A b \in Accounts \ {a}: heard'[b] = heard[b]
      /\ heard' \in [Accounts -> Nat]
  <2> HIDE DEF a, until
  <2> QED BY <1>1, <1>2, <1>3 DEF Max2, TypeOK
<1>5. Releases(r)
  BY <1>1, GoesOn DEF Pcs
<1>6. Harmless
  BY UnchangedHarmless
<1>7. TypeOK'
  BY <1>4 DEF Becomes, Moves, TypeOK
<1>8. WindowWithinQuota'
  BY DEF WindowWithinQuota
<1>9. LeaseInv'
  BY <1>5, LeaseKept
<1>10. PauseInv'
  <2> SUFFICES ASSUME CredentialLimit = 1, NEW b \in Accounts PROVE OnRecord(b)'
    BY DEF PauseInv, OnRecord, Recorder, HoldingOf
  <2>1. OnRecord(b)
    BY PauseForm
  <2>2. \A q \in Requests: Recorder(q, b) => q # r
    BY DEF Recorder
  <2>3. CASE b = a
    <3>1. ~\E q \in Requests: Recorder(q, b)
      <4> SUFFICES ASSUME NEW q \in Requests, Recorder(q, b) PROVE FALSE
        OBVIOUS
      <4>1. req[q].lease /\ AccountOf[req[q].at] = a
        BY <2>3 DEF Recorder, HoldingOf
      <4> QED BY <1>1, <2>2, <4>1, OneHolder
    <3>2. heard[b] <= cfg.paused[b]
      BY <2>1, <3>1 DEF OnRecord
    <3>3. CASE heard'[b] = heard[b]
      BY <3>2, <3>3 DEF OnRecord
    <3>4. CASE heard'[b] = until
      <4>1. heard'[b] <= now' + e.wait
        BY <1>2, <3>4
      <4>2. r \in HoldingOf(b)'
        BY <2>3 DEF HoldingOf, Becomes
      <4>3. Recorder(r, b)'
        BY <4>1, <4>2 DEF Recorder, Becomes
      <4> QED BY <4>3 DEF OnRecord
    <3> QED BY <1>4, <2>3, <3>3, <3>4
  <2>4. CASE b # a
    <3>1. heard'[b] = heard[b]
      BY <1>4, <2>4
    <3>2. CASE heard[b] <= cfg.paused[b]
      BY <3>1, <3>2 DEF OnRecord
    <3>3. CASE \E q \in Requests: Recorder(q, b)
      <4>1. PICK q \in Requests: Recorder(q, b)
        BY <3>3
      <4>2. Recorder(q, b)'
        BY <2>2, <3>1, <4>1 DEF Recorder, HoldingOf, Becomes, Moves
      <4> QED BY <4>2 DEF OnRecord
    <3> QED BY <2>1, <3>2, <3>3 DEF OnRecord
  <2> QED BY <2>3, <2>4
<1> QED BY <1>5, <1>6, <1>7, <1>8, <1>9, <1>10 DEF Releases, Harmless, Lenient, PausesHold

\* A failure that does not pause the credential.
LEMMA FailureStep ==
  ASSUME IInv, NEW r \in Requests, NEW e \in Errors, Counted(e), heard' = heard,
         req[r].pc \in {"begun", "rerun", "reload"},
         \/ Ends(r)
         \/ MovesOn(r)
         \/ /\ e.kind \notin {"abort", "model"}
            /\ \E pc \in {"record", "expired", "relogin"}, lease \in BOOLEAN:
                 (lease => req[r].lease) /\ GoesWith(r, pc, lease, e),
         UNCHANGED <<now, cfg, order, refresh, edits>>
  PROVE  IInv' /\ PausesHold /\ Moves(r)
<1> USE DEF IInv
<1>1. Releases(r)
  <2>1. CASE Ends(r)
    BY <2>1, EndsStep, LeavesAttempt DEF TypeOK
  <2>2. CASE MovesOn(r)
    BY <2>2, MovesOnStep, LeavesAttempt DEF TypeOK
  <2>3. ASSUME e.kind \notin {"abort", "model"},
               NEW pc \in {"record", "expired", "relogin"}, NEW lease \in BOOLEAN,
               lease => req[r].lease, GoesWith(r, pc, lease, e)
        PROVE  Releases(r)
    <3>1. pc \in Pcs
      BY DEF Pcs
    <3>2. Becomes(r, pc, lease) /\ req'[r].at = req[r].at
      BY <2>3, <3>1, CountedType, GoesWithStep DEF TypeOK
    <3> QED BY <2>3, <3>1, <3>2, GoesOn
  <2> QED BY <2>1, <2>2, <2>3
<1>2. Harmless
  BY UnchangedHarmless
<1> QED BY <1>1, <1>2, CountedType, QuietStep

LEMMA FailInv ==
  ASSUME IInv, NEW r \in Requests, Fail(r)
  PROVE  IInv' /\ PausesHold /\ Moves(r)
<1> USE DEF IInv
<1>1. PICK e \in Errors:
        /\ Counted(e)
        /\ Hears(r, e)
        /\ CASE e.kind = "abort"       -> Ends(r)
             [] e.kind = "model"       -> MovesOn(r)
             [] e.kind \in Pausing     -> GoesWith(r, "record", TRUE, e)
             [] e.kind = "auth"        -> GoesWith(r, "expired", FALSE, e)
             [] OTHER                  -> GoesWith(r, "record", FALSE, e)
  BY DEF Fail
<1>2. req[r].pc = "begun" /\ req[r].lease /\ UNCHANGED <<now, cfg, order, refresh, edits>>
  BY DEF Fail, LeaseInv
<1>3. CASE e.kind \in Pausing
  <2>1. e.kind \notin {"abort", "model", "auth"}
    BY <1>3 DEF Pausing
  <2>2. GoesWith(r, "record", TRUE, e)
    BY <1>1, <1>3, <2>1
  <2>3. Becomes(r, "record", TRUE) /\ req'[r].at = req[r].at /\ req'[r].err = e
    BY <1>1, <2>1, <2>2, CountedType, GoesWithStep DEF TypeOK, Pcs
  <2> QED BY <1>1, <1>2, <1>3, <2>3, CountedType, HearsPause
<1>4. CASE e.kind \notin Pausing
  <2>1. heard' = heard
    BY <1>1, <1>4 DEF Hears
  <2>2. \/ Ends(r)
        \/ MovesOn(r)
        \/ /\ e.kind \notin {"abort", "model"}
           /\ GoesWith(r, "expired", FALSE, e) \/ GoesWith(r, "record", FALSE, e)
    BY <1>1, <1>4
  <2> QED BY <1>1, <1>2, <2>1, <2>2, FailureStep
<1> QED BY <1>3, <1>4

LEMMA FailAgainInv ==
  ASSUME IInv, NEW r \in Requests, FailAgain(r)
  PROVE  IInv' /\ PausesHold /\ Moves(r)
<1> USE DEF IInv
<1>1. PICK e \in Errors:
        /\ Counted(e)
        /\ Hears(r, e)
        /\ CASE e.kind = "abort" -> Ends(r)
             [] e.kind = "model" -> MovesOn(r)
             [] e.kind = "auth"  -> GoesWith(r, "relogin", TRUE, e)
             [] OTHER            -> GoesWith(r, "record", TRUE, e)
  BY DEF FailAgain
<1>2. req[r].pc = "rerun" /\ req[r].lease /\ UNCHANGED <<now, cfg, order, refresh, edits>>
  BY DEF FailAgain, LeaseInv
<1>3. CASE e.kind \in Pausing
  <2>1. e.kind \notin {"abort", "model", "auth"}
    BY <1>3 DEF Pausing
  <2>2. GoesWith(r, "record", TRUE, e)
    BY <1>1, <2>1
  <2>3. Becomes(r, "record", TRUE) /\ req'[r].at = req[r].at /\ req'[r].err = e
    BY <1>1, <2>1, <2>2, CountedType, GoesWithStep DEF TypeOK, Pcs
  <2> QED BY <1>1, <1>2, <1>3, <2>3, CountedType, HearsPause
<1>4. CASE e.kind \notin Pausing
  <2>1. heard' = heard
    BY <1>1, <1>4 DEF Hears
  <2>2. \/ Ends(r)
        \/ MovesOn(r)
        \/ /\ e.kind \notin {"abort", "model"}
           /\ GoesWith(r, "relogin", TRUE, e) \/ GoesWith(r, "record", TRUE, e)
    BY <1>1, <1>4
  <2> QED BY <1>1, <1>2, <2>1, <2>2, FailureStep
<1> QED BY <1>3, <1>4

LEMMA ReloadInv ==
  ASSUME IInv, NEW r \in Requests, Reload(r)
  PROVE  IInv' /\ PausesHold /\ Moves(r)
<1> USE DEF IInv
<1>1. /\ req[r].pc = "reload" /\ req[r].at \in Workspaces
      /\ UNCHANGED <<now, cfg, order, refresh, heard, edits>>
  BY DEF Reload, LeaseInv
<1>2. Harmless
  BY <1>1, UnchangedHarmless
<1>3. CASE Readmitted(req[r].at) /\ Goes(r, "rerun", TRUE) /\ UNCHANGED faults
  <2>1. Becomes(r, "rerun", TRUE) /\ req'[r].at = req[r].at
    BY <1>3, GoesStep DEF TypeOK, Pcs
  <2>2. TypeOK'
    BY <1>1, <1>3, <2>1 DEF Becomes, Moves, TypeOK
  <2>3. WindowWithinQuota'
    BY <1>1 DEF WindowWithinQuota
  <2>4. LeaseInv'
    BY <1>1, <1>3, <2>1, LeaseTaken DEF Becomes, Readmitted
  <2>5. PauseInv'
    BY <1>1, <1>2, <2>1, PauseKept DEF Becomes, Harmless, Lenient
  <2> QED BY <1>2, <2>1, <2>2, <2>3, <2>4, <2>5 DEF Becomes, Harmless, Lenient, PausesHold
<1>4. CASE MovesOn(r) /\ UNCHANGED faults
  <2>1. Releases(r)
    BY <1>4, MovesOnStep, LeavesAttempt DEF TypeOK
  <2> QED BY <1>1, <1>2, <1>4, <2>1, QuietStep DEF TypeOK
<1>5. CASE \E e \in Errors:
             /\ Counted(e)
             /\ CASE e.kind = "abort" -> Ends(r)
                  [] e.kind = "model" -> MovesOn(r)
                  [] e.kind = "auth"  -> GoesWith(r, "relogin", FALSE, e)
                  [] OTHER            -> GoesWith(r, "record", FALSE, e)
  <2>1. PICK e \in Errors:
             /\ Counted(e)
             /\ CASE e.kind = "abort" -> Ends(r)
                  [] e.kind = "model" -> MovesOn(r)
                  [] e.kind = "auth"  -> GoesWith(r, "relogin", FALSE, e)
                  [] OTHER            -> GoesWith(r, "record", FALSE, e)
    BY <1>5
  <2>2. \/ Ends(r)
        \/ MovesOn(r)
        \/ /\ e.kind \notin {"abort", "model"}
           /\ GoesWith(r, "relogin", FALSE, e) \/ GoesWith(r, "record", FALSE, e)
    BY <2>1
  <2> QED BY <1>1, <2>1, <2>2, FailureStep
<1> QED BY <1>3, <1>4, <1>5 DEF Reload

LEMMA CommitRefreshInv ==
  ASSUME IInv, NEW r \in Requests, CommitRefresh(r)
  PROVE  IInv' /\ PausesHold /\ Moves(r)
<1> USE DEF IInv
<1> DEFINE new == Committed(req[r].seen, Renewal(r), req[r].at, FALSE)
<1>1. /\ req[r].pc = "refreshed" /\ req[r].at \in Workspaces
      /\ req[r].seen \in Configs /\ req[r].relogged \in 0..MaxTime
      /\ UNCHANGED <<now, refresh, heard, edits>>
  BY Clocks, DispatchFields DEF CommitRefresh, LeaseInv
<1>2. Renewal(r) \in Configs
  <2>1. "ready" \in Statuses
    BY Literals
  <2> QED BY <1>1, <2>1, CopyType DEF Renewal
<1>3. Lenient(new)
  BY <1>1, <1>2, CommittedLenient
<1> HIDE DEF new
<1>4. CASE /\ Saved(new)
           /\ req' = [req EXCEPT ![r].pc = "reload", ![r].seen = RequestView(new)]
           /\ UNCHANGED faults
  <2>1. Harmless
    BY <1>3, <1>4, SaveHarmless
  <2>2. RequestView(new) \in Configs /\ "reload" \in Pcs
    BY <1>3, ViewType DEF Lenient, Pcs
  <2>3. Becomes(r, "reload", req[r].lease) /\ req'[r].at = req[r].at
    BY <1>4, <2>2, SeenStep DEF TypeOK
  <2>4. Releases(r)
    BY <1>1, <2>2, <2>3, Clocks, DispatchFields, GoesOn
  <2> QED BY <1>1, <1>4, <2>1, <2>4, QuietStep DEF TypeOK
<1>5. CASE SaveFailed(new) /\ GoesWith(r, "record", FALSE, Other)
  <2>1. Harmless /\ faults + 1 \in 0..MaxFaults /\ faults' \in 0..MaxFaults
    BY <1>3, <1>5, SaveFailedHarmless
  <2>2. Becomes(r, "record", FALSE) /\ req'[r].at = req[r].at
    BY <1>5, <2>1, NamedErrors, GoesWithStep DEF TypeOK, Pcs
  <2>3. Releases(r)
    BY <1>1, <2>2, GoesOn DEF Pcs
  <2> QED BY <1>1, <2>1, <2>3, QuietStep
<1> QED BY <1>4, <1>5 DEF CommitRefresh, new

LEMMA ReloginInv ==
  ASSUME IInv, NEW r \in Requests, Relogin(r)
  PROVE  IInv' /\ PausesHold /\ Moves(r)
<1> USE DEF IInv
<1>1. /\ req[r].pc = "relogin" /\ now \in 0..MaxTime
      /\ req[r].lease \in BOOLEAN /\ UNCHANGED <<now, cfg, order, refresh, heard, faults, edits>>
  BY Clocks, DispatchFields DEF Relogin
<1>2. Harmless
  BY <1>1, UnchangedHarmless
<1>3. Releases(r)
  <2>1. CASE req' = [req EXCEPT ![r].pc = "unsent"]
    BY <1>1, <2>1, PcStep, GoesOn DEF TypeOK, Pcs
  <2>2. CASE req' = [req EXCEPT ![r].pc = "sent", ![r].relogged = now]
    BY <1>1, <2>2, ReloggedStep, GoesOn DEF TypeOK, Pcs
  <2> QED BY <2>1, <2>2 DEF Relogin
<1> QED BY <1>1, <1>2, <1>3, QuietStep DEF TypeOK

LEMMA CommitReloginInv ==
  ASSUME IInv, NEW r \in Requests, CommitRelogin(r)
  PROVE  IInv' /\ PausesHold /\ Moves(r)
<1> USE DEF IInv
<1> DEFINE w    == req[r].at
           old  == req[r].seen
           copy == IF req[r].pc = "sent"
                   THEN [Expired(old, w, "pending_code")
                           EXCEPT !.relogin[AccountOf[w]] = req[r].relogged]
                   ELSE old
           new  == Committed(old, copy, w, FALSE)
<1>1. /\ req[r].pc \in {"sent", "unsent"} /\ w \in Workspaces
      /\ old \in Configs /\ req[r].relogged \in 0..MaxTime /\ req[r].lease \in BOOLEAN
      /\ UNCHANGED <<now, refresh, heard, edits>>
  BY Clocks, DispatchFields DEF CommitRelogin, LeaseInv
<1>2. copy \in Configs
  <2>1. "pending_code" \in Statuses
    BY Literals
  <2> QED BY <1>1, <2>1, CopyType
<1>3. Lenient(new)
  BY <1>1, <1>2, CommittedLenient
<1>4. \/ Saved(new) /\ UNCHANGED faults
         /\ req' = [req EXCEPT ![r].pc = "record", ![r].seen = RequestView(new)]
      \/ SaveFailed(new) /\ req' = [req EXCEPT ![r].pc = "record", ![r].seen = copy]
  BY DEF CommitRelogin
<1> HIDE DEF copy, new
<1>5. Harmless /\ faults' \in 0..MaxFaults
  BY <1>3, <1>4, SaveHarmless, SaveFailedHarmless DEF TypeOK
<1>6. RequestView(new) \in Configs /\ "record" \in Pcs
  BY <1>3, ViewType DEF Lenient, Pcs
<1>7. Becomes(r, "record", req[r].lease) /\ req'[r].at = req[r].at
  BY <1>2, <1>4, <1>6, SeenStep DEF TypeOK
<1>8. Releases(r)
  BY <1>1, <1>6, <1>7, GoesOn
<1> QED BY <1>1, <1>5, <1>8, QuietStep

LEMMA RecordSuccessInv ==
  ASSUME IInv, NEW r \in Requests, RecordSuccess(r)
  PROVE  IInv' /\ PausesHold /\ Moves(r)
<1> USE DEF IInv
<1> DEFINE w         == req[r].at
           active    == req[r].seen.active
           makeActive == active = NoWorkspace \/ AccountOf[active] = AccountOf[w]
           book      == MarkSuccess(cfg.book[w])
           new       == [cfg EXCEPT !.book[w] = MarkSuccess(@),
                                    !.active = IF makeActive THEN w ELSE @]
<1>1. /\ req[r].pc = "succeeded" /\ w \in Workspaces
      /\ SavedOrNot(new) /\ Ends(r) /\ UNCHANGED <<now, refresh, heard, edits>>
  BY DEF RecordSuccess, LeaseInv
<1>2. cfg \in Configs /\ cfg.book[w] \in Books
  BY <1>1, ConfigFields DEF TypeOK
<1>3. book \in Books /\ book.count = cfg.book[w].count
  BY <1>2, SuccessType
<1>4. /\ new \in Configs
      /\ new.paused = cfg.paused
      /\ new.book = [cfg.book EXCEPT ![w] = book]
  <2>1. new = [cfg EXCEPT !.book[w] = book, !.active = IF makeActive THEN w ELSE cfg.active]
    OBVIOUS
  <2> DEFINE next == IF makeActive THEN w ELSE cfg.active
  <2>2. next \in Workspaces \cup {NoWorkspace}
    BY <1>1, <1>2, ConfigFields
  <2> HIDE DEF w, book, makeActive, next
  <2>3. /\ [cfg EXCEPT !.book[w] = book, !.active = next] \in Configs
        /\ [cfg EXCEPT !.book[w] = book, !.active = next].paused = cfg.paused
        /\ [cfg EXCEPT !.book[w] = book, !.active = next].book = [cfg.book EXCEPT ![w] = book]
    BY <1>1, <1>2, <1>3, <2>2 DEF Configs
  <2> QED BY <2>1, <2>3 DEF next
<1> HIDE DEF new, book
<1>5. Lenient(new)
  <2>1. \A a \in Accounts: new.paused[a] >= cfg.paused[a]
    BY <1>4, Clocks
  <2>2. \A v \in Workspaces: cfg.book[v].count \in Nat
    BY <1>2, ConfigFields, BookFields
  <2>3. \A v \in Workspaces: new.book[v].count = cfg.book[v].count
    BY <1>2, <1>3, <1>4, ConfigFields
  <2> QED BY <1>4, <2>1, <2>2, <2>3 DEF Lenient
<1>6. Harmless /\ faults' \in 0..MaxFaults
  BY <1>1, <1>5, SavedOrNotHarmless
<1>7. Releases(r)
  BY <1>1, EndsStep, LeavesAttempt DEF TypeOK
<1> QED BY <1>1, <1>6, <1>7, QuietStep

\* A pause is put on record before the slot is free; where the save fails the
\* pause is lost with it.
LEMMA RecordInv ==
  ASSUME IInv, NEW r \in Requests, Record(r)
  PROVE  IInv' /\ PausesHold /\ Moves(r)
<1> USE DEF IInv
<1> DEFINE w     == req[r].at
           a     == AccountOf[w]
           e     == req[r].err
           book  == MarkFailure(cfg.book[w], e, e.kind = "auth", req[r].nth)
           until == Max2(cfg.paused[a], Backoff(e))
           new   == [cfg EXCEPT !.book[w] = MarkFailure(@, e, e.kind = "auth", req[r].nth),
                                !.paused[a] = Max2(@, Backoff(e))]
<1>1. /\ req[r].pc = "record" /\ w \in Workspaces /\ a \in Accounts /\ e \in Errors
      /\ req[r].nth \in 0..MaxFaults /\ UNCHANGED <<now, refresh, edits>>
  BY Clocks, DispatchFields DEF Record, LeaseInv
<1>2. cfg \in Configs /\ cfg.book[w] \in Books /\ cfg.paused[a] \in Nat
  BY <1>1, ConfigFields DEF TypeOK
<1>3. book \in Books /\ book.count = cfg.book[w].count
  <2> DEFINE lost == e.kind = "auth"
  <2>1. now \in 1..MaxTime /\ lost \in BOOLEAN
    BY DEF TypeOK
  <2> HIDE DEF lost, IInv
  <2>2. /\ MarkFailure(cfg.book[w], e, lost, req[r].nth) \in Books
        /\ MarkFailure(cfg.book[w], e, lost, req[r].nth).count = cfg.book[w].count
    BY <1>1, <1>2, <2>1, FailureType
  <2> QED BY <2>2, Zenon DEF lost
<1>4. until \in Nat /\ until >= cfg.paused[a] /\ until >= Backoff(e)
  BY <1>1, <1>2, BackoffType DEF Max2, TypeOK
<1>5. /\ new \in Configs
      /\ new.paused = [cfg.paused EXCEPT ![a] = until]
      /\ new.book = [cfg.book EXCEPT ![w] = book]
  <2>1. new = [cfg EXCEPT !.book[w] = book, !.paused[a] = until]
    OBVIOUS
  <2> HIDE DEF w, a, book, until
  <2>2. /\ [cfg EXCEPT !.book[w] = book, !.paused[a] = until] \in Configs
        /\ [cfg EXCEPT !.book[w] = book, !.paused[a] = until].paused
             = [cfg.paused EXCEPT ![a] = until]
        /\ [cfg EXCEPT !.book[w] = book, !.paused[a] = until].book
             = [cfg.book EXCEPT ![w] = book]
    BY <1>1, <1>2, <1>3, <1>4 DEF Configs
  <2> QED BY <2>1, <2>2
<1>6. \/ Saved(new) /\ MovesOn(r) /\ UNCHANGED <<heard, faults>>
      \/ /\ SaveFailed(new) /\ Ends(r)
         /\ heard' = IF e.kind \in Pausing /\ req[r].lease THEN [heard EXCEPT ![a] = 0]
                                                           ELSE heard
  BY DEF Record
<1> HIDE DEF new, book, until
<1>7. Lenient(new)
  <2>1. \A b \in Accounts: new.paused[b] >= cfg.paused[b]
    BY <1>4, <1>5, Clocks, ConfigFields
  <2>2. \A v \in Workspaces: cfg.book[v].count \in Nat
    BY <1>2, ConfigFields, BookFields
  <2>3. \A v \in Workspaces: new.book[v].count = cfg.book[v].count
    BY <1>2, <1>3, <1>5, ConfigFields
  <2> QED BY <1>5, <2>1, <2>2, <2>3 DEF Lenient
<1>8. Harmless /\ faults' \in 0..MaxFaults
  BY <1>6, <1>7, SaveHarmless, SaveFailedHarmless DEF TypeOK
<1>9. Releases(r)
  BY <1>6, EndsStep, MovesOnStep, LeavesAttempt DEF TypeOK
<1>10. /\ heard' \in [Accounts -> Nat]
       /\ \A b \in Accounts: heard'[b] <= heard[b] /\ (b # a => heard'[b] = heard[b])
       /\ \A b \in Accounts: cfg'.paused[b] \in Nat /\ cfg'.paused[b] >= cfg.paused[b]
  <2>1. \A b \in Accounts: cfg'.paused[b] \in Nat /\ cfg'.paused[b] >= cfg.paused[b]
    BY <1>8, ConfigFields DEF Harmless, Lenient
  <2>2. heard' = heard \/ heard' = [heard EXCEPT ![a] = 0]
    BY <1>6
  <2>3. heard \in [Accounts -> Nat]
    BY DEF TypeOK
  <2> HIDE DEF a
  <2> QED BY <1>1, <2>1, <2>2, <2>3
<1>11. TypeOK'
  BY <1>1, <1>8, <1>9, <1>10 DEF Harmless, Lenient, Releases, Moves, TypeOK
<1>12. WindowWithinQuota'
  BY <1>8, WindowKept
<1>13. LeaseInv'
  BY <1>1, <1>9, LeaseKept
<1>14. PauseInv'
  <2> SUFFICES ASSUME CredentialLimit = 1, NEW b \in Accounts PROVE OnRecord(b)'
    BY DEF PauseInv, OnRecord, Recorder, HoldingOf
  <2>1. OnRecord(b)
    BY PauseForm
  <2>2. CASE heard[b] <= cfg.paused[b]
    <3>1. heard'[b] <= cfg'.paused[b]
      BY <1>10, <2>2, Clocks DEF TypeOK
    <3> QED BY <3>1 DEF OnRecord
  <2>3. ASSUME NEW q \in Requests, Recorder(q, b), q # r PROVE OnRecord(b)'
    <3>1. Recorder(q, b)'
      <4>1. req'[q] = req[q] /\ req[q].err.wait \in Nat
        BY <1>9, <2>3, Clocks DEF Releases, Moves
      <4>2. heard'[b] <= now' + req[q].err.wait
        BY <1>1, <1>10, <2>3, <4>1, Clocks DEF Recorder, TypeOK
      <4> QED BY <2>3, <4>1, <4>2 DEF Recorder, HoldingOf
    <3> QED BY <3>1 DEF OnRecord
  <2>4. ASSUME Recorder(r, b) PROVE OnRecord(b)'
    <3>1. b = a /\ req[r].lease /\ e.kind \in Pausing /\ heard[b] <= now + e.wait
      BY <2>4 DEF Recorder, HoldingOf
    <3>2. CASE Saved(new) /\ UNCHANGED heard
      <4>1. cfg'.paused[b] = until
        BY <1>2, <1>5, <3>1, <3>2, ConfigFields DEF Saved
      <4>2. Backoff(e) = now + e.wait /\ now + e.wait \in Nat
        BY <1>1, <3>1, Clocks DEF Backoff
      <4>3. heard'[b] <= cfg'.paused[b]
        BY <1>4, <3>1, <3>2, <4>1, <4>2, Clocks
      <4> QED BY <4>3 DEF OnRecord
    <3>3. CASE heard' = [heard EXCEPT ![a] = 0]
      <4>1. heard'[b] = 0
        BY <1>1, <3>1, <3>3 DEF TypeOK
      <4>2. heard'[b] <= cfg'.paused[b]
        BY <1>10, <4>1
      <4> QED BY <4>2 DEF OnRecord
    <3> QED BY <1>6, <3>1, <3>2, <3>3
  <2> QED BY <2>1, <2>2, <2>3, <2>4 DEF OnRecord
<1> QED BY <1>8, <1>9, <1>11, <1>12, <1>13, <1>14 DEF Releases, Harmless, Lenient, PausesHold

(***************************************************************************)
(* The refresh, the admin and the clock.                                   *)
(***************************************************************************)
LEMMA RefreshFields ==
  ASSUME TypeOK
  PROVE  /\ refresh.at \in Workspaces \cup {NoWorkspace} /\ refresh.todo \subseteq Workspaces
         /\ refresh.seen \in Configs
         /\ refresh.ended \in {"ready", "expired", "failed", "deferred"}
BY DEF TypeOK, Refreshes

LEMMA NoRefreshType == NoRefresh \in Refreshes /\ NoRefresh.pc = "idle"
BY NoConfigType DEF NoRefresh, Refreshes

LEMMA TickInv ==
  ASSUME IInv, Tick
  PROVE  IInv' /\ PausesHold
<1> USE DEF IInv
<1>1. Harmless
  BY UnchangedHarmless DEF Tick
<1>2. now' \in 1..MaxTime /\ now' >= now
  BY Constants DEF Tick, TypeOK
<1> QED BY <1>1, <1>2, StillStep DEF Tick, TypeOK, LeaseInv

LEMMA StartRefreshInv ==
  ASSUME IInv, StartRefresh
  PROVE  IInv' /\ PausesHold
<1> USE DEF IInv
<1> DEFINE pc == "try"
           w  == cfg.active
           c  == RefreshView(cfg)
           S  == {DefaultOf[a]: a \in Accounts \ {AccountOf[cfg.active]}}
           f  == [NoRefresh EXCEPT !.pc = pc, !.at = w, !.seen = c, !.todo = S]
<1>1. /\ pc \in {"idle", "try", "commit"} /\ w \in Workspaces /\ c \in Configs
      /\ S \in SUBSET Workspaces
  BY ConfigFields, ViewType DEF StartRefresh, TypeOK
<1>2. f \in Refreshes /\ f.at = w
  <2> HIDE DEF pc, w, c, S
  <2> QED BY <1>1, NoRefreshType DEF Refreshes
<1>3. refresh' = f
  BY DEF StartRefresh
<1>4. Harmless
  BY UnchangedHarmless DEF StartRefresh
<1>5. edits' \in 0..MaxEdits /\ now' \in 1..MaxTime /\ now' >= now
  BY Constants DEF StartRefresh, TypeOK
<1> HIDE DEF f, w
<1> QED BY <1>1, <1>2, <1>3, <1>4, <1>5, StillStep DEF StartRefresh, TypeOK

LEMMA RefreshingInv ==
  ASSUME IInv, Refreshing
  PROVE  IInv' /\ PausesHold
<1> USE DEF IInv
<1>1. PICK ended \in {"deferred", "ready", "expired", "failed"}:
        refresh' = [refresh EXCEPT !.pc = "commit", !.ended = ended]
  <2>1. CASE refresh.seen.paused[AccountOf[refresh.at]] > now
    BY <2>1 DEF Refreshing
  <2>2. CASE ~(refresh.seen.paused[AccountOf[refresh.at]] > now)
    BY <2>2 DEF Refreshing
  <2> QED BY <2>1, <2>2
<1> DEFINE pc == "commit"
           f  == [refresh EXCEPT !.pc = pc, !.ended = ended]
<1>2. refresh \in Refreshes /\ refresh.at \in Workspaces /\ pc \in {"idle", "try", "commit"}
  BY DEF TypeOK, LeaseInv, Refreshing
<1>3. f \in Refreshes /\ f.at = refresh.at
  <2> HIDE DEF pc
  <2> QED BY <1>2 DEF Refreshes
<1>4. refresh' = f
  BY <1>1
<1>5. Harmless
  BY UnchangedHarmless DEF Refreshing
<1>6. now' \in 1..MaxTime /\ now' >= now
  BY Constants DEF Refreshing, TypeOK
<1> HIDE DEF f
<1> QED BY <1>2, <1>3, <1>4, <1>5, <1>6, StillStep DEF Refreshing, TypeOK

LEMMA CommitSessionInv ==
  ASSUME IInv, CommitSession
  PROVE  IInv' /\ PausesHold
<1> USE DEF IInv
<1> DEFINE new == Committed(refresh.seen, RefreshCopy, refresh.at, refresh.ended = "ready")
<1>1. /\ refresh \in Refreshes /\ refresh.at \in Workspaces /\ refresh.seen \in Configs
      /\ refresh.todo \in SUBSET Workspaces
      /\ refresh.ended \in {"ready", "expired", "failed", "deferred"}
      /\ UNCHANGED <<now, req, heard, edits>>
  BY RefreshFields DEF TypeOK, LeaseInv, CommitSession
<1>2. RefreshCopy \in Configs
  <2>1. \A status \in {"ready", "expired", "failed"}:
          /\ Renewed(refresh.seen, refresh.at) \in Configs
          /\ Expired(refresh.seen, refresh.at, status) \in Configs
    <3> SUFFICES ASSUME NEW status \in {"ready", "expired", "failed"}
                 PROVE  /\ Renewed(refresh.seen, refresh.at) \in Configs
                        /\ Expired(refresh.seen, refresh.at, status) \in Configs
      OBVIOUS
    <3>1. status \in Statuses /\ 0 \in 0..MaxTime
      BY Literals
    <3> QED BY <1>1, <3>1, CopyType
  <2> QED BY <1>1, <2>1 DEF RefreshCopy
<1>3. Lenient(new)
  BY <1>1, <1>2, CommittedLenient
<1>4. SavedOrNot(new)
  BY DEF CommitSession
<1> HIDE DEF new
<1>5. Harmless /\ faults' \in 0..MaxFaults
  BY <1>3, <1>4, SavedOrNotHarmless
<1>6. refresh' \in Refreshes /\ (refresh'.pc # "idle" => refresh'.at \in Workspaces)
  <2>1. CASE refresh' = NoRefresh
    BY <2>1, NoRefreshType
  <2>2. ASSUME NEW w \in refresh.todo,
               refresh' = [refresh EXCEPT !.pc = "try", !.at = w, !.todo = @ \ {w}]
        PROVE  refresh' \in Refreshes /\ refresh'.at \in Workspaces
    <3> DEFINE pc == "try"
               S  == refresh.todo \ {w}
               f  == [refresh EXCEPT !.pc = pc, !.at = w, !.todo = S]
    <3>1. w \in Workspaces /\ pc \in {"idle", "try", "commit"} /\ S \in SUBSET Workspaces
      BY <1>1
    <3>2. f \in Refreshes /\ f.at = w
      <4> HIDE DEF pc, S
      <4> QED BY <1>1, <3>1 DEF Refreshes
    <3>3. refresh' = f
      BY <2>2
    <3> HIDE DEF f
    <3> QED BY <3>1, <3>2, <3>3
  <2> QED BY <2>1, <2>2 DEF CommitSession
<1>7. now' \in 1..MaxTime /\ now' >= now /\ edits' \in 0..MaxEdits
  BY <1>1, Constants DEF TypeOK
<1> QED BY <1>1, <1>5, <1>6, <1>7, StillStep

\* An edit that changes who is active or disabled.
LEMMA EditInv ==
  ASSUME IInv, NEW D \in SUBSET Accounts, NEW w \in Workspaces \cup {NoWorkspace},
         NEW new, new = [cfg EXCEPT !.disabled = D, !.active = w], Edit(new)
  PROVE  IInv' /\ PausesHold
<1> USE DEF IInv
<1>1. cfg \in Configs
  BY DEF TypeOK
<1>2. new \in Configs /\ new.paused = cfg.paused /\ new.book = cfg.book
  BY <1>1 DEF Configs
<1>3. Lenient(new)
  <2>1. \A v \in Workspaces: cfg.book[v].count \in Nat
    BY <1>1, ConfigFields, BookFields
  <2> QED BY <1>2, <2>1, Clocks DEF Lenient
<1>4. Harmless
  BY <1>3, SaveHarmless DEF Edit
<1>5. now' \in 1..MaxTime /\ now' >= now /\ edits' \in 0..MaxEdits
  BY Constants DEF Edit, TypeOK
<1> QED BY <1>4, <1>5, StillStep DEF Edit, TypeOK, LeaseInv

LEMMA ActivateInv ==
  ASSUME IInv, NEW w \in Workspaces, Activate(w)
  PROVE  IInv' /\ PausesHold
<1> DEFINE new == [cfg EXCEPT !.active = w]
<1>1. cfg \in Configs
  BY DEF IInv, TypeOK
<1>2. new = [cfg EXCEPT !.disabled = cfg.disabled, !.active = w]
  BY <1>1 DEF Configs
<1>3. Edit(new)
  BY DEF Activate
<1>4. cfg.disabled \in SUBSET Accounts
  BY <1>1, ConfigFields
<1> HIDE DEF new
<1> QED BY <1>2, <1>3, <1>4, EditInv

LEMMA SetDisabledInv ==
  ASSUME IInv, NEW a \in Accounts, SetDisabled(a)
  PROVE  IInv' /\ PausesHold
<1>1. cfg \in Configs /\ cfg.disabled \in SUBSET Accounts /\ cfg.active \in Workspaces \cup {NoWorkspace}
  BY ConfigFields DEF IInv, TypeOK
<1>2. CASE a \in cfg.disabled
  <2> DEFINE D   == cfg.disabled \ {a}
             new == [cfg EXCEPT !.disabled = D]
  <2>1. Edit(new)
    BY <1>2 DEF SetDisabled
  <2>2. D \in SUBSET Accounts
    BY <1>1
  <2>3. new = [cfg EXCEPT !.disabled = D, !.active = cfg.active]
    <3> HIDE DEF D
    <3> QED BY <1>1 DEF Configs
  <2> HIDE DEF new, D
  <2> QED BY <1>1, <2>1, <2>2, <2>3, EditInv
<1>3. CASE a \notin cfg.disabled
  <2> DEFINE D   == cfg.disabled \cup {a}
             w   == IF cfg.active # NoWorkspace /\ AccountOf[cfg.active] = a
                    THEN NoWorkspace ELSE cfg.active
             new == [cfg EXCEPT !.disabled = D, !.active = w]
  <2>1. Edit(new)
    BY <1>3 DEF SetDisabled
  <2>2. D \in SUBSET Accounts /\ w \in Workspaces \cup {NoWorkspace}
    BY <1>1
  <2>3. \E u: u = new /\ u = [cfg EXCEPT !.disabled = D, !.active = w]
    OBVIOUS
  <2> HIDE DEF D, w
  <2> QED BY <2>1, <2>2, EditInv
<1> QED BY <1>2, <1>3

LEMMA InitInv == Init => IInv
<1> SUFFICES ASSUME Init PROVE IInv
  OBVIOUS
<1> USE DEF Init
<1>1. PICK w \in Workspaces: cfg = [NoConfig EXCEPT !.active = w]
  OBVIOUS
<1>2. /\ cfg \in Configs /\ cfg.paused = NoConfig.paused /\ cfg.book = NoConfig.book
  BY <1>1, NoConfigType DEF Configs
<1>3. now \in 1..MaxTime
  BY Constants
<1>4. TypeOK
  BY <1>2, <1>3, IdleType, NoRefreshType, Constants DEF TypeOK
<1>5. WindowWithinQuota
  BY <1>2, Constants DEF WindowWithinQuota, NoConfig
<1>6. LeaseInv
  <2>1. \A r \in Requests: req[r].lease = FALSE /\ req[r].pc = "idle"
    BY DEF Idle
  <2>2. \A x: HoldingOf(x) = {} /\ Holding(x) = {}
    BY <2>1 DEF HoldingOf, Holding
  <2>3. Cardinality({}) = 0
    BY FS_EmptySet
  <2>4. /\ \A a \in Accounts: Cardinality(HoldingOf(a)) <= CredentialLimit
        /\ \A v \in Workspaces: Cardinality(Holding(v)) <= WorkspaceLimit
    <3>1. ASSUME NEW a \in Accounts PROVE Cardinality(HoldingOf(a)) <= CredentialLimit
      <4>1. HoldingOf(a) = {}
        BY <2>2
      <4> QED BY <4>1, <2>3, Constants
    <3>2. ASSUME NEW v \in Workspaces PROVE Cardinality(Holding(v)) <= WorkspaceLimit
      <4>1. Holding(v) = {}
        BY <2>2
      <4> QED BY <4>1, <2>3, Constants
    <3> QED BY <3>1, <3>2
  <2>5. refresh.pc = "idle"
    BY NoRefreshType
  <2> QED BY <2>1, <2>4, <2>5 DEF LeaseInv
<1>7. PauseInv
  BY <1>2 DEF PauseInv, NoConfig
<1> QED BY <1>4, <1>5, <1>6, <1>7 DEF IInv

(***************************************************************************)
(* Every step.                                                             *)
(***************************************************************************)
LEMMA RequestStep ==
  ASSUME IInv, NEW r \in Requests, Start(r) \/ GiveUp(r) \/ Attempt(r)
  PROVE  IInv' /\ PausesHold /\ Moves(r)
<1>1. CASE Start(r)
  BY <1>1, StartInv
<1>2. CASE GiveUp(r)
  BY <1>2, GiveUpInv
<1>3. CASE Acquire(r)
  BY <1>3, AcquireInv
<1>4. CASE Begin(r)
  BY <1>4, BeginInv
<1>5. CASE Succeed(r)
  BY <1>5, SucceedInv
<1>6. CASE Fail(r)
  BY <1>6, FailInv
<1>7. CASE TryRefresh(r)
  BY <1>7, TryRefreshInv
<1>8. CASE CommitRefresh(r)
  BY <1>8, CommitRefreshInv
<1>9. CASE Reload(r)
  BY <1>9, ReloadInv
<1>10. CASE FailAgain(r)
  BY <1>10, FailAgainInv
<1>11. CASE Relogin(r)
  BY <1>11, ReloginInv
<1>12. CASE CommitRelogin(r)
  BY <1>12, CommitReloginInv
<1>13. CASE Record(r)
  BY <1>13, RecordInv
<1>14. CASE RecordSuccess(r)
  BY <1>14, RecordSuccessInv
<1> QED BY <1>1, <1>2, <1>3, <1>4, <1>5, <1>6, <1>7, <1>8, <1>9, <1>10, <1>11, <1>12, <1>13,
           <1>14 DEF Attempt

\* The steps that are not a request's.
Background ==
  \/ StartRefresh \/ Refreshing \/ CommitSession
  \/ \E w \in Workspaces: Activate(w)
  \/ \E a \in Accounts: SetDisabled(a)
  \/ Tick

LEMMA BackgroundStep ==
  ASSUME IInv, Background
  PROVE  IInv' /\ PausesHold /\ UNCHANGED req
<1>1. CASE StartRefresh
  BY <1>1, StartRefreshInv DEF StartRefresh
<1>2. CASE Refreshing
  BY <1>2, RefreshingInv DEF Refreshing
<1>3. CASE CommitSession
  BY <1>3, CommitSessionInv DEF CommitSession
<1>4. ASSUME NEW w \in Workspaces, Activate(w)
      PROVE  IInv' /\ PausesHold /\ UNCHANGED req
  BY <1>4, ActivateInv DEF Activate, Edit
<1>5. ASSUME NEW a \in Accounts, SetDisabled(a)
      PROVE  IInv' /\ PausesHold /\ UNCHANGED req
  BY <1>5, SetDisabledInv DEF SetDisabled, Edit
<1>6. CASE Tick
  BY <1>6, TickInv DEF Tick
<1> QED BY <1>1, <1>2, <1>3, <1>4, <1>5, <1>6 DEF Background

LEMMA StutterStep ==
  ASSUME IInv, UNCHANGED vars
  PROVE  IInv' /\ PausesHold /\ UNCHANGED req
<1>1. IInv'
  BY DEF vars, IInv, TypeOK, WindowWithinQuota, LeaseInv, PauseInv, HoldingOf, Holding
<1>2. PausesHold
  BY Clocks DEF vars, PausesHold, IInv
<1> QED BY <1>1, <1>2 DEF vars

\* A step is one of a request, and then the others stay, or leaves them all.
LEMMA AnyStep ==
  ASSUME IInv, [Next]_vars
  PROVE  /\ IInv' /\ PausesHold
         /\ \/ \E r \in Requests: (Start(r) \/ GiveUp(r) \/ Attempt(r)) /\ Moves(r)
            \/ UNCHANGED req
<1>1. ASSUME NEW r \in Requests, Start(r) \/ GiveUp(r) \/ Attempt(r)
      PROVE  IInv' /\ PausesHold /\ Moves(r)
  BY <1>1, RequestStep
<1>2. ASSUME NEW r \in Requests, Refuse(r)
      PROVE  IInv' /\ PausesHold /\ UNCHANGED req
  BY <1>2, StutterStep DEF Refuse
<1>3. CASE Background
  BY <1>3, BackgroundStep
<1>4. CASE UNCHANGED vars
  BY <1>4, StutterStep
<1> QED BY <1>1, <1>2, <1>3, <1>4 DEF Next, Background

\* The invariant behind the others: every reachable state satisfies it.
THEOREM Inductive == Spec => []IInv
<1>1. IInv /\ [Next]_vars => IInv'
  BY AnyStep
<1> QED BY <1>1, InitInv, PTL DEF Spec

\* Prompts that run upstream never exceed account_max_concurrency, nor
\* max_concurrency of their workspace (dispatch_limiter.go).
THEOREM LimitsHold == Spec => []InferenceWithinLimits
<1>1. IInv => InferenceWithinLimits
  <2> SUFFICES ASSUME IInv PROVE InferenceWithinLimits
    OBVIOUS
  <2>1. \A r \in Requests: Inferring(r) => req[r].lease
    BY DEF IInv, LeaseInv, Inferring
  <2>2. ASSUME NEW a \in Accounts
        PROVE  Cardinality({r \in Requests: Inferring(r) /\ AccountOf[req[r].at] = a})
                 <= CredentialLimit
    <3> DEFINE S == {r \in Requests: Inferring(r) /\ AccountOf[req[r].at] = a}
    <3>1. S \subseteq HoldingOf(a)
      BY <2>1 DEF HoldingOf
    <3>2. Cardinality(HoldingOf(a)) \in Nat /\ Cardinality(HoldingOf(a)) <= CredentialLimit
      BY HoldersFinite DEF IInv, LeaseInv
    <3> HIDE DEF S
    <3>3. Cardinality(S) <= CredentialLimit
      BY <3>1, <3>2, FewerHolders, HoldersFinite, Constants
    <3> QED BY <3>3 DEF S
  <2>3. ASSUME NEW w \in Workspaces
        PROVE  Cardinality({r \in Requests: Inferring(r) /\ req[r].at = w}) <= WorkspaceLimit
    <3> DEFINE S == {r \in Requests: Inferring(r) /\ req[r].at = w}
    <3>1. S \subseteq Holding(w)
      BY <2>1 DEF Holding
    <3>2. Cardinality(Holding(w)) \in Nat /\ Cardinality(Holding(w)) <= WorkspaceLimit
      BY HoldersFinite DEF IInv, LeaseInv
    <3> HIDE DEF S
    <3>3. Cardinality(S) <= WorkspaceLimit
      BY <3>1, <3>2, FewerHolders, HoldersFinite, Constants
    <3> QED BY <3>3 DEF S
  <2> QED BY <2>2, <2>3 DEF InferenceWithinLimits
<1> QED BY <1>1, Inductive, PTL

\* No workspace takes more requests per window than its hourly quota
\* (beginWorkspaceDispatch charges the live record it has just checked).
THEOREM QuotaHolds == Spec => []WindowWithinQuota
<1>1. IInv => WindowWithinQuota
  BY DEF IInv
<1> QED BY <1>1, Inductive, PTL

\* No commit, edit or later failure cuts a pause of a credential short
\* (backOffCredential keeps the later deadline).
THEOREM PausesNeverShrink == Spec => PauseNeverShrinks
<1>1. IInv /\ [Next]_vars => [\A a \in Accounts: cfg'.paused[a] >= cfg.paused[a]]_vars
  BY AnyStep DEF PausesHold
<1> QED BY <1>1, Inductive, PTL DEF Spec, PauseNeverShrinks

(***************************************************************************)
(* How a prompt comes to run.                                              *)
(***************************************************************************)
LEMMA PcOnly ==
  ASSUME req \in [Requests -> Dispatches], NEW r \in Requests
  PROVE  /\ \A pc, lease: Goes(r, pc, lease) => req'[r].pc = pc
         /\ \A pc, lease, e: GoesWith(r, pc, lease, e) => req'[r].pc = pc
         /\ Ends(r) => req'[r].pc = "idle"
         /\ MovesOn(r) => req'[r].pc = "next"
         /\ \A pc, c: req' = [req EXCEPT ![r].pc = pc, ![r].seen = c] => req'[r].pc = pc
         /\ \A pc, n: req' = [req EXCEPT ![r].pc = pc, ![r].relogged = n] => req'[r].pc = pc
         /\ \A pc: req' = [req EXCEPT ![r].pc = pc] => req'[r].pc = pc
<1>1. ASSUME NEW pc, NEW lease, Goes(r, pc, lease) PROVE req'[r].pc = pc
  BY <1>1 DEF Goes, Dispatches
<1>2. ASSUME NEW pc, NEW lease, NEW e, GoesWith(r, pc, lease, e) PROVE req'[r].pc = pc
  <2> DEFINE n == faults + 1
  <2>1. req' = [req EXCEPT ![r].pc = pc, ![r].lease = lease, ![r].err = e, ![r].nth = n]
    BY <1>2 DEF GoesWith
  <2> HIDE DEF n
  <2> QED BY <2>1 DEF Dispatches
<1>3. Ends(r) => req'[r].pc = "idle"
  BY DEF Ends, Idle
<1>4. MovesOn(r) => req'[r].pc = "next"
  <2> DEFINE pc == "next"
             todo == req[r].todo
             c == req[r].seen
  <2>1. MovesOn(r) => req' = [req EXCEPT ![r] = [Idle EXCEPT !.pc = pc, !.todo = todo, !.seen = c]]
    BY DEF MovesOn
  <2>2. [Idle EXCEPT !.pc = pc, !.todo = todo, !.seen = c].pc = pc
    <3> HIDE DEF pc, todo, c
    <3> QED BY DEF Idle
  <2> HIDE DEF todo, c
  <2> QED BY <2>1, <2>2
<1>5. ASSUME NEW pc, NEW c, req' = [req EXCEPT ![r].pc = pc, ![r].seen = c] PROVE req'[r].pc = pc
  BY <1>5 DEF Dispatches
<1>6. ASSUME NEW pc, NEW n, req' = [req EXCEPT ![r].pc = pc, ![r].relogged = n]
      PROVE  req'[r].pc = pc
  BY <1>6 DEF Dispatches
<1>7. ASSUME NEW pc, req' = [req EXCEPT ![r].pc = pc] PROVE req'[r].pc = pc
  BY <1>7 DEF Dispatches
<1> QED BY <1>1, <1>2, <1>3, <1>4, <1>5, <1>6, <1>7

\* A prompt starts after the candidate was found eligible under the lease, or
\* when a retry takes the slots again.
LEMMA PromptStarts ==
  ASSUME IInv, NEW r \in Requests, Start(r) \/ GiveUp(r) \/ Attempt(r),
         ~Inferring(r), Inferring(r)'
  PROVE  /\ req'[r].at = req[r].at /\ req[r].at \in Workspaces
         /\ cfg.paused[AccountOf[req[r].at]] <= now
         /\ \/ req[r].pc = "leased" /\ req[r].lease
            \/ HasSlots(req[r].at)
<1> USE DEF IInv
<1>1. CASE Begin(r)
  <2>1. req[r].pc = "leased" /\ req[r].lease /\ req[r].at \in Workspaces
    BY <1>1 DEF Begin, LeaseInv
  <2>2. ~MovesOn(r)
    BY PcOnly DEF TypeOK, Inferring
  <2>3. Eligible(cfg, req[r].at)
    BY <1>1, <2>2 DEF Begin
  <2>4. req'[r].at = req[r].at
    BY <1>1, <2>3 DEF Begin, TypeOK, Dispatches
  <2> QED BY <2>1, <2>3, <2>4 DEF Eligible
<1>2. CASE Reload(r)
  <2>1. ~MovesOn(r) /\ ~Ends(r) /\ \A lease, e: ~GoesWith(r, "relogin", lease, e) /\ ~GoesWith(r, "record", lease, e)
    BY PcOnly DEF TypeOK, Inferring
  <2>2. Readmitted(req[r].at) /\ Goes(r, "rerun", TRUE)
    <3>1. ASSUME NEW e \in Errors
          PROVE  ~(CASE e.kind = "abort" -> Ends(r)
                     [] e.kind = "model" -> MovesOn(r)
                     [] e.kind = "auth"  -> GoesWith(r, "relogin", FALSE, e)
                     [] OTHER            -> GoesWith(r, "record", FALSE, e))
      BY <2>1
    <3> QED BY <1>2, <2>1, <3>1 DEF Reload
  <2>3. req'[r].at = req[r].at
    BY <2>2, GoesStep DEF TypeOK, Pcs
  <2>4. req[r].at \in Workspaces
    BY <1>2 DEF Reload, LeaseInv
  <2> QED BY <2>2, <2>3, <2>4 DEF Readmitted
<1>3. CASE Succeed(r) \/ Fail(r) \/ FailAgain(r)
  BY <1>3 DEF Succeed, Fail, FailAgain, Inferring
<1>4. CASE Start(r)
  <2>1. req'[r].pc = "next"
    BY <1>4 DEF Start, Idle, TypeOK
  <2> QED BY <2>1 DEF Inferring
<1>5. CASE GiveUp(r) \/ RecordSuccess(r) \/ Record(r)
  BY <1>5, PcOnly DEF GiveUp, RecordSuccess, Record, TypeOK, Inferring
<1>6. CASE Acquire(r)
  <2>1. req'[r].pc = "leased"
    BY <1>6 DEF Acquire, TypeOK, Dispatches
  <2> QED BY <2>1 DEF Inferring
<1>7. CASE TryRefresh(r)
  BY <1>7, PcOnly DEF TryRefresh, TypeOK, Inferring
<1>8. CASE CommitRefresh(r)
  BY <1>8, PcOnly DEF CommitRefresh, TypeOK, Inferring
<1>9. CASE Relogin(r)
  BY <1>9, PcOnly DEF Relogin, TypeOK, Inferring
<1>10. CASE CommitRelogin(r)
  BY <1>10, PcOnly DEF CommitRelogin, TypeOK, Inferring
<1> QED BY <1>1, <1>2, <1>3, <1>4, <1>5, <1>6, <1>7, <1>8, <1>9, <1>10 DEF Attempt

\* With one slot per account no prompt starts before a pause that upstream
\* asked for is over: it is on record before the slot is free.
THEOREM BackoffHonoured == Spec => HonoursBackoff
<1> DEFINE P == \A r \in Requests:
                  CredentialLimit = 1 /\ ~Inferring(r) /\ Inferring(r)'
                    => heard[AccountOf[req'[r].at]] <= now
<1>1. IInv /\ [Next]_vars => P
  <2> SUFFICES ASSUME IInv, [Next]_vars, NEW r \in Requests, CredentialLimit = 1,
                      ~Inferring(r), Inferring(r)'
               PROVE  heard[AccountOf[req'[r].at]] <= now
    OBVIOUS
  <2>1. Start(r) \/ GiveUp(r) \/ Attempt(r)
    BY AnyStep DEF Moves, Inferring
  <2> DEFINE a == AccountOf[req[r].at]
  <2>2. /\ req'[r].at = req[r].at /\ req[r].at \in Workspaces
        /\ cfg.paused[a] <= now
        /\ (req[r].pc = "leased" /\ req[r].lease) \/ HasSlots(req[r].at)
    BY <2>1, PromptStarts
  <2>3. a \in Accounts
    BY <2>2
  <2>4. ~\E q \in Requests: Recorder(q, a)
    <3> SUFFICES ASSUME NEW q \in Requests, Recorder(q, a) PROVE FALSE
      OBVIOUS
    <3>1. q \in HoldingOf(a) /\ req[q].lease /\ AccountOf[req[q].at] = a /\ req[q].pc = "record"
      BY DEF Recorder, HoldingOf
    <3>2. CASE req[r].pc = "leased" /\ req[r].lease
      BY <3>1, <3>2, OneHolder DEF IInv
    <3>3. CASE HasSlots(req[r].at)
      <4>1. Cardinality(HoldingOf(a)) \in Nat /\ Cardinality(HoldingOf(a)) < 1
        BY <3>3, HoldersFinite DEF HasSlots
      <4>2. Cardinality({q}) = 1 /\ {q} \subseteq HoldingOf(a)
        BY <3>1, FS_Singleton
      <4> HIDE DEF a
      <4> QED BY <4>1, <4>2, FewerHolders, HoldersFinite
    <3> QED BY <2>2, <3>2, <3>3
  <2>5. heard[a] <= cfg.paused[a]
    BY <2>3, <2>4, PauseForm DEF IInv, OnRecord
  <2>6. heard[a] \in Nat /\ cfg.paused[a] \in Nat /\ now \in Nat
    BY <2>3, Clocks DEF IInv
  <2> QED BY <2>2, <2>5, <2>6
<1> QED BY <1>1, Inductive, PTL DEF Spec, HonoursBackoff

(***************************************************************************)
(* Refreshes against what was recorded meanwhile.                          *)
(***************************************************************************)
LEMMA RefreshedKeepsFresh ==
  ASSUME NEW started, NEW ended, NEW live \in Books, live.mark # started.mark
  PROVE  FailureUnchanged(live, Refreshed(started, ended, live))
<1>1. ~FailureUnchanged(started, live)
  BY DEF FailureUnchanged
<1>2. CASE Refreshed(started, ended, live) = live
  BY <1>2 DEF FailureUnchanged
<1>3. CASE Refreshed(started, ended, live) = [live EXCEPT !.status = ended.status]
  BY <1>3 DEF FailureUnchanged, Books
<1> QED BY <1>1, <1>2, <1>3 DEF Refreshed

LEMMA CommittedKeepsFresh ==
  ASSUME cfg \in Configs, NEW old, NEW new, NEW w \in Workspaces, NEW makeActive,
         cfg.book[w].mark # old.book[w].mark,
         \/ Saved(Committed(old, new, w, makeActive))
         \/ SaveFailed(Committed(old, new, w, makeActive))
  PROVE  FailureUnchanged(cfg.book[w], cfg'.book[w])
<1> DEFINE live == Refreshed(old.book[w], new.book[w], cfg.book[w])
<1>1. cfg.book[w] \in Books
  BY ConfigFields
<1>2. CASE cfg' = cfg
  BY <1>2 DEF FailureUnchanged
<1>3. CASE cfg' = Committed(old, new, w, makeActive)
  <2>1. Committed(old, new, w, makeActive).book = [cfg.book EXCEPT ![w] = live]
    BY DEF Committed, Configs
  <2>2. cfg'.book[w] = live
    BY <1>3, <2>1, ConfigFields
  <2> QED BY <1>1, <2>2, RefreshedKeepsFresh
<1> QED BY <1>2, <1>3 DEF SaveFailed, Saved

\* A refresh or a relogin clears no failure that was recorded after it took its
\* snapshot (commitAccountRefreshResult, accountFailureStateUnchanged).
THEOREM FreshFailuresStay == Spec => CommitKeepsFresh
<1> DEFINE P == \A p \in Requests \cup {Refresher}, w \in Workspaces:
                  /\ Commits(p, w)
                  /\ cfg.book[w].mark \notin {0, SnapshotOf(p).book[w].mark}
                  => FailureUnchanged(cfg.book[w], cfg'.book[w])
<1>1. IInv /\ [Next]_vars => P
  <2> SUFFICES ASSUME IInv, NEW p \in Requests \cup {Refresher}, NEW w \in Workspaces,
                      Commits(p, w), cfg.book[w].mark # SnapshotOf(p).book[w].mark
               PROVE  FailureUnchanged(cfg.book[w], cfg'.book[w])
    OBVIOUS
  <2>1. cfg \in Configs
    BY DEF IInv, TypeOK
  <2>2. CASE p \in Requests /\ req[p].at = w /\ CommitRefresh(p)
    BY <2>1, <2>2, CommittedKeepsFresh DEF CommitRefresh, SnapshotOf
  <2>3. CASE p \in Requests /\ req[p].at = w /\ CommitRelogin(p)
    BY <2>1, <2>3, CommittedKeepsFresh DEF CommitRelogin, SnapshotOf
  <2>4. CASE p = Refresher /\ refresh.at = w /\ CommitSession
    BY <2>1, <2>4, CommittedKeepsFresh DEF CommitSession, SavedOrNot, SnapshotOf
  <2> QED BY <2>2, <2>3, <2>4 DEF Commits
<1> QED BY <1>1, Inductive, PTL DEF Spec, CommitKeepsFresh
===============================================================================
