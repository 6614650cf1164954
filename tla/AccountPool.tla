------------------------------ MODULE AccountPool ------------------------------
(***************************************************************************)
(* The account pool (account_pool.go) under the dispatcher and the session *)
(* refresh: cooldowns of workspaces, backoff of credentials, the request   *)
(* window of a workspace, and the refreshes that commit against them.      *)
(*                                                                         *)
(* Every change of the configuration is a read-modify-write of the live    *)
(* one under refreshMu and is one step.  What makes it hard is what is     *)
(* done with an older snapshot: a request and a refresh each take one,     *)
(* talk to the network, and commit against a configuration that others     *)
(* have changed meanwhile.                                                 *)
(*                                                                         *)
(* Dispatch slots are taken in one step here; DispatchSlots justifies it.  *)
(***************************************************************************)
EXTENDS Naturals, FiniteSets

CONSTANTS
  Requests,         \* prompts being dispatched
  Accounts,
  Workspaces,       \* account workspaces, what is dispatched to
  AccountOf,        \* the account of a workspace
  DefaultOf,        \* the default workspace of an account
  NoWorkspace,
  CredentialLimit,  \* dispatch.account_max_concurrency
  WorkspaceLimit,   \* max_concurrency of a workspace
  HourlyQuota,      \* requests a workspace takes per window, 0: no limit
  Window,           \* length of that window
  Cooldown,         \* length of an ordinary cooldown
  QuotaCooldown,    \* length of the cooldown of an exhausted AI allowance
  Waits,            \* backoffs upstream may impose on a credential
  ReloginInterval,  \* accountAutoReloginInterval
  MaxTime,          \* last instant (bound)
  MaxFaults,        \* failures of calls and saves (bound)
  MaxEdits          \* admin edits and refreshes (bound)

\* RefreshSession among the requests, as one that refreshes.
Refresher == "refresher"

ASSUME PoolAssumption ==
  /\ AccountOf \in [Workspaces -> Accounts]
  /\ DefaultOf \in [Accounts -> Workspaces]
  /\ NoWorkspace \notin Workspaces
  /\ {CredentialLimit, WorkspaceLimit, HourlyQuota, Window, Cooldown, QuotaCooldown,
      ReloginInterval, MaxTime, MaxFaults, MaxEdits} \subseteq Nat
  /\ MaxTime > 0
  /\ Waits \subseteq Nat \ {0}
  /\ IsFiniteSet(Requests) /\ Refresher \notin Requests

VARIABLES
  now,       \* the clock; 0 stands for "no timestamp"
  cfg,       \* s.Config: what the pool decides on
  order,     \* snapshotBundle.DispatchOrder: eligible when the bundle was built
  req,       \* the dispatch of each request
  refresh,   \* RefreshSession, one at a time (sessionRefreshMu)
  heard,     \* history: until when upstream asked a credential to back off
  faults,    \* failures so far (bound)
  edits      \* edits and refreshes so far (bound)

vars == <<now, cfg, order, req, refresh, heard, faults, edits>>

Max2(a, b) == IF a >= b THEN a ELSE b

Statuses == {"ready", "failed", "expired", "pending_code", "quota_exhausted"}

\* What a workspace record carries.  until is CooldownUntil; mark tells apart
\* two deadlines of one instant, which has room for many real ones.
Books ==
  [status: Statuses, until: Nat, mark: 0..MaxFaults, quotaAt: 0..MaxFaults,
   fails: Nat, started: 0..MaxTime, count: Nat]

Configs ==
  [book: [Workspaces -> Books], paused: [Accounts -> Nat],
   relogin: [Accounts -> 0..MaxTime], disabled: SUBSET Accounts,
   active: Workspaces \cup {NoWorkspace}]

NoConfig ==
  [book |-> [w \in Workspaces |-> [status |-> "ready", until |-> 0, mark |-> 0, quotaAt |-> 0,
                                   fails |-> 0, started |-> 0, count |-> 0]],
   paused |-> [a \in Accounts |-> 0], relogin |-> [a \in Accounts |-> 0],
   disabled |-> {}, active |-> NoWorkspace]

\* The errors an upstream call ends in, by what the dispatcher does with them.
\* abort: client gone, bad input, wrong workspace; model: not to be had there;
\* rate, trust: pause the credential; auth: the session expired.
Kinds   == {"abort", "model", "rate", "trust", "quota", "auth", "other"}
Pausing == {"rate", "trust"}
Errors  == {e \in [kind: Kinds, wait: Waits \cup {0}]: e.kind \in Pausing <=> e.wait # 0}
NoError == [kind |-> "abort", wait |-> 0]
Other   == [kind |-> "other", wait |-> 0]
-------------------------------------------------------------------------------
\* Records (account_pool.go 42-192).

WindowOf(b) ==
  IF HourlyQuota = 0 THEN [b EXCEPT !.started = 0, !.count = 0]
  ELSE IF b.started = 0 \/ now - b.started >= Window
       THEN [b EXCEPT !.started = now, !.count = 0]
       ELSE b

HasQuota(b) == HourlyQuota = 0 \/ WindowOf(b).count < HourlyQuota

Eligible(c, w) ==
  /\ AccountOf[w] \notin c.disabled
  /\ c.paused[AccountOf[w]] <= now
  /\ c.book[w].until <= now
  /\ HasQuota(c.book[w])

EligibleIn(c) == {w \in Workspaces: Eligible(c, w)}

MarkStart(b) ==
  LET fresh == WindowOf(b)
  IN  [fresh EXCEPT !.count = IF HourlyQuota > 0 THEN @ + 1 ELSE @]

MarkSuccess(b) ==
  [b EXCEPT !.status = "ready", !.until = 0, !.mark = 0, !.fails = 0]

\* n names the failure: no two are recorded with the same one.
MarkFailure(b, e, retryable, n) ==
  LET counted == [b EXCEPT !.fails = @ + 1, !.mark = n]
  IN  IF e.kind = "quota"
      THEN [counted EXCEPT !.status = "quota_exhausted", !.quotaAt = n,
                           !.until = now + QuotaCooldown]
      ELSE [counted EXCEPT
              !.status = IF @ = "pending_code" THEN @
                         ELSE IF retryable THEN "expired" ELSE "failed",
              !.until = IF e.kind = "rate" THEN Max2(now + Cooldown, now + e.wait)
                                           ELSE now + Cooldown]

\* credentialBackoff: 0 when the error does not pause the credential.
Backoff(e) == IF e.kind \in Pausing THEN now + e.wait ELSE 0

QuotaCooldownActive(b) == b.status = "quota_exhausted" /\ b.until > now

FailureUnchanged(started, live) ==
  /\ started.until = live.until
  /\ started.mark = live.mark
  /\ started.quotaAt = live.quotaAt
  /\ started.fails = live.fails

\* Mutant: a healthy refresh clears whatever it finds.
RefreshedAnyway(started, ended, live) ==
  IF ended.status = "ready" THEN MarkSuccess(live) ELSE [live EXCEPT !.status = ended.status]

\* commitAccountRefreshResult: the live record after a refresh that started
\* from one record and ended with another.
Refreshed(started, ended, live) ==
  LET healthy == ended.status = "ready" /\ ended.until = 0 /\ ended.fails = 0
  IN  IF healthy
      THEN IF FailureUnchanged(started, live) /\ ~QuotaCooldownActive(live)
           THEN [live EXCEPT !.status = "ready", !.until = 0, !.mark = 0, !.fails = 0]
           ELSE live
      ELSE [live EXCEPT !.status = ended.status]

\* Mutant: the account of the snapshot is put back whole.
CommittedWhole(old, new, w, makeActive) ==
  [cfg EXCEPT !.book[w] = Refreshed(old.book[w], new.book[w], @),
              !.paused[AccountOf[w]] = new.paused[AccountOf[w]],
              !.active = IF makeActive THEN w ELSE @]

\* The same for the configuration: old is the snapshot, new the refreshed copy.
Committed(old, new, w, makeActive) ==
  LET a == AccountOf[w]
  IN  [cfg EXCEPT !.book[w] = Refreshed(old.book[w], new.book[w], @),
                  !.relogin[a] = IF new.relogin[a] # 0 THEN new.relogin[a] ELSE @,
                  !.active = IF makeActive THEN w ELSE @]

\* tryRefreshAccount's copy of the configuration after a completed refresh,
\* and after one that failed.
Renewed(c, w) == [c EXCEPT !.book[w] = MarkSuccess(@)]
Expired(c, w, status) == [c EXCEPT !.book[w].status = status]
-------------------------------------------------------------------------------
\* A request: its step, the candidates it has not tried, the one it dispatches
\* to, whether it holds the slots, its snapshot, LastReloginAt of the record
\* its attempt began with, and the error of the attempt, the nth failure.
Idle == [pc |-> "idle", todo |-> {}, at |-> NoWorkspace, lease |-> FALSE,
         seen |-> NoConfig, relogged |-> 0, err |-> NoError, nth |-> 0]

\* A refresh: its step, the workspace it refreshes, the ones it falls back to
\* (AutoSwitch), its snapshot, and how the refresh ended.
NoRefresh == [pc |-> "idle", at |-> NoWorkspace, todo |-> {}, seen |-> NoConfig, ended |-> "ready"]

\* What of a configuration is read from a snapshot: not the request windows and
\* not who is disabled, nor by a request (who is paused).
RefreshView(c) ==
  [c EXCEPT !.book = [w \in Workspaces |-> [c.book[w] EXCEPT !.started = 0, !.count = 0]],
            !.disabled = {}]
RequestView(c) == [RefreshView(c) EXCEPT !.paused = [a \in Accounts |-> 0]]

Init ==
  /\ now = 1
  /\ cfg \in {[NoConfig EXCEPT !.active = w]: w \in Workspaces}
  /\ order = Workspaces
  /\ req = [r \in Requests |-> Idle]
  /\ refresh = NoRefresh
  /\ heard = [a \in Accounts |-> 0]
  /\ faults = 0
  /\ edits = 0

Saved(new) == cfg' = new /\ order' = EligibleIn(new)

\* saveAndApplyLocked may fail before it applies the configuration
\* (saveConfigFile) and after (SaveAccounts).
SaveFailed(new) ==
  /\ faults < MaxFaults
  /\ faults' = faults + 1
  /\ Saved(new) \/ UNCHANGED <<cfg, order>>

SavedOrNot(new) == (Saved(new) /\ UNCHANGED faults) \/ SaveFailed(new)

Holding(w) == {r \in Requests: req[r].lease /\ req[r].at = w}
HoldingOf(a) == {r \in Requests: req[r].lease /\ AccountOf[req[r].at] = a}

HasSlots(w) ==
  /\ Cardinality(HoldingOf(AccountOf[w])) < CredentialLimit
  /\ Cardinality(Holding(w)) < WorkspaceLimit

\* The step of r, and its lease from there on.
Goes(r, pc, lease) == req' = [req EXCEPT ![r].pc = pc, ![r].lease = lease]
\* The same with the error of the failure that brings it there, the faults-th.
GoesWith(r, pc, lease, e) ==
  req' = [req EXCEPT ![r].pc = pc, ![r].lease = lease, ![r].err = e, ![r].nth = faults + 1]
Ends(r) == req' = [req EXCEPT ![r] = Idle]
\* Its attempt is over: the deferred release, and the next candidate.
MovesOn(r) ==
  req' = [req EXCEPT ![r] = [Idle EXCEPT !.pc = "next", !.todo = req[r].todo, !.seen = req[r].seen]]

\* resolveRequestDispatchCandidates: the cached order, or what is eligible now
\* when it is empty or a pin asks for it.  A candidate that the model or the pin
\* drops is one that is never acquired.
Start(r) ==
  /\ req[r].pc = "idle"
  /\ order \cup EligibleIn(cfg) # {}
  /\ req' = [req EXCEPT ![r] = [Idle EXCEPT !.pc = "next", !.todo = order \cup EligibleIn(cfg),
                                            !.seen = RequestView(cfg)]]
  /\ UNCHANGED <<now, cfg, order, refresh, heard, faults, edits>>

\* No candidate, no capacity: the client gets an error and nothing changes.
Refuse(r) == req[r].pc = "idle" /\ UNCHANGED vars

\* The candidates left are refused (model, capacity), or may not be tried since
\* the client has seen output.
GiveUp(r) ==
  /\ req[r].pc = "next"
  /\ Ends(r)
  /\ UNCHANGED <<now, cfg, order, refresh, heard, faults, edits>>

Acquire(r) ==
  /\ req[r].pc = "next"
  /\ \E w \in req[r].todo:
       /\ HasSlots(w)
       /\ req' = [req EXCEPT ![r].pc = "leased", ![r].lease = TRUE, ![r].at = w,
                             ![r].todo = @ \ {w}]
  /\ UNCHANGED <<now, cfg, order, refresh, heard, faults, edits>>

\* Mutant: eligibility is left to the snapshot the candidates came from.
BeginUnchecked(r) ==
  /\ req[r].pc = "leased"
  /\ Saved([cfg EXCEPT !.book[req[r].at] = MarkStart(@)])
  /\ req' = [req EXCEPT ![r].pc = "begun", ![r].relogged = cfg.relogin[AccountOf[req[r].at]]]
  /\ UNCHANGED <<now, refresh, heard, faults, edits>>

\* beginWorkspaceDispatch: eligible in the live configuration, or the next
\* candidate.
Begin(r) ==
  LET w == req[r].at
  IN  /\ req[r].pc = "leased"
      /\ IF Eligible(cfg, w)
         THEN /\ Saved([cfg EXCEPT !.book[w] = MarkStart(@)])
              /\ req' = [req EXCEPT ![r].pc = "begun", ![r].relogged = cfg.relogin[AccountOf[w]]]
         ELSE MovesOn(r) /\ UNCHANGED <<cfg, order>>
      /\ UNCHANGED <<now, refresh, heard, faults, edits>>

\* Upstream answered 429 or distrust to a call made while holding the slots.
Hears(r, e) ==
  heard' = IF e.kind \in Pausing
           THEN [heard EXCEPT ![AccountOf[req[r].at]] = Max2(@, now + e.wait)]
           ELSE heard

\* Failures of the account are bounded; those that are not recorded need not be.
Counted(e) ==
  IF e.kind \in {"abort", "model"} THEN UNCHANGED faults
  ELSE faults < MaxFaults /\ faults' = faults + 1

\* The prompt ran; succeed releases the slots before it records.
Succeed(r) ==
  /\ req[r].pc \in {"begun", "rerun"}
  /\ Goes(r, "succeeded", FALSE)
  /\ UNCHANGED <<now, cfg, order, refresh, heard, faults, edits>>

\* Mutant: the slots are released before any failure is recorded.
FailReleasing(r) ==
  /\ req[r].pc = "begun"
  /\ \E e \in Errors:
       /\ Counted(e)
       /\ Hears(r, e)
       /\ GoesWith(r, "record", FALSE, e)
  /\ UNCHANGED <<now, cfg, order, refresh, edits>>

\* The session would not load or the prompt failed.  A pause is recorded
\* before the slots are released, the rest after: a refresh holds none.
Fail(r) ==
  /\ req[r].pc = "begun"
  /\ \E e \in Errors:
       /\ Counted(e)
       /\ Hears(r, e)
       /\ CASE e.kind = "abort"       -> Ends(r)
            [] e.kind = "model"       -> MovesOn(r)
            [] e.kind \in Pausing     -> GoesWith(r, "record", TRUE, e)
            [] e.kind = "auth"        -> GoesWith(r, "expired", FALSE, e)
            [] OTHER                  -> GoesWith(r, "record", FALSE, e)
  /\ UNCHANGED <<now, cfg, order, refresh, edits>>

\* tryRefreshAccount, without a lock and without slots; it may fail, be turned
\* off, or be out of the question since the client has seen output.
TryRefresh(r) ==
  /\ req[r].pc = "expired"
  /\ Goes(r, "refreshed", FALSE) \/ Goes(r, "relogin", FALSE)
  /\ UNCHANGED <<now, cfg, order, refresh, heard, faults, edits>>

\* The account record of r's attempt carries LastReloginAt into the copy.
Renewal(r) ==
  LET c == Renewed(req[r].seen, req[r].at)
  IN  IF req[r].relogged = 0 THEN c
      ELSE [c EXCEPT !.relogin[AccountOf[req[r].at]] = req[r].relogged]

\* commitAccountRefresh after a refresh: another refresh or an edit of the
\* account's identity refuses it, and so does a failed save.
CommitRefresh(r) ==
  LET new == Committed(req[r].seen, Renewal(r), req[r].at, FALSE)
  IN  /\ req[r].pc = "refreshed"
      /\ \/ /\ Saved(new)
            /\ req' = [req EXCEPT ![r].pc = "reload", ![r].seen = RequestView(new)]
            /\ UNCHANGED faults
         \/ /\ SaveFailed(new)
            /\ GoesWith(r, "record", FALSE, Other)
      /\ UNCHANGED <<now, refresh, heard, edits>>

\* Mutant: a retry counts on the slots it has given back.
ReadmittedUnslotted(w) == AccountOf[w] \notin cfg.disabled /\ cfg.book[w].until <= now

\* acquireWorkspaceDispatchSlot for a retry: admission is rechecked, the window
\* is not charged again.
Readmitted(w) ==
  /\ AccountOf[w] \notin cfg.disabled
  /\ cfg.book[w].until <= now
  /\ cfg.paused[AccountOf[w]] <= now
  /\ HasSlots(w)

\* The refreshed session is loaded and probed, then the slots are taken again;
\* a miss is no failure of the account.
Reload(r) ==
  /\ req[r].pc = "reload"
  /\ \/ Readmitted(req[r].at) /\ Goes(r, "rerun", TRUE) /\ UNCHANGED faults
     \/ MovesOn(r) /\ UNCHANGED faults
     \/ \E e \in Errors:
          /\ Counted(e)
          /\ CASE e.kind = "abort" -> Ends(r)
               [] e.kind = "model" -> MovesOn(r)
               [] e.kind = "auth"  -> GoesWith(r, "relogin", FALSE, e)
               [] OTHER            -> GoesWith(r, "record", FALSE, e)
  /\ UNCHANGED <<now, cfg, order, refresh, heard, edits>>

\* The second run failed; its slots are held until the end of the attempt.
FailAgain(r) ==
  /\ req[r].pc = "rerun"
  /\ \E e \in Errors:
       /\ Counted(e)
       /\ Hears(r, e)
       /\ CASE e.kind = "abort" -> Ends(r)
            [] e.kind = "model" -> MovesOn(r)
            [] e.kind = "auth"  -> GoesWith(r, "relogin", TRUE, e)
            [] OTHER            -> GoesWith(r, "record", TRUE, e)
  /\ UNCHANGED <<now, cfg, order, refresh, edits>>

\* startAutoRelogin: nothing when LastReloginAt of the attempt's record is
\* recent, else a verification mail.
Relogin(r) ==
  LET last == req[r].relogged
  IN  /\ req[r].pc = "relogin"
      /\ IF last # 0 /\ now - last < ReloginInterval
         THEN req' = [req EXCEPT ![r].pc = "unsent"]
         ELSE req' = [req EXCEPT ![r].pc = "sent", ![r].relogged = now]
      /\ UNCHANGED <<now, cfg, order, refresh, heard, faults, edits>>

CommitRelogin(r) ==
  LET w    == req[r].at
      old  == req[r].seen
      copy == IF req[r].pc = "sent"
              THEN [Expired(old, w, "pending_code") EXCEPT !.relogin[AccountOf[w]] = req[r].relogged]
              ELSE old
      new  == Committed(old, copy, w, FALSE)
  IN  /\ req[r].pc \in {"sent", "unsent"}
      /\ \/ /\ Saved(new)
            /\ req' = [req EXCEPT ![r].pc = "record", ![r].seen = RequestView(new)]
            /\ UNCHANGED faults
         \/ /\ SaveFailed(new)
            /\ req' = [req EXCEPT ![r].pc = "record", ![r].seen = copy]
      /\ UNCHANGED <<now, refresh, heard, edits>>

\* finishWorkspaceDispatchFailure, and the end of the attempt: the deferred
\* release.  A save that fails ends the request.
Record(r) ==
  LET w   == req[r].at
      a   == AccountOf[w]
      e   == req[r].err
      new == [cfg EXCEPT !.book[w] = MarkFailure(@, e, e.kind = "auth", req[r].nth),
                         !.paused[a] = Max2(@, Backoff(e))]
  IN  /\ req[r].pc = "record"
      /\ \/ /\ Saved(new)
            /\ MovesOn(r)
            /\ UNCHANGED <<heard, faults>>
         \/ /\ SaveFailed(new)
            /\ Ends(r)
            /\ heard' = IF e.kind \in Pausing /\ req[r].lease THEN [heard EXCEPT ![a] = 0]
                                                             ELSE heard
      /\ UNCHANGED <<now, refresh, edits>>

\* finishWorkspaceDispatchSuccess; makeActive is decided on the snapshot
\* (shouldPersistDispatchedAccountAsActive).  A failed save is only logged.
RecordSuccess(r) ==
  LET w         == req[r].at
      active    == req[r].seen.active
      makeActive == active = NoWorkspace \/ AccountOf[active] = AccountOf[w]
      new       == [cfg EXCEPT !.book[w] = MarkSuccess(@),
                               !.active = IF makeActive THEN w ELSE @]
  IN  /\ req[r].pc = "succeeded"
      /\ SavedOrNot(new)
      /\ Ends(r)
      /\ UNCHANGED <<now, refresh, heard, edits>>
-------------------------------------------------------------------------------
\* RefreshSession, periodic or explicit.
StartRefresh ==
  /\ refresh.pc = "idle"
  /\ edits < MaxEdits
  /\ edits' = edits + 1
  /\ cfg.active # NoWorkspace
  /\ refresh' = [NoRefresh EXCEPT !.pc = "try", !.at = cfg.active, !.seen = RefreshView(cfg),
                                  !.todo = {DefaultOf[a]: a \in Accounts \ {AccountOf[cfg.active]}}]
  /\ UNCHANGED <<now, cfg, order, req, heard, faults>>

\* tryRefreshAccount, deferred while the snapshot has the credential paused.
Refreshing ==
  /\ refresh.pc = "try"
  /\ \E ended \in IF refresh.seen.paused[AccountOf[refresh.at]] > now
                   THEN {"deferred"} ELSE {"ready", "expired", "failed"}:
       refresh' = [refresh EXCEPT !.pc = "commit", !.ended = ended]
  /\ UNCHANGED <<now, cfg, order, req, heard, faults, edits>>

RefreshCopy ==
  CASE refresh.ended = "ready"    -> Renewed(refresh.seen, refresh.at)
    [] refresh.ended = "deferred" -> refresh.seen
    [] OTHER                      -> Expired(refresh.seen, refresh.at, refresh.ended)

\* commitAccountRefreshResult; after a failed refresh, committed or not, the
\* next account is tried with the same snapshot (session_refresh.auto_switch).
CommitSession ==
  LET new == Committed(refresh.seen, RefreshCopy, refresh.at, refresh.ended = "ready")
  IN  /\ refresh.pc = "commit"
      /\ SavedOrNot(new)
      /\ \/ refresh' = NoRefresh
         \/ /\ refresh.ended # "ready"
            /\ \E w \in refresh.todo:
                 refresh' = [refresh EXCEPT !.pc = "try", !.at = w, !.todo = @ \ {w}]
      /\ UNCHANGED <<now, req, heard, edits>>
-------------------------------------------------------------------------------
\* Admin requests run under Mutate: one read-modify-write of the live
\* configuration.
Edit(new) ==
  /\ edits < MaxEdits
  /\ edits' = edits + 1
  /\ Saved(new)
  /\ UNCHANGED <<now, req, refresh, heard, faults>>

Activate(w) == Edit([cfg EXCEPT !.active = w])

SetDisabled(a) ==
  Edit(IF a \in cfg.disabled THEN [cfg EXCEPT !.disabled = @ \ {a}]
       ELSE [cfg EXCEPT !.disabled = @ \cup {a},
                        !.active = IF @ # NoWorkspace /\ AccountOf[@] = a THEN NoWorkspace ELSE @])

Tick ==
  /\ now < MaxTime
  /\ now' = now + 1
  /\ UNCHANGED <<cfg, order, req, refresh, heard, faults, edits>>

Attempt(r) ==
  \/ Acquire(r) \/ Begin(r) \/ Succeed(r) \/ Fail(r) \/ TryRefresh(r) \/ CommitRefresh(r)
  \/ Reload(r) \/ FailAgain(r) \/ Relogin(r) \/ CommitRelogin(r) \/ Record(r) \/ RecordSuccess(r)

Next ==
  \/ \E r \in Requests: Start(r) \/ Refuse(r) \/ GiveUp(r) \/ Attempt(r)
  \/ StartRefresh \/ Refreshing \/ CommitSession
  \/ \E w \in Workspaces: Activate(w)
  \/ \E a \in Accounts: SetDisabled(a)
  \/ Tick

Spec == Init /\ [][Next]_vars
-------------------------------------------------------------------------------
Pcs == {"idle", "next", "leased", "begun", "succeeded", "expired", "refreshed", "reload",
        "rerun", "relogin", "sent", "unsent", "record"}

Dispatches ==
  [pc: Pcs, todo: SUBSET Workspaces, at: Workspaces \cup {NoWorkspace}, lease: BOOLEAN, seen: Configs,
   relogged: 0..MaxTime, err: Errors, nth: 0..MaxFaults]

Refreshes ==
  [pc: {"idle", "try", "commit"}, at: Workspaces \cup {NoWorkspace}, todo: SUBSET Workspaces,
   seen: Configs, ended: {"ready", "expired", "failed", "deferred"}]

TypeOK ==
  /\ now \in 1..MaxTime
  /\ cfg \in Configs
  /\ order \subseteq Workspaces
  /\ req \in [Requests -> Dispatches]
  /\ refresh \in Refreshes
  /\ heard \in [Accounts -> Nat]
  /\ faults \in 0..MaxFaults
  /\ edits \in 0..MaxEdits

Inferring(r) == req[r].pc \in {"begun", "rerun"}

\* The workspaces of an account share account_max_concurrency, and each has its
\* own limit: prompts running upstream never exceed either, the retry of a
\* refreshed session included.
InferenceWithinLimits ==
  /\ \A a \in Accounts:
       Cardinality({r \in Requests: Inferring(r) /\ AccountOf[req[r].at] = a}) <= CredentialLimit
  /\ \A w \in Workspaces:
       Cardinality({r \in Requests: Inferring(r) /\ req[r].at = w}) <= WorkspaceLimit

\* A workspace takes no more requests per window than its hourly quota, however
\* many requests found it eligible in the snapshot they started from.
WindowWithinQuota ==
  \A w \in Workspaces: HourlyQuota > 0 => cfg.book[w].count <= HourlyQuota

\* After a 429 or a trust rejection no prompt starts on any workspace of the
\* account before the pause is over, with one slot per account: the pause is on
\* record before the slot is free.  (A save that fails loses the pause.)
HonoursBackoff ==
  [][\A r \in Requests:
       CredentialLimit = 1 /\ ~Inferring(r) /\ Inferring(r)'
         => heard[AccountOf[req'[r].at]] <= now]_vars

\* A later, shorter backoff never cuts a longer one short.
PauseNeverShrinks ==
  [][\A a \in Accounts: cfg'.paused[a] >= cfg.paused[a]]_vars

\* The workspace a process commits a refresh of, in a step of its own.
Commits(p, w) ==
  \/ p \in Requests /\ req[p].at = w /\ (CommitRefresh(p) \/ CommitRelogin(p))
  \/ p = Refresher /\ refresh.at = w /\ CommitSession

\* The snapshot a process refreshes against.
SnapshotOf(p) == IF p = Refresher THEN refresh.seen ELSE req[p].seen

\* commitAccountRefreshResult: a refresh clears no failure that was recorded
\* after its snapshot was taken, one that the snapshot does not know.
CommitKeepsFresh ==
  [][\A p \in Requests \cup {Refresher}, w \in Workspaces:
       /\ Commits(p, w)
       /\ cfg.book[w].mark \notin {0, SnapshotOf(p).book[w].mark}
       => FailureUnchanged(cfg.book[w], cfg'.book[w])]_vars

\* The cooldown of a workspace is that of an exhausted AI allowance.
QuotaCooling(b) == b.until > now /\ b.quotaAt # 0 /\ b.mark = b.quotaAt

\* "Clearing an active quota cooldown here would put the account back in the
\* pool": no refresh does (account_pool.go:629).
RefreshKeepsQuota ==
  [][\A p \in Requests \cup {Refresher}, w \in Workspaces:
       Commits(p, w) /\ QuotaCooling(cfg.book[w]) => cfg'.book[w].until = cfg.book[w].until]_vars
-------------------------------------------------------------------------------
\* The inductive invariant behind the safety properties.

\* The slots of every account and workspace are taken within its limits, a
\* prompt runs under a lease, and whoever is past the choice of a candidate
\* has one.
LeaseInv ==
  /\ \A a \in Accounts: Cardinality(HoldingOf(a)) <= CredentialLimit
  /\ \A w \in Workspaces: Cardinality(Holding(w)) <= WorkspaceLimit
  /\ \A r \in Requests: req[r].pc \in {"leased", "begun", "rerun"} => req[r].lease
  /\ \A r \in Requests: req[r].lease \/ req[r].pc \notin {"idle", "next"} => req[r].at \in Workspaces
  /\ refresh.pc # "idle" => refresh.at \in Workspaces

\* A pause that upstream asked for is on record, or the one request that holds
\* the slot of the account is about to record it.
PauseInv ==
  CredentialLimit = 1 =>
    \A a \in Accounts:
      \/ heard[a] <= cfg.paused[a]
      \/ \E r \in HoldingOf(a): /\ req[r].pc = "record"
                               /\ req[r].err.kind \in Pausing
                               /\ heard[a] <= now + req[r].err.wait

IInv == TypeOK /\ WindowWithinQuota /\ LeaseInv /\ PauseInv
===============================================================================
