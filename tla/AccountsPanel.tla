---------------------------- MODULE AccountsPanel ----------------------------
(* The accounts tab (accounts-panel.tsx) over the account half of the hook  *)
(* (use-admin-console.ts): drafts of workspace settings, the account and    *)
(* workspace that are open, the quick test, and the requests whose answers  *)
(* land in any order. A step is what runs between two awaits, with the      *)
(* effects that follow it. The session lasts (AdminConsole has its end).    *)
EXTENDS Integers, FiniteSets

CONSTANTS
  Accounts, Spaces,  \* accounts, and the workspaces they have
  Owner,             \* the account of each workspace
  Numbers,           \* values of a field; 0 and 1 are also an account's switch
  Typed,             \* what is typed: key, field and value
  Models, AutoModel, DefaultModel,
  Tasks,             \* requests in flight at a time (a bound)
  MaxChanges,        \* changes of the pool in a behaviour (a bound)
  Pools0,            \* the pools a behaviour may begin with
  None, NoPanel

Keys == Accounts \cup Spaces

\* The account that a key belongs to.
AccountOf(k) == IF k \in Spaces THEN Owner[k] ELSE k

\* A workspace has three numbers, an account its switch; the fields that a key does
\* not have stay zero. Numbers of accounts without workspaces are left out.
FieldsOf(k) == IF k \in Spaces THEN {"priority", "quota", "concurrency"} ELSE {"disabled"}
Fields == {"priority", "quota", "concurrency", "disabled"}
Setting == [Fields -> Numbers]
Unset == [f \in Fields |-> 0]

ASSUME PanelAssumption ==
  /\ Owner \in [Spaces -> Accounts] /\ Accounts \cap Spaces = {}
  /\ {0, 1} \subseteq Numbers /\ Typed \subseteq Keys \X Fields \X Numbers
  /\ \A x \in Typed: x[2] \in FieldsOf(x[1]) /\ (x[2] = "concurrency" => x[3] # 0)
  /\ AutoModel \notin Models /\ DefaultModel \in Models \cup {AutoModel}
  /\ None \notin Keys \cup Models \cup Setting /\ MaxChanges \in Nat

VARIABLES
  pool,     \* the accounts of the server
  changes,  \* how often they have changed
  payload,  \* accountsPayload
  panel,    \* state of the panel, or NoPanel
  flag,     \* accountsDirty.current
  task,     \* the requests in flight
  typed     \* history: for a key that has an unsaved change, what was typed over what
            \* it showed before, or what was sent for it by a save that found it gone

accountsVars == <<pool, changes, payload, panel, flag, task, typed>>

\* What a read of the accounts answers.
Pools == [listed: SUBSET Keys, setting: [Keys -> Setting],
          activeAccount: Accounts \cup {None}, active: Spaces \cup {None},
          default: [Accounts -> Spaces \cup {None}],
          manual: [Spaces -> SUBSET Models]]

Entering == {"verify", "import"}   \* a login code is given, an account imported
Slow == {"save", "models", "spaces", "test", "start"} \cup Entering \* with a busy flag
Ops == Slow \cup {"refresh", "default", "activate", "delete"}
Drafts == [Keys -> Setting \cup {None}]
Panels == [edits: Drafts, busy: SUBSET Slow,
           chosen: [account: Accounts \cup {None}, space: Spaces \cup {None}],
           tried: [account: Accounts \cup {None}, space: Spaces \cup {None},
                   model: Models \cup {AutoModel}]]
TaskRecords ==
  [op: Ops \cup {"none"}, pc: {"idle", "call", "reads", "read", "rest"},
   account: Accounts \cup {None}, key: Keys \cup {None}, sent: Drafts,
   model: Models \cup {AutoModel, None}, jump: Spaces \cup {None}, got: Pools \cup {None}, own: BOOLEAN]

ASSUME PoolsAssumption == Pools0 \subseteq Pools /\ NoPanel \notin Panels

Nothing == [k \in Keys |-> None]
Idle == [op |-> "none", pc |-> "idle", account |-> None, key |-> None, sent |-> Nothing,
         model |-> None, jump |-> None, got |-> None, own |-> FALSE]

-----------------------------------------------------------------------------
(* What the panel makes of a payload *)

SpacesOf(p, a) == {s \in p.listed \cap Spaces : Owner[s] = a}
FirstOf(S) == IF S = {} THEN None ELSE CHOOSE x \in S : TRUE

\* A concurrency limit below one is shown as one.
Baseline(p) ==
  [k \in Keys |->
     IF k \notin p.listed THEN None
     ELSE IF k \in Spaces /\ p.setting[k]["concurrency"] = 0
       THEN [p.setting[k] EXCEPT !["concurrency"] = 1]
       ELSE p.setting[k]]

Preferred(p) ==
  IF p.activeAccount # None THEN p.activeAccount ELSE FirstOf(p.listed \cap Accounts)

\* The first of some workspaces that the account has: the one asked for, the
\* active one, its default, any.
Among(p, a, asked, active) ==
  LET has == SpacesOf(p, a) IN
  CASE asked \in has -> asked
    [] asked \notin has /\ active \in has -> active
    [] {asked, active} \cap has = {} /\ a # None /\ p.default[a] \in has -> p.default[a]
    [] OTHER -> FirstOf(has)

\* The workspace marked active in the list of an account.
ActiveOf(p, a) ==
  IF a # None /\ p.activeAccount = a /\ p.active \in SpacesOf(p, a) THEN p.active ELSE None

\* The workspace that populateEmail opens.
JumpOf(p, a) == IF ActiveOf(p, a) # None THEN ActiveOf(p, a) ELSE FirstOf(SpacesOf(p, a))

FitModel(p, s, m) == IF s # None /\ m \in p.manual[s] THEN m ELSE AutoModel
FitAccount(p, a) == IF a \in p.listed THEN a ELSE Preferred(p)

Choose(p, a, s) == [account |-> a, space |-> Among(p, a, s, p.active)]

Try(p, a, s, m) ==
  LET fit == Among(p, a, s, ActiveOf(p, a)) IN
  [account |-> a, space |-> fit, model |-> FitModel(p, fit, m)]

Unsaved(q, p, k) == q.edits[k] # None /\ q.edits[k] # Baseline(p)[k]
Dirty(q, p) == \E k \in Keys: Unsaved(q, p, k)

\* Mutant: a payload replaces every field.
RefreshedAll(q, old, p) == Baseline(p)

\* "Refresh clean fields, preserving each workspace's unsaved draft."
Refreshed(q, old, p) ==
  [k \in Keys |-> IF k \in p.listed /\ Unsaved(q, old, k) THEN q.edits[k] ELSE Baseline(p)[k]]

\* Mutant: the form of the quick test stays as it was.
AdoptedUntried(q, old, p) ==
  [q EXCEPT
     !.edits = Refreshed(q, old, p),
     !.chosen = Choose(p, FitAccount(p, q.chosen.account), q.chosen.space)]

\* The panel after the effects that follow a payload.
Adopted(q, old, p) ==
  [q EXCEPT
     !.edits = Refreshed(q, old, p),
     !.chosen = Choose(p, FitAccount(p, q.chosen.account), q.chosen.space),
     !.tried = Try(p, FitAccount(p, q.tried.account), q.tried.space, q.tried.model)]

Mounted(p) ==
  LET a == Preferred(p) IN
  [edits |-> Baseline(p), busy |-> {},
   chosen |-> Choose(p, a, None), tried |-> Try(p, a, None, DefaultModel)]

\* Another account is opened; the quick test follows it.
OpenedAccount(q, p, a) ==
  [q EXCEPT !.chosen = IF a = @.account THEN @ ELSE Choose(p, a, @.space),
            !.tried = Try(p, a, @.space, @.model)]

\* populateEmail; the workspace was looked up in the payload of the click. The
\* effect that checks it runs only when the account has changed.
Populated(q, p, a, jump) ==
  [OpenedAccount(q, p, a) EXCEPT
     !.chosen = IF a = q.chosen.account THEN [account |-> a, space |-> jump]
                ELSE Choose(p, a, jump)]

-----------------------------------------------------------------------------
\* What was typed is remembered for as long as it is unsaved.
RenderTyped(q, p, entered) ==
  /\ payload' = p /\ panel' = q
  /\ flag' = (q # NoPanel /\ Dirty(q, p))
  /\ typed' = [k \in Keys |-> IF q # NoPanel /\ Unsaved(q, p, k) THEN entered[k] ELSE None]

Render(q, p) == RenderTyped(q, p, typed)

OnScreen == panel # NoPanel

\* selectedWorkspace, if the account on screen has the one that is selected.
OpenedSpace ==
  IF panel.chosen.space \in SpacesOf(payload, panel.chosen.account)
    THEN panel.chosen.space ELSE None
At(t, pc) == task[t].pc = pc

\* What is left of a request once it has been carried out: no more than a read
\* of the accounts, unless its handler goes on when that has landed.
Kept(x) ==
  CASE x.pc \in {"idle", "call"} -> x
    [] x.pc \notin {"idle", "call"} /\ x.own /\ x.op \in Slow \cup {"activate"} -> x
    [] OTHER -> [Idle EXCEPT !.op = "refresh", !.pc = x.pc, !.got = x.got]

Start(t, op, key) == [Idle EXCEPT !.op = op, !.pc = "call", !.key = key, !.own = TRUE]

AccountsInit ==
  /\ pool \in Pools0 /\ changes = 0 /\ payload = pool
  /\ panel = Mounted(payload) /\ flag = FALSE
  /\ task = [t \in Tasks |-> Idle] /\ typed = Nothing

-----------------------------------------------------------------------------
(* The operator *)

OpenAccount(a) ==
  /\ OnScreen /\ a \in payload.listed \cap Accounts
  /\ Render(OpenedAccount(panel, payload, a), payload)
  /\ UNCHANGED <<pool, changes, task>>

OpenSpace(s) ==
  /\ OnScreen /\ s \in SpacesOf(payload, panel.chosen.account)
  /\ Render([panel EXCEPT !.chosen.space = s], payload)
  /\ UNCHANGED <<pool, changes, task>>

\* The account's details are copied to the other forms, as populateEmail does.
Fill ==
  LET a == panel.chosen.account IN
  /\ OnScreen /\ a \in payload.listed
  /\ Render(Populated(panel, payload, a, JumpOf(payload, a)), payload)
  /\ UNCHANGED <<pool, changes, task>>

\* Mutant: the fields that are not being typed are those of the last read.
UpdateEditAfresh(q, p, k, f, n) == [q EXCEPT !.edits[k] = [Baseline(p)[k] EXCEPT ![f] = n]]

\* One field of a setting is changed; the others stay as the draft has them or, in
\* a new draft, as they are shown.
UpdateEdit(q, p, k, f, n) ==
  [q EXCEPT !.edits[k] = [(IF @ = None THEN Baseline(p)[k] ELSE @) EXCEPT ![f] = n]]

\* What has been typed for a setting with this: the fields of a new draft begin
\* with what the operator sees.
TypedOver(k, f, n) ==
  [typed EXCEPT ![k] =
     [(IF Unsaved(panel, payload, k) THEN @ ELSE Baseline(payload)[k]) EXCEPT ![f] = n]]

\* The settings of the workspace on screen and the switch of its account; the
\* fieldset is disabled during a save.
Type(k, f, n) ==
  /\ OnScreen /\ "save" \notin panel.busy
  /\ k \in {panel.chosen.account, OpenedSpace} \cap payload.listed
  /\ RenderTyped(UpdateEdit(panel, payload, k, f, n), payload, TypedOver(k, f, n))
  /\ UNCHANGED <<pool, changes, task>>

Discard ==
  /\ OnScreen /\ Dirty(panel, payload)
  /\ Render([panel EXCEPT !.edits = Baseline(payload)], payload)
  /\ UNCHANGED <<pool, changes, task>>

TryAccount(a) ==
  /\ OnScreen /\ a \in payload.listed \cap Accounts
  /\ Render([panel EXCEPT !.tried = Try(payload, a, @.space, @.model)], payload)
  /\ UNCHANGED <<pool, changes, task>>

TrySpace(s) ==
  /\ OnScreen /\ s \in SpacesOf(payload, panel.tried.account)
  /\ Render([panel EXCEPT !.tried = Try(payload, @.account, s, @.model)], payload)
  /\ UNCHANGED <<pool, changes, task>>

TryModel(m) ==
  /\ OnScreen /\ FitModel(payload, panel.tried.space, m) = m
  /\ Render([panel EXCEPT !.tried.model = m], payload)
  /\ UNCHANGED <<pool, changes, task>>

\* Another tab: unsaved settings ask first. Requests go on without the panel.
Leave(confirmed) ==
  /\ OnScreen /\ (flag => confirmed)
  /\ Render(NoPanel, payload)
  /\ task' = [t \in Tasks |-> Kept([task[t] EXCEPT !.own = FALSE])]
  /\ UNCHANGED <<pool, changes>>

Enter ==
  /\ ~OnScreen
  /\ Render(Mounted(payload), payload)
  /\ UNCHANGED <<pool, changes, task>>

-----------------------------------------------------------------------------
(* Requests are sent *)

Send(t, q, x) ==
  /\ At(t, "idle") /\ OnScreen
  /\ Render(q, payload)
  /\ task' = [task EXCEPT ![t] = x]
  /\ UNCHANGED <<pool, changes>>

Busy(op) == IF op \in Slow THEN [panel EXCEPT !.busy = @ \cup {op}] ELSE panel

\* The buttons below the account on screen: which of them are enabled.
Offered(op) ==
  /\ OnScreen /\ op \notin panel.busy /\ panel.chosen.account \in payload.listed
  /\ op \in {"default", "models"} => OpenedSpace # None
  /\ op = "default" => payload.default[panel.chosen.account] # OpenedSpace

\* What a button is about: the workspace that is open or, without one, the account.
OnDisplay == IF OpenedSpace = None THEN panel.chosen.account ELSE OpenedSpace

Refresh(t) == Send(t, panel, [Start(t, "refresh", None) EXCEPT !.pc = "reads"])

\* The numbers of the workspace on screen are sent, all of them, with the switch
\* of its account.
Save(t) ==
  LET shown == {OpenedSpace, panel.chosen.account}
      sent == [k \in Keys |-> IF k \in shown THEN panel.edits[k] ELSE None] IN
  /\ Offered("save")
  /\ Send(t, Busy("save"), [Start(t, "save", OnDisplay) EXCEPT !.sent = sent])

SetDefault(t) ==
  Offered("default") /\ Send(t, panel, Start(t, "default", OpenedSpace))

RefreshModels(t) ==
  Offered("models") /\ Send(t, Busy("models"), Start(t, "models", OpenedSpace))

RefreshSpaces(t) ==
  Offered("spaces") /\ Send(t, Busy("spaces"), Start(t, "spaces", panel.chosen.account))

Activate(t) ==
  LET jump == JumpOf(payload, panel.chosen.account) IN
  /\ Offered("activate")
  /\ Send(t, panel, [Start(t, "activate", OnDisplay) EXCEPT !.jump = jump])

Delete(t) ==
  Offered("delete") /\ Send(t, panel, Start(t, "delete", panel.chosen.account))

\* A login code is asked for.
StartLogin(t, a) ==
  /\ OnScreen /\ "start" \notin panel.busy
  /\ Send(t, Busy("start"), Start(t, "start", a))

\* What becomes of the workspace on screen was looked up as the button was pushed.
EnterAccount(t, op, a) ==
  /\ OnScreen /\ op \notin panel.busy
  /\ Send(t, Busy(op), [Start(t, op, a) EXCEPT !.jump = JumpOf(payload, a)])

\* The code that was sent is given.
VerifyCode(t, a) == EnterAccount(t, "verify", a)

\* The account's cookies are given; its name may come with the answer.
ImportAccount(t, a) == EnterAccount(t, "import", a)

\* A model that the account does not have in the workspace under test is not asked for.
ModelSent(a, s, m) == IF s \in SpacesOf(payload, a) THEN FitModel(payload, s, m) ELSE AutoModel

\* The request of a quick test, and the form as it shows it then: its own effects
\* repair what does not fit.
Test(t, a, s) ==
  LET m == ModelSent(a, s, panel.tried.model) IN
  /\ OnScreen /\ "test" \notin panel.busy
  /\ Send(t, [Busy("test") EXCEPT !.tried = Try(payload, a, s, m)],
          [Start(t, "test", s) EXCEPT !.account = a, !.model = m])

\* The button of the form.
TestForm(t) ==
  /\ OnScreen /\ panel.tried.account # None
  /\ Test(t, panel.tried.account, panel.tried.space)

\* The button of the account on screen: where no workspace is open, the one of the
\* form is sent with it (a default parameter), whatever account that belongs to.
TestOnDisplay(t) ==
  /\ Offered("test")
  /\ Test(t, panel.chosen.account, IF OpenedSpace = None THEN panel.tried.space ELSE OpenedSpace)

-----------------------------------------------------------------------------
(* The server *)

\* The pool without some of its accounts and workspaces.
Without(p, gone) ==
  [p EXCEPT !.listed = @ \ gone,
            !.setting = [k \in Keys |-> IF k \in gone THEN Unset ELSE @[k]],
            !.manual = [s \in Spaces |-> IF s \in gone THEN {} ELSE @[s]],
            !.default = [a \in Accounts |-> IF @[a] \in gone THEN None ELSE @[a]]]

Saved(p, sent) ==
  LET set == [k \in Keys |-> IF sent[k] # None THEN sent[k] ELSE p.setting[k]] IN
  [p EXCEPT !.setting = set,
            !.activeAccount = IF @ # None /\ set[@]["disabled"] = 1 THEN None ELSE @]

\* A save without a workspace is one of the account's own numbers, which are left
\* out here; the server writes them to its default workspace as well.
Saves(p, x) ==
  LET default == IF x.key \in Accounts THEN p.default[x.key] ELSE None IN
  IF default = None THEN {Saved(p, x.sent)}
  ELSE {Saved(p, [x.sent EXCEPT ![default] = own]) : own \in {v \in Setting : v["disabled"] = 0}}

\* An activation without a workspace is one of the account's default workspace.
Activated(p, k) ==
  [p EXCEPT !.activeAccount = AccountOf(k),
            !.active = IF k \in Spaces THEN k ELSE p.default[k]]

Deleted(p, a) ==
  LET rest == Without(p, {a} \cup SpacesOf(p, a)) IN
  IF p.activeAccount # a THEN rest
  ELSE [rest EXCEPT !.activeAccount = None, !.active = None]

\* The account is stored with the workspaces it is found to have; the first
\* time one of them becomes its default.
Listed(p, a, found) ==
  LET rest == Without(p, SpacesOf(p, a) \ found) IN
  [rest EXCEPT !.listed = @ \cup {a} \cup found,
               !.default[a] = IF @ = None THEN FirstOf(found) ELSE @]

SubsetsOf(a) == SUBSET {s \in Spaces : Owner[s] = a}

\* The pool as a call may leave it; other consoles and the gateway's own
\* refreshes leave it in such a way too.
After(p, x) ==
  CASE x.op = "save" /\ x.key \in p.listed -> Saves(p, x)
    [] x.op = "default" /\ x.key \in p.listed -> {[p EXCEPT !.default[Owner[x.key]] = x.key]}
    [] x.op = "models" /\ x.key \in p.listed ->
         {[p EXCEPT !.manual[x.key] = ms] : ms \in SUBSET Models}
    [] x.op = "spaces" /\ x.key \in p.listed ->
         {Listed(p, x.key, found) : found \in SubsetsOf(x.key)}
    [] x.op = "activate" /\ x.key \in p.listed -> {Activated(p, x.key)}
    [] x.op = "delete" /\ x.key \in p.listed -> {Deleted(p, x.key)}
    [] x.op = "start" -> {[p EXCEPT !.listed = @ \cup {x.key}]}
    [] x.op \in Entering ->
         {[Listed(p, x.key, found) EXCEPT !.activeAccount = x.key, !.active = FirstOf(found)] :
            found \in SubsetsOf(x.key) \ {{}}}
    [] x.op = "test" -> {p}
    [] OTHER -> {}

\* The call is carried out.
Effect(x) ==
  \/ x.op = "test" /\ UNCHANGED <<pool, changes>>
  \/ /\ changes < MaxChanges /\ changes' = changes + 1
     /\ pool' \in After(pool, x)

OtherConsole ==
  /\ changes < MaxChanges /\ changes' = changes + 1
  /\ \/ \E x \in Typed:
          LET next == [pool.setting[x[1]] EXCEPT ![x[2]] = x[3]] IN
          x[1] \in pool.listed /\ pool' = Saved(pool, [Nothing EXCEPT ![x[1]] = next])
     \/ \E a \in pool.listed \cap Accounts: pool' = Deleted(pool, a)
     \/ \E a \in pool.listed \cap Accounts: \E found \in SubsetsOf(a): pool' = Listed(pool, a, found)
  /\ UNCHANGED <<payload, panel, flag, task, typed>>

Read(t) ==
  /\ At(t, "reads")
  /\ task' = [task EXCEPT ![t].pc = "read", ![t].got = pool]
  /\ UNCHANGED <<pool, changes, payload, panel, flag, typed>>

-----------------------------------------------------------------------------
(* Answers land *)

Free(q, x) == [q EXCEPT !.busy = @ \ {x.op}]

\* Mutant: the save takes the draft for saved whatever has landed since.
DoneKeeping(q, p, x) ==
  CASE x.op = "save" -> Free([q EXCEPT !.edits = [k \in Keys |->
                               IF x.sent[k] # None THEN x.sent[k] ELSE @[k]]], x)
    [] x.op = "start" -> Free(OpenedAccount(q, p, x.key), x)
    [] x.op = "activate" -> Populated(q, p, AccountOf(x.key), x.jump)
    [] x.op \in Entering -> Free(Populated(q, p, x.key, x.jump), x)
    [] OTHER -> Free(q, x)

\* A save clears the drafts it has sent; a key that is no longer listed keeps what
\* was sent as its draft.
ClearedEdits(edits, p, sent) ==
  [k \in Keys |-> IF sent[k] = None THEN edits[k]
                  ELSE IF k \in p.listed THEN Baseline(p)[k] ELSE sent[k]]

\* What a handler does when everything it awaited has succeeded.
Done(q, p, x) ==
  CASE x.op = "save" -> Free([q EXCEPT !.edits = ClearedEdits(@, p, x.sent)], x)
    [] x.op = "start" -> Free(OpenedAccount(q, p, x.key), x)
    [] x.op = "activate" -> Populated(q, p, AccountOf(x.key), x.jump)
    [] x.op \in Entering -> Free(Populated(q, p, x.key, x.jump), x)
    [] OTHER -> Free(q, x)

\* Those whose reads end in refreshAll, which never rejects.
Swallows(x) == x.op \in {"activate"} \cup Entering

\* The keys for which a save leaves what it has sent.
LeftOver(p, x) ==
  {k \in Keys : x.own /\ x.op = "save" /\ x.sent[k] # None /\ k \notin p.listed}

End(t, q, p, entered) ==
  /\ RenderTyped(q, p, entered)
  /\ task' = [task EXCEPT ![t] = Idle]

Call(t) ==
  /\ At(t, "call")
  /\ Effect(task[t])
  /\ task' = [task EXCEPT ![t] =
                Kept([@ EXCEPT !.pc = IF task[t].op = "test" THEN "rest" ELSE "reads"])]
  /\ UNCHANGED <<payload, panel, flag, typed>>

\* Mutant: the handler's finally is missing.
FailsBusy(t) ==
  /\ task[t].pc # "idle" /\ ~(Swallows(task[t]) /\ ~At(t, "call"))
  /\ \/ At(t, "call") /\ Effect(task[t])
     \/ UNCHANGED <<pool, changes>>
  /\ End(t, panel, payload, typed)

\* A call that is refused or whose answer is lost, or a read that fails: the
\* handler is over, its flag is freed, its drafts stay.
Fails(t) ==
  /\ task[t].pc # "idle" /\ ~(Swallows(task[t]) /\ ~At(t, "call"))
  /\ \/ At(t, "call") /\ Effect(task[t])
     \/ UNCHANGED <<pool, changes>>
  /\ End(t, IF task[t].own THEN Free(panel, task[t]) ELSE panel, payload, typed)

Land(t) ==
  /\ At(t, "read")
  /\ Render(IF OnScreen THEN Adopted(panel, payload, task[t].got) ELSE NoPanel, task[t].got)
  /\ task' = [task EXCEPT ![t].pc = "rest", ![t].got = None]
  /\ UNCHANGED <<pool, changes>>

\* The last read is over, or has failed unnoticed.
Ends(t) ==
  /\ task[t].pc \in (IF Swallows(task[t]) THEN {"reads", "read", "rest"} ELSE {"rest"})
  /\ End(t, IF task[t].own THEN Done(panel, payload, task[t]) ELSE panel, payload,
         [k \in Keys |-> IF k \in LeftOver(payload, task[t]) THEN task[t].sent[k] ELSE typed[k]])
  /\ UNCHANGED <<pool, changes>>

-----------------------------------------------------------------------------
AccountsOperator ==
  \/ \E a \in Accounts: OpenAccount(a) \/ TryAccount(a)
  \/ \E s \in Spaces: OpenSpace(s) \/ TrySpace(s)
  \/ \E m \in Models \cup {AutoModel}: TryModel(m)
  \/ \E x \in Typed: Type(x[1], x[2], x[3])
  \/ Fill \/ Discard \/ Enter \/ \E confirmed \in BOOLEAN: Leave(confirmed)

Request(t) ==
  \/ Refresh(t) \/ Save(t) \/ SetDefault(t) \/ RefreshModels(t) \/ RefreshSpaces(t)
  \/ Activate(t) \/ Delete(t)
  \/ \E a \in Accounts: StartLogin(t, a) \/ VerifyCode(t, a) \/ ImportAccount(t, a)
  \/ TestForm(t) \/ TestOnDisplay(t)

Network(t) == Call(t) \/ Fails(t) \/ Read(t) \/ Land(t) \/ Ends(t)

AccountsNext == AccountsOperator \/ OtherConsole \/ \E t \in Tasks: Request(t) \/ Network(t)

AccountsSpec == AccountsInit /\ [][AccountsNext]_accountsVars

-----------------------------------------------------------------------------
(* Properties *)

AccountsTypeOK ==
  /\ pool \in Pools /\ payload \in Pools /\ changes \in 0 .. MaxChanges
  /\ panel = NoPanel \/ panel \in Panels
  /\ flag \in BOOLEAN /\ task \in [Tasks -> TaskRecords] /\ typed \in Drafts

\* An unsaved change is what the operator has typed over what he saw when he began
\* it: values of another workspace, of a failed save or of a later read never get
\* into a draft (the effect that merges a payload, updateWorkspaceEdit, and the end
\* of a save). One thing else passes for unsaved: what a save has sent for a
\* workspace that was no longer listed when it ended, which stays as a draft that
\* nobody sees, and comes back with the workspace ("editBaseline.current[key] ||
\* edit"). The fields of a draft that were not typed are those of the read he saw,
\* see CleanFieldsFollow.
DraftIsTyped ==
  OnScreen => \A k \in Keys: Unsaved(panel, payload, k) => panel.edits[k] = typed[k]

\* Not kept: what is taken for unsaved is something that is listed, so that it can
\* be seen, saved and discarded.
DraftIsListed ==
  OnScreen => \A k \in Keys: Unsaved(panel, payload, k) => k \in payload.listed

\* Not kept: "Refresh clean fields, preserving each workspace's unsaved draft"
\* (accounts-panel.tsx:306), if a field is clean that shows what was read. A draft is
\* kept whole: its other two numbers stay those of the older read, pass for unsaved
\* when another console has changed them, and are written back by a save.
CleanFieldsFollow ==
  [][\A t \in Tasks, k \in payload.listed, f \in Fields:
       /\ Land(t) /\ OnScreen /\ k \in payload'.listed
       /\ panel.edits[k][f] = Baseline(payload)[k][f]
       => panel'.edits[k][f] = Baseline(payload')[k][f]]_accountsVars

\* "Unsaved account settings are kept on a refresh" (accounts-panel.tsx:592): a
\* draft goes only when the operator changes or discards it or agrees to leave,
\* when a save of it has succeeded, or when its workspace is no longer listed or
\* turns out to have that value.
KeepsDraft(k) ==
  \/ panel' # NoPanel /\ panel'.edits[k] = panel.edits[k]
  \/ k \notin payload'.listed \/ panel.edits[k] = Baseline(payload')[k]
  \/ Discard \/ Leave(TRUE) \/ \E f \in Fields, n \in Numbers: Type(k, f, n)
  \/ \E t \in Tasks: task[t].op = "save" /\ task[t].sent[k] = panel.edits[k] /\ Ends(t)
DraftsSurvive ==
  [][OnScreen => \A k \in payload.listed: Unsaved(panel, payload, k) => KeepsDraft(k)]_accountsVars

\* "Keep the sidebar in sync with what is actually being tested"
\* (accounts-panel.tsx:451): when a test is sent, the form shows its account,
\* workspace and model, after the effects that repair the form have run, whatever has
\* been removed or refreshed since the form was filled in. The exception is the test
\* of an account without an open workspace while the form shows another account: it
\* carries that one's workspace.
TestSent(t) == At(t, "idle") /\ task'[t].op = "test"
FormShows(x) == panel'.tried = [account |-> x.account, space |-> x.key, model |-> x.model]
BorrowsSpace(x) ==
  /\ OpenedSpace = None /\ x.account = panel.chosen.account
  /\ x.account # panel.tried.account /\ x.key = panel.tried.space
TestIsShown ==
  [][\A t \in Tasks: TestSent(t) => FormShows(task'[t]) \/ BorrowsSpace(task'[t])]_accountsVars

\* Not kept: the same without the exception. The server refuses a workspace that the
\* account does not have ("account or workspace not found"), and the form has gone
\* back to none.
TestAlwaysShown == [][\A t \in Tasks: TestSent(t) => FormShows(task'[t])]_accountsVars

\* The form of the quick test names an account that is listed, if there is one, a
\* workspace of that account and a model it supports, whatever has been removed
\* or refreshed meanwhile: three effects that follow each other see to it.
TestFormFits ==
  OnScreen =>
    LET f == panel.tried IN
    /\ f.space # None => f.space \in SpacesOf(payload, f.account)
    /\ f.space = None => SpacesOf(payload, f.account) = {}
    /\ f.model # AutoModel => f.space # None /\ f.model \in payload.manual[f.space]

\* A button is busy only while a request of its kind is in flight for this panel,
\* and the shell's flag of unsaved settings says what the panel shows.
BusyHasTask ==
  /\ OnScreen => \A op \in panel.busy: \E t \in Tasks: task[t].own /\ task[t].op = op
  /\ flag = (OnScreen /\ Dirty(panel, payload))

\* The state of the panel is sound: every value has its type, the form of the quick
\* test fits what is listed, and nothing is busy for nothing.
AccountsSound == AccountsTypeOK /\ TestFormFits /\ BusyHasTask
===============================================================================
