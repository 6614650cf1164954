# A TLA+ verification of Notion2API

Notion2API (`src/`) serves the OpenAI chat API on top of Notion AI. It keeps
conversations in memory and in SQLite, runs each chat turn on an upstream
thread, dispatches prompts over a pool of accounts, and is administered over
HTTP, mostly from a console in the browser. This directory holds TLA+ modules
translated from the Go source of the server (`src/internal/app/`) and from the
TypeScript source of the console (`src/frontend/`), the TLC configurations that
check them, and TLAPS proofs about them.

## Inventory

| Part | State | Operations | What makes it correct |
|---|---|---|---|
| Conversation store (`conversations.go`, `conversation_message_delete.go`, `conversation_mutation.go`) | entries with a status, recency list, stream buffers, persistence throttle, two mutexes | `Create`, `Continue`, `AppendAssistantDelta`, `SetExecutionTarget`, `SetEnvelopeIDs`, `Complete`, `Fail`, `Delete`, `SetTitle`, `SetMessageContent`, `DeleteMessage`, `ImportRemote`, `ClaimForDeletion`, `RestoreDeletionClaim`, `loadConversation`, `persistConversationSnapshot/Delta`, eviction | one turn at a time, claims exclude turns, rows keep up with memory, nothing stays "running" |
| Handlers (`main.go`, `admin.go`) | a goroutine per request | resolve, begin or continue a turn, stream, complete or fail, abandon | every turn ends |
| Deletions and sweeps (`conversations.go`, `main.go`, `admin_conversations.go`) | the sweeper goroutine, admin requests | claim, delete thread, links, row, entry; restore on failure | no partial deletion leaves a claim, nothing comes back |
| Startup and shutdown (`main.go`) | - | flush, load, fail interrupted turns | no turn survives its process |
| SQLite store (`sqlite_store.go`) | tables of conversations, sessions, links, responses, accounts | save, load, delete, sweep listing | - |
| SQLite writer (`sqlite_writer.go`) | bounded queue, closed flag | enqueue, overflow, apply, close | nothing written late revives what was deleted, nobody waits for ever |
| Response store and links (`response_store.go`, `conversation_session.go`) | responses, expiry heap, links that outlive them | save, get, prune, delete | a continuation finds its conversation, a deleted one is not found |
| Dispatch slots (`main.go`) | a slot object per account and workspace: in flight, limit | acquire, roll back, release, rebuild on every configuration | counters are exact, limits hold through reconfiguration |
| Account pool and dispatch (`account_pool.go`, `request_dispatch.go`, `dispatch_safety.go`) | cooldowns, backoff, request windows, the candidate order | begin and finish a dispatch, refresh and retry, relogin, failover | limits and quotas hold, no pause or newer failure is lost |
| Session refresh (`session_refresh.go`) | account sessions on disk and in memory | refresh, commit, loop | a late refresh does not undo a newer one |
| Workspace model policy (`workspace_model_policy.go`, `workspace-model-policy.tsx`) | Notion's setting, restore points in memory and in a file, the panel's copy | read, lock, restore, clear | edits overwrite nothing unseen, a lock leaves a way back |
| Console shell and settings (`admin-console.tsx`, `use-admin-console.ts`, `settings-panel.tsx`) | session, configuration, the form and its baseline | log in, refresh, edit, save, import, discard | no refresh replaces what was typed, a saved form reads back as it was sent |
| Chat workspace (`chat-workspace.tsx`) | transcript on screen, reads, the run, the message being changed | open, poll, send, stop, edit, remove | everything lands on the conversation it is about |
| Accounts panel (`accounts-panel.tsx`, `use-admin-console.ts`) | accounts payload, drafts, quick test, busy buttons | edit, save, test, log in, import, activate, delete | drafts survive refreshes, no button stays busy |
| Conversations panel (`conversations-panel.tsx`, `use-admin-console.ts`) | list, details, selection, checked rows, event stream | refresh, merge an event, select, delete one or many | only what is shown is deleted, reports are true |
| Accounts, configuration, AI usage | JSON file, accounts table | merge, save, apply | saved and live configuration agree |
| Notion client, transports, login helper, proxies, formats, prompt guard, metrics, SillyTavern heuristics, other panels, deployment | mostly none | protocol, parsing, rendering | outside this project, see *Not modelled* |

How they interact: a handler resolves a conversation (memory, then the table),
begins or continues a turn under `ConversationStore.mu`, hands the prompt to the
dispatcher, and is called back with deltas, execution targets and envelope ids,
each of which changes the entry and then writes a snapshot under `persistMu`. A
deferred `abandonConversationTurn` looks at the entry once more. Sweeps and
admin requests run `deleteConversation` at the same time; admin edits hold both
mutexes. Nothing but statuses keeps turns and deletions apart between the steps,
which is where the hard behaviour is: reads before a claim, a deferred read and
write, writes owed while the entry moves on, evictions and restores, failures of
any single write, and restarts. An answer of `/v1/responses` is linked to its
conversation in memory and queued for the table; a deletion goes the same ways.

The console talks to the server by requests whose answers land in any order,
beside a stream of events, polls, other consoles and the server's own changes.
Its state lives in the hook, which outlives the tabs, and in the panels, which
do not. What is hard there: an answer that lands on a screen that has moved on,
a refresh beside an unsaved draft, an event before or after the read that covers
it, and a panel that is gone when its request ends. `PROJECT.json` lists the
hazards line by line.

## Modules

| Module | Models |
|---|---|
| `ConversationOrder` | the recency list: `moveToFrontLocked`, the filter of `Delete`, and `trimLocked` in closed form |
| `OrderReference` | `moveToFrontLocked` and `trimLocked` as the loops of the source, and what makes the closed forms agree with them |
| `Conversations` | the store, its handlers, deletions, edits, the conversations table, restarts |
| `Capacity` | what slots promise: per account and workspace, no more dispatches admitted than the limit of that moment |
| `DispatchSlots` | the slot table of `ServerState`, its rebuilds, leases; implements `Capacity` |
| `AccountPool` | cooldowns, backoff, request windows, a dispatch attempt with its refresh, retry and relogin, `RefreshSession`, admin edits |
| `ResponseLinks` | answers and links in memory, the table, the writer and its queue, deletions, clean-up, shutdown and crash |
| `ModelPolicy` | the model restriction of a workspace: panels, the handler with its lock and restore points, Notion |
| `ConfigForm` | the conversions between the stored configuration and the settings form |
| `AdminConsole` | session, configuration reads, the settings panel; extends `ConfigForm` |
| `ChatWorkspace` | the chat screen against a server that other clients use |
| `AccountsPanel` | the accounts tab and the account half of the hook |
| `ConversationsPanel` | the conversations tab and the conversation half of the hook |
| `EventMerging` | how the hook merges events into its list and transcripts, with the outcome expected of any sequence of them |
| `MC<Module>` | TLC's instance of a module: sample constants, bounds as constraints, symmetry |
| `<Module>_proofs` | the theorems about a module: of `Conversations`, `DispatchSlots`, `AccountPool`, `ResponseLinks`, `ModelPolicy`, `AdminConsole`, `ConversationsPanel` |
| `ConsoleTabs_proofs` | the theorems about `ChatWorkspace` and about `AccountsPanel`; neither uses anything of the other |

`AccountPool` takes and gives slots in one step; `DispatchSlots` is where that
is taken apart. `Conversations` sees a dispatch as an upstream call with any
outcome. `ResponseLinks` sees of a conversation its status and whether it is
resident and stored. Each module of the console has the server as a record of
what its requests read and change, which other clients change as well.

### Conversations

A step is what the code does under one lock, or between two of them.

- `status[c]` is `items[c].Status`, "absent" for a conversation that is not
  resident; `order` is the recency list; `row[c]` the status in the table;
  `dirty`, `stamped`, `lock` are `persistDirty`, the keys of `persistLastAt` and
  the holder of `persistMu`.
- A handler walks `idle` → `resolved` → `loaded` → `running` → `tail` → `idle`,
  with `throttle`, `persist` and `write` for the two stages of a snapshot write
  and `failing` for the abandon it has decided on. `Reload` and `Continue` are
  the two halves of `startConversationTurn`/`continueConversation`; `Leave` and
  `Abandon` those of `abandonConversationTurn`; `ReadSnapshot` and
  `WriteSnapshot` those of `persistConversationSnapshot`.
- A deleter walks `idle` → `loaded` → `claimed` → `records` → `row` → `remove`.
- Admin edits are one step: they hold `persistMu` and `mu` from the status check
  to the publication.
- `Restart` is a crash, or a shutdown with its flush, and the startup that
  follows.
- `fresh`, `current`, `unsaved`, `dropped`, `owner`, `claimant`, `foreign` are
  history variables. The content `fresh` speaks of is the messages, the title,
  the targets and the outcome of the last turn; the mark of a deletion claim
  comes and goes without a write and is not part of it. `foreign` collects the
  conversations where a turn or a claim was ended or taken over by a goroutine
  it did not belong to.

Left open, that is any choice: whether a save, a delete or the upstream call
succeeds, how long ago the last write was, which conversation a request or a
sweep picks, which rows beyond the capacity are newest, when the process dies.
Abstracted: message contents, accounts, threads, subscribers and their events,
stream buffers, sweep retry times. The model has persistence enabled; without a
store the table plays no part.

### DispatchSlots

- `config` is the accounts, workspaces and limits of the live configuration;
  `table` is the slot object of each key, one key per credential and one per
  workspace; `inflight` and `max` are the fields of the objects. Objects have
  names of their own, because a key may lose its object and get another one
  while a lease still refers to the first.
- An attempt walks `idle` → `credential` → `workspace` → `running` → `releasing`
  → `released` → `idle`, or back through `rollback`; `target` is its workspace,
  `lease` the objects its `dispatchSlotLease` lists. `Enter` is the look-up of
  `acquireWorkspaceDispatchSlot`, `TakeCredential` and `TakeWorkspace` its two
  compare-and-swap loops, `Rollback` the return of the first when the second
  fails, `ReleaseWorkspace` and `ReleaseCredential` the two halves of
  `dispatchSlotLease.release`, `Return` the deferred call that finds it done. A
  retry enters again from `released`.
- `ApplyConfig` holds `s.mu` exclusively, so it runs when no attempt is inside
  one of the read-locked sections, and otherwise at any time; `Rebuilt` is
  `rebuildAccountSlotsLocked`.

Left out: the exported gauge, and the two entry points that only tests call. The
admission recheck of a retry needs the account's cooldown and is in
`AccountPool`.

### AccountPool

- `cfg` is the live configuration: a record per workspace (`book`), the pause of
  each credential, `LastReloginAt`, who is disabled, the active workspace.
  `order` is `snapshotBundle.DispatchOrder`, computed when a configuration is
  saved and used until the next save.
- `req[r]` is a request: the candidates left, the workspace and lease of its
  attempt, its snapshot `seen`, the error it will record. It walks `idle` →
  `next` → `leased` → `begun` → `succeeded`, or `expired` → `refreshed` →
  `reload` → `rerun` after an expired session, `relogin` → `sent`/`unsent` when
  the refresh did not help, and `record` for the failure.
- `refresh` is `RefreshSession` with its own snapshot and fallback accounts.
- Every function that changes the configuration holds `refreshMu` from the
  snapshot it reads to the save, so each is one step; between the steps of a
  process everything else runs. A save may fail before the new configuration is
  applied and after.
- Failures are numbered. `mark` is the number of the failure that set
  `CooldownUntil` and stands for the exact deadline; `quotaAt` that of the last
  exhausted allowance. `heard` (history) is until when upstream asked a
  credential to pause.

Open choices: which error a call ends in, whether a refresh works, which
candidate is next (their ranking and the model check are not modelled), whether
to give up because the client has seen output. A snapshot keeps only what is
read from it (`RefreshView`, `RequestView`).

### ResponseLinks

- `items` and `links` are the answers in memory, with their body and as links;
  `row` is the row of each in the responses table, "blank" once its body has
  been dropped; `queue`, `hand`, `writer` are the channel of the writer, the
  operation it has received, and where its shutdown is; `waiters` are the
  deletions blocked on a full channel, holding the read lock.
- `turn[r]` is where the handler of an answer is, `del[c]` where the deletion of
  a conversation is; `sweep` the clean-up loop between collecting links and
  dropping them. A full queue makes a save write by itself (the overflow path),
  which may overtake a deletion in the queue; a deletion waits. `Take` receives
  and lets the first waiter in, as a Go channel does. A writer that waits for
  the lock admits no new reader (`CanRead`).
- `unsaved` and `leaked` are history: answers whose row was not written, or
  overtook a deletion, and answers that a deletion could not reach: of turns
  that had failed before they were saved, or when the database refused it, or it
  died with the process or met the shutdown.

Abstracted: one upstream thread per conversation, three ages (fresh, expired,
past the link's window), settings and TTL do not change, snapshots are
persisted, the row of a session goes with that of its conversation.

### ModelPolicy

- `policy` is the setting in Notion, which has no compare-and-swap; `point` and
  `disk` are the restore points in memory and in their file; `editing` is the
  request that holds `modelPolicyMu`.
- A request walks `sent` → `read` → `ready` → `written` → `answered`, or to
  `failed` from anywhere; the panel then reads again (`refresh`). `Prepare`
  keeps the restore point before the write goes out, `Rejected` gives it up when
  Notion refuses, `Unconfirmed` keeps it.
- `Outside` is a member who edits in Notion. `author` (history) tells whose a
  setting is.

Refusals of any origin (permissions, cooldowns, catalogue) are one open choice.
Two settings have one revision when they are equal. Several tabs are one panel
that is closed and opened again. A write that reaches Notion after its request
has failed is not modelled.

### AdminConsole and ConfigForm

A step is what runs between two awaits, with the render and the effects it
causes. A request is a `task`: the server answers in one step and the answer
lands in a later one. `panel.form` and `panel.baseline` are the form and what it
is compared with, `flag` the `settingsDirty` reference that the shell asks before
it changes the tab or logs out, `tab` what is mounted. The session may expire and
other consoles store configurations of their own at any time.

`ConfigForm` has one field for each of these ways of converting: a text with a
default, a list edited as one text, a number with a default (`||`), switches
that fall back on an older one, switches that another one forces. Numbers that
default by `??`, trimmed texts and secrets that are cleared are left out, and the
server's own normalisation is the identity. A prompt strategy from a file is any
value of that part of the form.

### ChatWorkspace

`store` is the server's conversations, `conv` and `shown` what is on screen,
`read` the openings and polls in flight, `run` the turn of this page, `change`
the message it edits or removes, `row` the conversation it deletes, `saved` the
id in the browser's storage. A transcript is the number of its turns and how
much of the last answer it holds. A read that has been superseded does nothing
when it lands and is forgotten at once. `mine` marks the answer of this page's
last turn, `moved` (history) one whose turn the server put in another
conversation. A snapshot without any of the answer ends with the question, since
the server stores the message of an answer with its first piece: after a failed
turn there is nothing in it to keep the partial answer in (`Overlaid`).

Left out: conversations that exist in Notion only, the target and the draft,
titles, files, changes of the turn that is running, a second deletion of a row
at a time, results that land after another client's next turn, successful
answers that are cut short.

### AccountsPanel

`pool` is the server's accounts, `payload` what the hook holds, `panel.edits`
the unsaved settings, `panel.chosen` what is open, `panel.tried` the quick test,
`panel.busy` the buttons that wait. Accounts and workspaces come and go with
logins, imports, deletions and other consoles. The setting of a workspace is its
three numbers, that of an account its switch. Typing one number makes a draft of
all three (`UpdateEdit`), which is kept, compared and saved as a whole. `typed`
(history) is what was typed for each key over what was on screen when the draft
was begun. A save that ends after its workspace has gone from the
list finds no baseline and puts what it sent back as a draft (`ClearedEdits`);
`typed` remembers that as well (`LeftOver`), so that `DraftIsTyped` speaks of
every key, listed or not. The quick test has two buttons: `TestForm` sends what
its form shows, `TestOnDisplay` the account on screen with its workspace or,
where none is open (`OpenedSpace`), with the workspace of the form, a default
parameter of `runQuickTest`. The numbers of accounts without workspaces and the
texts of the login and import forms are left out.

### ConversationsPanel and EventMerging

`server` is the status of each conversation, `queue` the events on their way,
`list` and `detail` what the hook holds, `selected` its selection, `panel` the
checked rows and the filter. `Fallback` is what the effects make of a selection
that is no longer listed: any conversation of the list, since the order is left
out here. The order and the merging are in `EventMerging`, which extends the
panel: `UpsertSummary` and `MergeMessages` are the functions of the hook,
`Upserted` and `Transcript` what they make of a sequence of events, and
`MergingAgrees` compares that with what a reader of the same events would
expect. What repeats is a recursive function, so that it can be proved about.

## Runs

| Run | Instance | States | Checks |
|---|---|---|---|
| `turns` | 1 conversation, 2 handlers | 31 thousand | turns exclude each other, a running entry has a handler, snapshots are ordered, every turn ends |
| `eviction` | 2 conversations, room for 1, 1 handler, 1 deleter; lists of up to 5 ids | 467 thousand | rows keep up through evictions and restores, a claim keeps turns away, the recency list and its closed forms |
| `slots` | 2 requests, 1 account, 2 workspaces, limits up to 2, 2 objects per key | 23 thousand | counters are exact, a slot in use survives rebuilds, `Capacity` is implemented |
| `pool` | 2 requests, 2 accounts of one workspace, limits and quota 1, 2 instants, 1 failure, 1 edit | 933 thousand | limits through retries, request windows, backoff on record in time, late commits clear no newer failure and shorten no pause |
| `responses` | 1 conversation, 1 answer, room for 1 in the queue | 38 thousand | a deletion reaches every answer, links are durable, nobody waits for ever |
| `tools` | 1 model, both settings of a workspace, 1 panel, 2 requests, 1 outside event | 1.4 million | edits exclude each other and overwrite nothing unseen, a lock leaves a way back |
| `settings` | 2 stored configurations, 1 typed form, 1 strategy, 2 requests | 583 thousand | nothing typed is replaced, a clean form is what is stored, a saved one comes back |
| `chat` | 2 conversations of 2 turns, answers of 2 pieces, 2 reads, 2 requests at a time | 2.7 million | reads, polls, edits and runs land where they belong, a partial answer is kept |
| `accounts` | 2 accounts, 3 workspaces, 2 requests, 1 change of the pool | 580 thousand | drafts survive and hold what was typed over what was seen, the form shows the test that is sent, no button stays busy |
| `conversations` | 2 conversations of 2 accounts, 1 request, 1 event; sequences of 2 events over 3 rows | 451 thousand | selection and checked rows are shown, reports are true, merging events leaves the settled list and transcript |
| `overlapping_turns`, `lost_way_back` | as `turns`; as `tools` with two models and a disk that may fail | | see *What the code does not keep* |

What the bounds leave out. Conversations meet only in the store's capacity, so
one is enough for the protocol and two, with room for one, for eviction; the
hazards are between pairs (two turns, a turn and a deletion), and the runs cover
these pairs with restarts and edits in between. Two deletions beside each other
are covered by the proof of `ClaimExcludes` only. `Unexcused` stops the eviction
run where `foreign` or `dropped` becomes non-empty: the properties excuse the
conversation from there on, and `turns` goes on past that point.

At most one object of a key is in use at a time, which is what `SlotSurvives`
says, so two names per key show a rebuild that would make a second one; two
holders and limits up to 2 show a limit lowered below them. In the pool the
hazards need one failure recorded between the steps of one other process: two
requests, or a request and a refresh, which is what `TwoAtATime` keeps. A pause
outlives the last instant, an ordinary cooldown ends and a window begins at the
second. The run has the fallback and the active account; a credential shared by
two workspaces is in `slots`, and in the proofs.

An answer of two pieces is the shortest of which the server can have less than
the screen and still something. In the console the hazards are between one request and another, or between a
request and what happens meanwhile on the screen and at the server.
`FewInFlight` keeps two requests of a page at a time, `OneChange` one change of
the accounts beside a read of them, `OneDraft` one unsaved key (drafts do not
depend on each other), `OneUnread` one event or detail on its way beside a
request. In `responses` an answer and the deletion of its conversation are one
conversation's affair; what two share is the queue, and with room for one, a
single save fills it.

Symmetry permutes handlers, deleters and conversations in `eviction`; requests
and object names in `slots`; requests in the pool, and the two accounts with
their workspaces; requests in flight in the console's runs, conversations (with
their accounts) where nothing tells them apart. No run with a liveness property
uses it, and the action properties are symmetric. Deadlock is checked
everywhere: a request, a click or an event can always come.

Between them the runs fire every action; every property is known to fail in a
model with a plausible mistake, listed under `mutants`.

### Fairness

`FairSpec` of `Conversations` assumes that a handler's own steps happen.
`Ending` is strongly fair because a turn may also go on recording deltas: the
dispatch timeout ends every upstream call however much it streams, and a replay
ends with its stored answer. The other steps are strongly fair because they wait
for `persistMu`, which Go hands to a waiter that has starved. Requests, edits,
deletions and restarts are under no assumption. `TurnsEnd` is checked without
deleters: with two handlers and a deleter liveness checking no longer finishes
in minutes, and a deletion refuses a running conversation.

`FairSpec` of `ResponseLinks` assumes that the writer's goroutine runs (`Take`,
`Land`, `Drain`) and that `CloseQueue` gets the lock it asked for. Weak fairness
is enough: nothing the others do disables them for good, since a `sync.RWMutex`
admits no new reader once a writer waits. The console's modules claim no
liveness: an answer may never come.

## What the code does not keep

These runs end in a violation of what a comment of the source says.

| Run | Property | Cause |
|---|---|---|
| `overlapping_turns` | `OneTurn` | `abandonConversationTurn` has no notion of whose turn is running: the deferred call of a finished request fails the turn of the next one, and a third one starts beside it |
| `lost_way_back` | `WayBack` | `setModelPolicyRestorePoint` keeps the point in memory when its file cannot be written; the next lock finds it, saves nothing and writes, and a restart loses it |

More statements of comments and documents are stated in the modules and violated
without a run of their own. Each is reproduced by naming it in the given
configuration instead of its properties.

| Property | Where | Cause |
|---|---|---|
| `DeletedRowStaysGone` | INVARIANT, `MCEviction.cfg` | an edit or an owed snapshot writes the row back before the entry is removed; a save that follows a failed stream does the same (`main.go:3241`) |
| `DeletingHasDeleter` | INVARIANT, `MCEviction.cfg` | startup repairs busy rows only; a "deleting" one stays. Two deletions that both fail get there without a restart, when the second one loaded the entry while the first had it claimed and puts "deleting" back |
| `RefreshKeepsQuota` | PROPERTY, `MCPool.cfg` with `MaxEdits = 2` | a failed refresh writes its status over `quota_exhausted`; the next one that completes no longer recognises the six-hour cooldown and clears it |
| `CleanIsAccepted` | INVARIANT, `MCSettings.cfg` | an import declares the form clean at once; until the read that follows it lands, or for good when that fails, a form that nobody stored is shown as unchanged |
| `BatchReportIsTrue` | PROPERTY, `MCConsoleConversations.cfg` | the report of a batch counts the conversations that were asked for, those that could not be deleted among them |
| `AnswerNeverShrinks` | PROPERTY, `MCChat.cfg` | the read that ends a failed turn keeps the longer partial answer, the next poll takes it back, as the server's snapshot is still behind (`chat-workspace.tsx:431`) |
| `PartialAlwaysKept` | PROPERTY, `MCChat.cfg` | the read that ends a failed turn ends with the question when nothing of the answer has been stored there, as in the conversation that the server has left for a new one: what was on screen is gone (`chat-workspace.tsx:685`) |
| `CleanFieldsFollow` | PROPERTY, `MCAccounts.cfg` | typing one number of a workspace puts the other two in the draft (`accounts-panel.tsx:428`); a refresh keeps the draft whole (`:307`), so that they count as changed when another console has changed them, and a save writes the old ones back (`:482`) |
| `TestAlwaysShown` | PROPERTY, `MCAccounts.cfg` | the test of an account without an open workspace is sent with the workspace of the form, which may be another account's (`accounts-panel.tsx:441`, `:785`); the form itself goes back to none |
| `DraftIsListed` | INVARIANT, `MCAccounts.cfg` with `MaxChanges = 2` | a save that ends when its workspace is no longer listed leaves the sent value as a draft (`accounts-panel.tsx:495`): nothing shows it, the panel counts as changed, and it is back when a read lists the workspace again |
| `LinksAreKept`, `WindowEnds` | PROPERTY, `MCResponses.cfg` | pruning goes by residence alone: it drops the links of conversations that are merely evicted, and keeps those of resident ones past their window (`response_store.go:286`) |

The passing properties hold beside these. Those of `Conversations` excuse a
conversation in `foreign` or `dropped`, and say that there is no other way to
break them; those of `ResponseLinks` excuse `unsaved` and `leaked`. Two more
have no property. `ClaimForDeletion` accepts an entry that is being deleted, so
the failure of either deletion releases the claim of both: that is one way into
`foreign`. `moveToFrontLocked` does nothing on an empty list, so an import into
an empty store is resident and unlisted: `OrderSound` claims one direction only.

## Proofs

`Conversations_proofs` proves for every set of conversations, handlers and
deleters and every capacity, from `ConstantsAssumption`:

- `Inductive`: `Spec => []IInv`;
- `TypeCorrect`, `TurnsAreExclusive`, `ClaimsAreExclusive`, `RunningIsServed`,
  `RowsKeepUp`, `SnapshotsAreOrdered`: the properties of the runs;
- `ListIsSound`: the recency list names resident conversations, each one once;
- `LoopsAgree`, which needs `MaxListAssumption` too: the closed forms of the
  recency list are the loops of the source, on every list without duplicates
  and on the list of the store, and trimming leaves a list that fits, or
  protected entries only, the oldest gone first.

The properties are not inductive by themselves. `TurnsExclude` needs to know
that each open turn *owns* its entry (`OwnerInv`: a running entry has one owner,
so two turns cannot both have it; a claimed one has one claimant).
`RunningHasHandler` needs the owner to be the handler that answers
(`AnswerInv`). `RowKeepsUp` needs that a snapshot which grows old between
`ReadSnapshot` and `WriteSnapshot` is followed by another write (`SnapshotInv`),
which in turn needs that only the holder of `persistMu` writes (`PcInv`) and
that a running entry is never evicted (`EvictedUnprotected`). `InsertEffect` and
`RestoreEffect` say once what insertion, eviction and restoration leave of all
this; after them there is one lemma per conjunct with one step per action.

`OrderSound` is about lists of any length. `OrderInv` adds that the list is a
sequence of conversations, which its operations need: `MoveToFrontFacts` and
`WithoutFacts` say that moving a name to the front and leaving names out keep
every name at most once and bring in no other; `Places` says where a name goes
when others are left out before it. Where one of them is an induction it is made
by a least counterexample (`LeastOf`), from the well-foundedness of the
naturals, over a set of places: an induction rule with an operator parameter
cannot be used here. `LoopsOnOrder` shows that the closed form obeys the
recursion of the loop, and that a loop which walks down has one result
(`Downward`); how much the walk has left is found by counting the unprotected
entries behind it (`OpenCount`, `LengthLeft`). After a restart the list is a
surjection from as many places as there are conversations, hence an injection.

`DispatchSlots_proofs` proves for every set of requests, accounts, workspaces
and objects and every limit, from `SlotAssumption` (a workspace has an account,
no key is both, requests are finite in number, "no object" is no object):

- `Inductive`: `Spec => []IInv`;
- `CountersCountLeases`, `SlotsSurviveRebuilds`: the counter of an object is the
  number of leases that list it, and the table keeps the object of every lease;
- `Implements`: every behaviour of the slots is one of `Capacity`.

`CountsLeases` is not inductive by itself: a slot is taken from the table and
given back through the lease, so the two have to name one object
(`SlotSurvives`), and `SlotSurvives` in turn needs the counter, which is how a
rebuild knows that an object is in use. A step adds or removes one lease only if
the attempt holds what its place in the code says (`AttemptInv`). The refinement
needs besides that the object of a listed key carries the configured limit
(`TableInv`): then each taking is an admission of `Capacity` on one key, each
giving back a leave, and a rebuild a change of the limits.

`AccountPool_proofs` proves for every set of requests, accounts and workspaces
and all limits, quotas, cooldowns and bounds, from `PoolAssumption`:

- `Inductive`: `Spec => []IInv`;
- `LimitsHold`, `QuotaHolds`: the prompts that run stay within the limits of
  their account and workspace, the request windows within the quota;
- `BackoffHonoured`, `PausesNeverShrink`: no prompt starts before a pause that
  upstream asked for is over, and nothing shortens a pause;
- `FreshFailuresStay`: no refresh clears a failure newer than its snapshot.

`InferenceWithinLimits` needs that a prompt runs under a lease and that leases
are counted before they are granted (`LeaseInv`). `HonoursBackoff` is about two
moments: upstream asks for a pause, and another request begins. Between them the
pause may not be on record yet; `PauseInv` says that then the request that heard
it still holds a slot of the account and is at the step that records it. With
one slot per account nobody else can begin, and with more somebody can: the
property says so. Of a configuration each step needs to know only that no pause
ends and no window is charged (`Harmless`); `Begin` is the one that charges,
after it has checked.

`ModelPolicy_proofs` proves for every set of models, panels and requests, from
`PolicyAssumption`:

- `SpecIInv`: `Spec => []IInv`;
- `TheLockIsHeld`, `ThePanelShowsItsOwn`, `NoPanelStaysBlocked`: edits exclude
  each other, a panel shows the setting it has selected, and one that is blocked
  has a request that will free it;
- `NothingUnseenIsOverwritten`: a write replaces the setting its panel showed,
  or one that a member changed behind the comparison;
- `ALockLeavesAWayBack`: with a disk that keeps what is written (`~DiskFails`),
  whatever a lock has written can be taken back, after a restart, too.

`WayBack` is about the setting and the point, with several requests between
them: `Staged` says what each place of the handler knows (the setting read, the
wanted one, whether it made the point), `Waited` which panel each request
belongs to, `Compared` that the revision was compared before anything was
wanted, and `Kept` that between `Prepare` and the outcome the point stays, in
memory and on the disk.

`ResponseLinks_proofs` proves for every set of conversations and answers and
every capacity of the queue, from `LinksAssumption`:

- `Inductive`, `TypeCorrect`;
- `DeletionsReachAll`: once a conversation is deleted, no answer of it is in
  memory, and none stays in the table but those the writer is still to delete;
- `LinksStay`: an answer that can be continued has a row, or the writer is about
  to write one.

`DeletionReachesAll` is about finished deletions; `OutOfMemory` and `OutOfTable`
say what one that is under way has reached. `OutOfTable` counts on the order of
the queue, a deletion behind every write of its answers; `SavedAfter` is the
reverse for a deletion that was given up, whose request is still in the queue
when a newer answer is saved. `Running` and `Claimed` keep turns and deletions
of one conversation apart. `Waiting` says that nobody waits twice, so that a
waiter let in is the only one of its conversation.

`ConsoleTabs_proofs` proves of the chat workspace, for every set of conversations
and reads, any number of turns and any length of an answer, from
`ChatAssumption`:

- `Inductive`;
- `OwnTranscript`: the messages on screen are those of the open conversation;
- `SoundAlways`: every value has its type, and a screen that loads has a read in
  flight;
- `ScreenOfTheTurn`: a turn streams into the conversation it was sent for;
- `PartialSurvives`: the read after a stopped or failed turn does not take back
  what has been shown, unless it ends with the question.

A read checks that it is still the latest before it lands (`ReadsBelong`,
`OneOpening`: there is at most one opening and it is for what is on screen); a
run holds the screen because opening, deleting and starting another are not
offered while it lasts (`TurnHasScreen`, `ScreenIsFilled`), and the server's
turn it listens to is live (`LiveHasTurn`). `ChangeHasConv` says the same for
the message that is edited.

Of the accounts panel it proves, for every set of accounts, workspaces, models
and requests, any first pool and any number of its changes, from
`PanelAssumption` and `PoolsAssumption` (the first pools are pools, no panel is
no panel):

- `AccountsInductive`;
- `DraftsAreTyped`: an unsaved setting is what was typed over what was seen when
  its draft was begun;
- `DraftsSurviveAlways`: only the operator, a save of it, or the end of its
  workspace takes an unsaved setting away;
- `TestsAreShown`: the form shows the test that is sent, but for a workspace
  taken from another account's form;
- `AccountsSoundAlways`: every value has its type, the form of the test fits the
  payload, nothing is busy without a request.

`DraftIsTyped` needs that while a save runs the draft is still what it sent
(`SavesFit`): the fieldset is disabled then, and there is no second save, because
a busy button has one request and a request its busy button (`ButtonsFit`, both
ways). It has to be about every key: a draft that nothing
lists is carried along and may be listed again. `TypeKept` says that a typed
field changes the draft and its history alike, `TestStarts` that a test which
goes to a workspace of its account leaves the form as it was sent.
`RequestsFit` says what each request brings back. `GoodScreen` is all of this for a panel, a payload and the
requests as a render finds them; `RenderStep` is cited by every action, `Sends`
gathers the requests, `EndStep` their outcomes.

`AdminConsole_proofs` proves for every configuration, form, strategy and set of
requests, from `FormAssumption`, `ConsoleAssumption` and `UnmountedAssumption`
(not mounted is no state of the panel):

- `FormsComeBack`: a form that was sent is shown again by the configuration it
  makes, for all forms, as facts about the conversions (`FormsAreSent`: what is
  sent is a configuration);
- `Inductive`, `SoundAlways`: every value has its type, and nothing is busy
  without a request;
- `CleanIsKeptAlways`: a form without unsaved edits shows what was saved or
  stored, or what the last import gave up;
- `RoundTripAlways`: a saved form is clean and reads back as it was sent;
- `EditsSurviveAlways`: no step but the operator's own replaces what is unsaved.

`CleanIsKept` compares a form, a baseline and the history of the server;
`PanelIsGood` says where baseline and form came from, `TasksAreGood` what each
answer in flight will bring, `ConfigIsHeld` that the hook's configuration was
the server's, `ScreenIsRight` that the panel is mounted exactly when it is
shown, and that the shell's flag is the panel's. `EditsSurvive` lists the steps
that may replace an edit; its proof takes every other action and shows the form
unchanged.

`ConversationsPanel_proofs` proves for every set of conversations, accounts and
requests and any queue of events, from `ListAssumption` and `LeftAssumption`:

- `Inductive`, `SoundAlways`, `SelectionAlways`: what is selected or checked is
  listed and passes the filter;
- `BatchAlways`: a batch deletes what is on screen when it is sent, and nothing
  that is shown as running;
- `SingleReportAlways`: a deletion that reports success has deleted;
- `MergingAlways`, for every set of ids, texts, times and titles and sequences
  of events of any length, from `MergingAssumption` as well: each conversation
  is listed once, newest first, with what its last event said and the title that
  was sent last (not counting the event that ends a merge), and a transcript holds every message once, where it first appeared,
  with its last content.

The invariants are about state that effects repair after every step
(`CheckedIsShown`, `SelectionIsShown`); their proofs are lemmas about `Pruned`
and `Fallback` that every action cites. `GoodTask` carries the outcome of a
deletion to the step that reports it.

`MergingAgrees` is about recursive functions on sequences. `Iterated` gives such
a function its value one event further on, and `Upward` is induction over the
places of a sequence, stated with a set of them. `SortFacts` says that sorting
lists every row once, in order, because two rows never have the same rank.
`SettledStep` and `TranscribedStep` then take one event more: what the outcome
expected of a sequence is, given the outcome expected of the sequence before it.
The title is the part that looks back (`TitleAppended`, `TitleNew`): an event
without one keeps the last that was given.

Only model-checked is liveness, which is beyond TLAPS: `TurnsEnd` and
`NobodyWaits`. Every other property of the passing runs is stated by a theorem.

## Hazards outside the properties

`PROJECT.json` lists seven hazards without a property: the gap between a row's
deletion and its entry's, explicit threads shared by two requests, pruning by
residence, the order of polls, links that stay past their window, events that
cross a read of the list, and an answer saved after the deletion of its
conversation. Four of them are covered by statements of the table above, which
the code does not keep; the last two are in the models, which excuse or allow
what the code does.
Others were seen and are not modelled: a finished entry evicted before its last
snapshot (`conversations.go:568`), conversations found by a shared thread
(`conversations.go:1936`), the order of the gauge's updates (`metrics.go:139`),
a late success that clears a newer cooldown (`account_pool.go:508`), a dispatch
order that is older than the configuration, two relogins of one account from two
requests.

## Plan

Done: the conversation store with its handlers and deletions, the dispatch slots
and their refinement, the account pool around one dispatch attempt, the response
links with the writer, the model policy, four parts of the console, and the
proofs of all of them. Next, in this order:

1. `ThreadSharing`: `deleteConversationThread`, conversations that share an
   upstream thread, explicit-thread requests, sweeps with their retry times.
2. `Failover`: candidates in the order of `sortDispatchCandidates` (checked to
   be a strict order), emitted output, the continuation failover, at most one
   answer for a turn.
3. `Accounts`: merging of records on upsert, admin edits beside a login, what
   the configuration file and the accounts table keep.
4. `TranscriptMerge` as an algorithm against a reference; admin login attempts.

## Not modelled

The Notion protocol and its transports, login, proxies, OpenAI formats, prompt
guard, model tables, metrics and SillyTavern heuristics are parsing, rendering
and I/O: where the models need their outcome it is an open choice. The other
panels of the console display what one request answers. The deployment scripts
are outside. Parts of the plan not reached are listed in `PROJECT.json` as
`not_modelled` or `partly`.
