----------------------------- MODULE AdminConsole -----------------------------
(* The console shell (admin-console.tsx), the session and refresh half of   *)
(* its hook (use-admin-console.ts), and the settings panel it mounts        *)
(* (settings-panel.tsx). A step is what runs between two awaits, with the   *)
(* render and the effects that follow it. Requests are tasks: their answers *)
(* are computed by the server in one step and land in a later one, so that  *)
(* answers of different tasks land in any order.                            *)
EXTENDS ConfigForm

CONSTANTS
  Tasks,      \* requests in flight at a time (a bound)
  Typed,      \* the forms an operator makes by typing
  Stored,     \* the configurations others may store: imports, other consoles
  Strategies, \* the prompt strategies in files
  NoConfig,   \* no configuration loaded
  NoForm,     \* no form captured
  NoPanel     \* the settings panel is not mounted

ASSUME ConsoleAssumption ==
  /\ Typed \subseteq Forms /\ Stored \subseteq Configs /\ Strategies \subseteq Prompts
  /\ NoConfig \notin Configs
  /\ NoForm \notin Forms

VARIABLES
  session,  \* whether the server takes this console's requests
  stored,   \* the configuration of the server
  verify,   \* the last verify payload: "none", "in", "out"
  config,   \* configPayload
  loading,  \* bootLoading
  tab,      \* activeTab
  flag,     \* settingsDirty.current
  panel,    \* state of the settings panel
  task,     \* the requests in flight
  accepted, \* history: forms that were saved or that a stored configuration shows
  dropped   \* history: the form the last import has given up, or NoForm

console == <<verify, config, loading, tab, flag, panel, task>>
server == <<session, stored, accepted>>
vars == <<console, server, dropped>>

Tabs == {"tester", "settings"}
Ops == {"resync", "login", "logout", "save", "import"}

Panels == [form: Forms, baseline: Forms, adopted: BOOLEAN, saving: BOOLEAN]
ASSUME UnmountedAssumption == NoPanel \notin Panels

TaskRecords ==
  [op: Ops \cup {"none"},
   pc: {"idle", "call", "verify", "verified", "reads", "read", "list"},
   saw: {"none", "in", "out"},      \* the session, as verified
   got: Configs \cup {NoConfig},    \* the configuration sent or read
   form: Forms \cup {NoForm},
   own: BOOLEAN]

Idle == [op |-> "none", pc |-> "idle", saw |-> "none", got |-> NoConfig,
         form |-> NoForm, own |-> FALSE]
Started(op, pc, c, form) ==
  [op |-> op, pc |-> pc, saw |-> "none", got |-> c, form |-> form, own |-> form # NoForm]

Dirty(p) == p.form # p.baseline

-----------------------------------------------------------------------------
(* The settings panel *)

\* The panel as it is mounted, or synced, with a configuration.
Synced(c, saving) ==
  [form |-> Normal(BuildForm(c)), baseline |-> BuildForm(c),
   adopted |-> TRUE, saving |-> saving]

\* Mutant: a refresh replaces the form whether it has unsaved edits or not.
AdoptAlways(p, c) == IF p.adopted THEN p ELSE Synced(c, p.saving)

\* The effect that adopts a configuration while there are no unsaved edits.
Adopt(p, c) == IF Dirty(p) \/ p.adopted THEN p ELSE Synced(c, p.saving)

\* Whether the shell renders the panel.
Shown(v, c, tb) == v = "in" /\ c # NoConfig /\ tb = "settings"

Rendered(p, v, c, tb) ==
  CASE ~Shown(v, c, tb) -> NoPanel
    [] Shown(v, c, tb) /\ p = NoPanel -> Synced(c, FALSE)
    [] OTHER -> Adopt(p, c)

\* What a request still needs once it has been carried out: the form it was
\* started with while its panel is there, and else no more than its refresh.
Kept(x, mounted) ==
  LET own == x.own /\ mounted IN
  IF own \/ x.pc \in {"idle", "call"} THEN [x EXCEPT !.own = own]
  ELSE [x EXCEPT !.own = FALSE, !.form = NoForm,
                 !.op = IF @ = "login" THEN @ ELSE "resync"]

\* A render after a handler has left the panel as p and the tasks as ts: the
\* panel reports its dirt to the shell, and one that goes away leaves its
\* tasks without a panel to write to.
Render(p, ts) ==
  /\ panel' = Rendered(p, verify', config', tab')
  /\ flag' = (panel' # NoPanel /\ Dirty(panel'))
  /\ task' = [t \in Tasks |-> Kept(ts[t], panel' # NoPanel)]

Start(t, record) == [task EXCEPT ![t] = record]
At(t, pc) == task[t].pc = pc

Init ==
  /\ session \in {"in", "out"} /\ stored \in Stored
  /\ verify = "none" /\ config = NoConfig /\ loading = TRUE
  /\ tab = "tester" /\ flag = FALSE /\ panel = NoPanel
  /\ \E t \in Tasks:
       task = [u \in Tasks |->
                 IF u = t THEN Started("resync", "verify", NoConfig, NoForm) ELSE Idle]
  /\ accepted = {BuildForm(stored)} /\ dropped = NoForm

-----------------------------------------------------------------------------
(* The operator *)

\* The shell is on screen.
Ready == ~(loading /\ verify = "none")

\* A tab, or the back button: unsaved edits ask first.
SelectTab(tb, confirmed) ==
  /\ Ready /\ tb # tab
  /\ flag => confirmed
  /\ tab' = tb
  /\ UNCHANGED <<verify, config, loading, server, dropped>>
  /\ Render(panel, task)

Type(f) ==
  /\ panel # NoPanel
  /\ UNCHANGED <<verify, config, loading, tab, server, dropped>>
  /\ Render([panel EXCEPT !.form = Normal(f)], task)

\* A strategy file has been read: its values are edits like typed ones.
ImportStrategy(prompt) ==
  /\ panel # NoPanel
  /\ UNCHANGED <<verify, config, loading, tab, server, dropped>>
  /\ Render([panel EXCEPT !.form = Normal(ApplyPromptStrategy(@, prompt))], task)

Discard ==
  /\ panel # NoPanel /\ Dirty(panel) /\ ~panel.saving
  /\ UNCHANGED <<verify, config, loading, tab, server, dropped>>
  /\ Render(Synced(config, FALSE), task)

\* The save button sends the form as it is at this moment.
Save(t) ==
  /\ At(t, "idle") /\ panel # NoPanel /\ ~panel.saving
  /\ UNCHANGED <<verify, config, loading, tab, server, dropped>>
  /\ Render([panel EXCEPT !.saving = TRUE],
            Start(t, Started("save", "call", NoConfig, panel.form)))

\* A file is chosen; the handler keeps the form of the render it belongs to.
Import(t, c) ==
  /\ At(t, "idle") /\ panel # NoPanel
  /\ UNCHANGED <<verify, config, loading, tab, server, dropped>>
  /\ Render(panel, Start(t, Started("import", "call", c, panel.form)))

Resync(t) ==
  /\ At(t, "idle") /\ Ready /\ ~loading
  /\ loading' = TRUE
  /\ UNCHANGED <<verify, config, tab, server, dropped>>
  /\ Render(panel, Start(t, Started("resync", "verify", NoConfig, NoForm)))

\* The overlay is busy until the login and its refresh are over.
Login(t) ==
  /\ At(t, "idle") /\ verify = "out"
  /\ \A u \in Tasks: task[u].op # "login"
  /\ UNCHANGED <<verify, config, loading, tab, server, dropped>>
  /\ Render(panel, Start(t, Started("login", "call", NoConfig, NoForm)))

Logout(t, confirmed) ==
  /\ At(t, "idle") /\ Ready
  /\ flag => confirmed
  /\ UNCHANGED <<verify, config, loading, tab, server, dropped>>
  /\ Render(panel, Start(t, Started("logout", "call", NoConfig, NoForm)))

-----------------------------------------------------------------------------
(* The server *)

\* What a call does when the server carries it out.
Effect(t) ==
  LET x == task[t] IN
  \/ /\ x.op \in {"login", "logout"}
     /\ session' = IF x.op = "login" THEN "in" ELSE "out"
     /\ UNCHANGED <<stored, accepted>>
  \/ /\ x.op = "save" /\ session = "in"
     /\ stored' = Payload(x.form)
     /\ accepted' = accepted \cup {x.form, BuildForm(stored')}
     /\ UNCHANGED session
  \/ /\ x.op = "import" /\ session = "in"
     /\ stored' = x.got /\ accepted' = accepted \cup {BuildForm(x.got)}
     /\ UNCHANGED session

\* Another console, or a request of the API, changes the configuration.
OtherConsole(c) ==
  /\ stored' = c /\ accepted' = accepted \cup {BuildForm(c)}
  /\ UNCHANGED <<console, session, dropped>>

\* The admin token expires.
Expire ==
  /\ session = "in" /\ session' = "out"
  /\ UNCHANGED <<console, stored, accepted, dropped>>

Verify(t) ==
  /\ At(t, "verify")
  /\ task' = [task EXCEPT ![t].pc = "verified", ![t].saw = session]
  /\ UNCHANGED <<verify, config, loading, tab, flag, panel, server, dropped>>

\* The four reads of a refresh are answered.
Read(t) ==
  /\ At(t, "reads") /\ session = "in"
  /\ task' = [task EXCEPT ![t].pc = "read", ![t].got = stored]
  /\ UNCHANGED <<verify, config, loading, tab, flag, panel, server, dropped>>

-----------------------------------------------------------------------------
(* Answers that land in the console *)

\* Mutant: after a save the form of that later moment is taken for the saved one.
TailCurrent(t) ==
  LET x == task[t] IN
  CASE x.own /\ x.op = "save" -> [panel EXCEPT !.baseline = panel.form, !.saving = FALSE]
    [] x.own /\ x.op = "import" -> [panel EXCEPT !.baseline = x.form]
    [] OTHER -> panel

\* What the save and the import do once their refresh is over, if their panel
\* is still there.
Tail(t) ==
  LET x == task[t] IN
  CASE x.own /\ x.op = "save" -> [panel EXCEPT !.baseline = x.form, !.saving = FALSE]
    [] x.own /\ x.op = "import" -> [panel EXCEPT !.baseline = x.form]
    [] OTHER -> panel

\* refreshAll never rejects: its errors end here too.
Finish(t) ==
  /\ loading' = FALSE
  /\ dropped' = IF task[t].own /\ task[t].op = "import"
                  THEN task[t].form ELSE dropped
  /\ Render(Tail(t), Start(t, Idle))

\* The call has succeeded and the refresh begins.
Call(t) ==
  /\ At(t, "call")
  /\ Effect(t)
  /\ loading' = TRUE
  /\ UNCHANGED <<verify, config, tab, dropped>>
  /\ Render(panel, [task EXCEPT ![t].pc = "verify", ![t].got = NoConfig])

\* Mutant: the save button is not freed when the call has failed (its finally).
CallFailsBusy(t) ==
  /\ At(t, "call")
  /\ Effect(t) \/ UNCHANGED server
  /\ UNCHANGED <<verify, config, loading, tab, dropped>>
  /\ Render(panel, Start(t, Idle))

\* The call is refused or its answer is lost; it may have been carried out.
CallFails(t) ==
  /\ At(t, "call")
  /\ Effect(t) \/ UNCHANGED server
  /\ UNCHANGED <<verify, config, loading, tab, dropped>>
  /\ LET saver == task[t].own /\ task[t].op = "save" IN
     Render(IF saver THEN [panel EXCEPT !.saving = FALSE] ELSE panel, Start(t, Idle))

LandVerify(t) ==
  /\ At(t, "verified")
  /\ verify' = task[t].saw
  /\ UNCHANGED <<tab, server>>
  /\ \/ /\ task[t].saw = "out"
        /\ config' = NoConfig
        /\ Finish(t)
     \/ /\ task[t].saw = "in"
        /\ UNCHANGED <<config, loading, dropped>>
        /\ Render(panel, [task EXCEPT ![t].pc = "reads", ![t].saw = "none"])

LandRead(t) ==
  /\ At(t, "read")
  /\ config' = task[t].got
  /\ UNCHANGED <<verify, loading, tab, server, dropped>>
  /\ Render(IF panel = NoPanel THEN NoPanel ELSE [panel EXCEPT !.adopted = FALSE],
            [task EXCEPT ![t].pc = "list", ![t].got = NoConfig])

\* The list of conversations has been read as well, or a request of the
\* refresh has failed.
Done(t) ==
  /\ task[t].pc \in {"verify", "verified", "reads", "read", "list"}
  /\ UNCHANGED <<verify, config, tab, server>>
  /\ Finish(t)

-----------------------------------------------------------------------------
Operator ==
  \/ \E tb \in Tabs, confirmed \in BOOLEAN: SelectTab(tb, confirmed)
  \/ \E f \in Typed: Type(f)
  \/ \E prompt \in Strategies: ImportStrategy(prompt)
  \/ Discard
  \/ \E t \in Tasks: \/ Save(t) \/ Resync(t) \/ Login(t)
                     \/ \E c \in Stored: Import(t, c)
                     \/ \E confirmed \in BOOLEAN: Logout(t, confirmed)

Network(t) ==
  Call(t) \/ CallFails(t) \/ Verify(t) \/ LandVerify(t) \/ Read(t) \/ LandRead(t) \/ Done(t)

Environment == Expire \/ \E c \in Stored: OtherConsole(c)

Next == Operator \/ Environment \/ \E t \in Tasks: Network(t)

Spec == Init /\ [][Next]_vars

-----------------------------------------------------------------------------
(* Properties *)

TypeOK ==
  /\ EveryFormIsSent
  /\ session \in {"in", "out"} /\ stored \in Configs
  /\ verify \in {"none", "in", "out"} /\ config \in Configs \cup {NoConfig}
  /\ loading \in BOOLEAN /\ tab \in Tabs /\ flag \in BOOLEAN
  /\ panel = NoPanel \/ panel \in Panels
  /\ task \in [Tasks -> TaskRecords]
  /\ accepted \subseteq Forms /\ dropped \in Forms \cup {NoForm}

\* A form on screen that were saved now would be shown again as it is, whichever
\* switches of the stored configuration were missing before, and whatever has
\* been typed. "Mirror the forced-read-only normalization so a freshly loaded
\* form is not dirty" (settings-panel.tsx:221): nor does the effect of the forcing
\* switch change anything in the form that a configuration is shown as.
RoundTrip ==
  /\ config # NoConfig => IsNormal(BuildForm(config))
  /\ EveryFormComesBack
  /\ panel # NoPanel => IsNormal(panel.form) /\ ComesBack(panel.form)

\* A form without unsaved edits shows values that the server has held, or that
\* an import has given up: no edit is ever taken for saved, whatever is typed
\* while a save or a refresh is in flight (setBaseline(savedForm), and the
\* effect that adopts a configuration).
CleanIsKept == panel # NoPanel /\ ~Dirty(panel) => panel.form \in accepted \cup {dropped}

\* "An import replaces the whole config; drop unsaved edits so the form resyncs
\* from the imported values" (settings-panel.tsx:713): so a form without unsaved
\* edits shows values that the server has held.
CleanIsAccepted == panel # NoPanel /\ ~Dirty(panel) => panel.form \in accepted

\* Unsaved edits stay on screen until the operator changes or discards them,
\* replaces them by an import, or agrees to leave them, or the session is over:
\* no refresh replaces them and no unmounted panel loses them unasked.
Unsaved == panel # NoPanel /\ Dirty(panel) /\ panel.form \notin accepted \cup {dropped}
KeepsEdits ==
  \/ panel' # NoPanel /\ panel'.form = panel.form
  \/ verify' = "out" \/ panel.form = dropped'
  \/ Discard
  \/ \E f \in Typed: Type(f)
  \/ \E prompt \in Strategies: ImportStrategy(prompt)
  \/ \E tb \in Tabs: SelectTab(tb, TRUE)
EditsSurvive == [][Unsaved => KeepsEdits]_vars

\* The spinner of the shell and the save button of the panel wait for a request
\* that is still in flight, whichever of them fail, overtake each other or lose
\* their panel: neither is ever left busy for nothing.
BusyHasTask ==
  /\ loading => \E t \in Tasks: task[t].pc \notin {"idle", "call"}
  /\ panel # NoPanel /\ panel.saving =>
       \E t \in Tasks: task[t].own /\ task[t].op = "save"

\* The state of the console and of what it sends is sound: every value has its type,
\* an emptied number included (Payload), and nothing is busy for nothing.
Sound == TypeOK /\ BusyHasTask
===============================================================================
