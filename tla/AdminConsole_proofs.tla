------------------------- MODULE AdminConsole_proofs -------------------------
(***************************************************************************)
(* For every set of configurations, strategies, forms and requests in      *)
(* flight: what the form of the settings sends comes back as it was, no    *)
(* edit is taken for saved, no refresh takes an edit away, and nothing is  *)
(* busy for nothing. NoPanel is no state of a panel; the other assumptions *)
(* are those of ConfigForm and of the console.                             *)
(***************************************************************************)
EXTENDS AdminConsole, TLAPS

-----------------------------------------------------------------------------
(* The conversions of the form *)

\* The conversions of a prompt are prompts; the form never shows a blank prefix,
\* and what is sent differs from the form in its parsed blocks alone.
LEMMA PromptTypes ==
  ASSUME NEW p \in Prompts
  PROVE  /\ PromptFormState(p) \in Prompts /\ PromptFormState(p).prefix # Blank
         /\ PromptPayload(p) \in Prompts
         /\ PromptFormState(p).blocks = p.blocks
         /\ p.prefix # Blank => PromptFormState(p).prefix = p.prefix
         /\ PromptPayload(p) = [p EXCEPT !.blocks = Parse(p.blocks)]
<1>1. /\ p \in [prefix: Texts, blocks: [list: Lists, padded: BOOLEAN]]
      /\ DefaultText \in Texts /\ DefaultText # Blank
  BY FormAssumption DEF Prompts
<1>2. PromptFormState(p) = [p EXCEPT !.prefix = IF p.prefix = Blank THEN DefaultText ELSE p.prefix]
  BY DEF PromptFormState
<1>3. PromptPayload(p) = [p EXCEPT !.blocks = Parse(p.blocks)]
  BY DEF PromptPayload
<1>4. Parse(p.blocks) \in [list: Lists, padded: BOOLEAN]
  BY <1>1 DEF Parse
<1> QED
  BY <1>1, <1>2, <1>3, <1>4 DEF Prompts

\* A switch of the form that is written as on or off is read back as it was,
\* whatever the older common switch says (persistence and forcing).
LEMMA SwitchTypes ==
  /\ \A s, t \in Optional: PersistenceFlag(s, t) \in BOOLEAN /\ NotOff(s) \in BOOLEAN
  /\ \A b \in BOOLEAN: OnOff(b) \in Optional
  /\ \A b \in BOOLEAN, t \in Optional: PersistenceFlag(OnOff(b), t) = b /\ NotOff(OnOff(b)) = b
BY DEF Optional, PersistenceFlag, NotOff, OnOff

\* A stored configuration is shown as a form that the effect of the forcing switch
\* leaves as it is (buildForm).
LEMMA BuildFormTypes ==
  ASSUME NEW c \in Configs PROVE BuildForm(c) \in Forms /\ IsNormal(BuildForm(c))
<1>1. /\ c.prompt \in Prompts /\ c.number \in Numbers /\ c.persist \in Optional
      /\ c.snapshots \in Optional /\ c.responses \in Optional /\ c.force \in Optional
      /\ c.readOnly \in BOOLEAN /\ c.writer \in BOOLEAN
  BY DEF Configs
<1>2. PromptFormState(c.prompt) \in Prompts
  BY <1>1, PromptTypes
<1>3. (IF c.number = 0 THEN DefaultNumber ELSE c.number) \in Numbers \cup {Empty}
  BY <1>1, FormAssumption
<1>4. /\ PersistenceFlag(c.snapshots, c.persist) \in BOOLEAN
      /\ PersistenceFlag(c.responses, c.persist) \in BOOLEAN /\ NotOff(c.force) \in BOOLEAN
  BY <1>1, SwitchTypes
<1>5. BuildForm(c) \in Forms
  BY <1>1, <1>2, <1>3, <1>4 DEF BuildForm, Forms
<1>6. BuildForm(c).force => BuildForm(c).readOnly = TRUE /\ BuildForm(c).writer = FALSE
  BY <1>1, <1>4 DEF BuildForm
<1>7. IsNormal(BuildForm(c))
  BY <1>5, <1>6 DEF IsNormal, Normal, Forms
<1> QED BY <1>5, <1>7

\* The effect of the forcing switch makes of a form one that it leaves alone.
LEMMA NormalTypes ==
  ASSUME NEW f \in Forms PROVE Normal(f) \in Forms /\ IsNormal(Normal(f))
<1>1. Normal(f) \in Forms
  BY DEF Normal, Forms
<1>2. CASE f.force
  BY <1>2 DEF Normal, IsNormal, Forms
<1>3. CASE ~f.force
  BY <1>3 DEF Normal, IsNormal
<1> QED BY <1>1, <1>2, <1>3

\* A strategy file makes of a form a form (applyPromptStrategy).
LEMMA ApplyTypes ==
  ASSUME NEW f \in Forms, NEW p \in Prompts PROVE ApplyPromptStrategy(f, p) \in Forms
<1>1. PromptFormState(p) \in Prompts
  BY PromptTypes
<1> QED BY <1>1 DEF ApplyPromptStrategy, Forms

\* Whatever has been typed, an emptied number included, the payload of the form is
\* a configuration (buildPayload).
THEOREM FormsAreSent == EveryFormIsSent
<1> SUFFICES ASSUME NEW f \in Forms PROVE Payload(f) \in Configs
  BY DEF EveryFormIsSent
<1>1. /\ f.prompt \in Prompts /\ f.number \in Numbers \cup {Empty}
      /\ f.snapshots \in BOOLEAN /\ f.responses \in BOOLEAN
      /\ f.force \in BOOLEAN /\ f.readOnly \in BOOLEAN /\ f.writer \in BOOLEAN
  BY DEF Forms
<1>2. PromptPayload(f.prompt) \in Prompts
  BY <1>1, PromptTypes
<1>3. (IF f.number = Empty THEN DefaultNumber ELSE f.number) \in Numbers
  BY <1>1, FormAssumption
<1>4. /\ OnOff(f.snapshots \/ f.responses) \in Optional /\ OnOff(f.snapshots) \in Optional
      /\ OnOff(f.responses) \in Optional /\ OnOff(f.force) \in Optional
  BY DEF OnOff, Optional
<1>5. (f.force \/ f.readOnly) \in BOOLEAN /\ (~f.force /\ f.writer) \in BOOLEAN
  OBVIOUS
<1> QED BY <1>2, <1>3, <1>4, <1>5 DEF Payload, Configs

\* A form comes back from the server field by field: the switches as they were, an
\* emptied number as its default, the prompt as its conversions leave it.
LEMMA Back ==
  ASSUME NEW f \in Forms, IsNormal(f)
  PROVE  LET back == BuildForm(Payload(f)) IN
         /\ back \in Forms
         /\ back.prompt = PromptFormState(PromptPayload(f.prompt))
         /\ back.number = IF f.number \in {0, Empty} THEN DefaultNumber ELSE f.number
         /\ back.snapshots = f.snapshots /\ back.responses = f.responses
         /\ back.force = f.force /\ back.readOnly = f.readOnly /\ back.writer = f.writer
<1>1. /\ f.prompt \in Prompts /\ f.number \in Numbers \cup {Empty}
      /\ f.snapshots \in BOOLEAN /\ f.responses \in BOOLEAN
      /\ f.force \in BOOLEAN /\ f.readOnly \in BOOLEAN /\ f.writer \in BOOLEAN
  BY DEF Forms
<1>2. f.force => f.readOnly = TRUE /\ f.writer = FALSE
  <2> SUFFICES ASSUME f.force PROVE f.readOnly = TRUE /\ f.writer = FALSE
    OBVIOUS
  <2>1. f = [f EXCEPT !.readOnly = TRUE, !.writer = FALSE]
    BY DEF IsNormal, Normal
  <2> QED BY <2>1 DEF Forms
<1> DEFINE c == Payload(f)
<1>3. c \in Configs
  BY FormsAreSent DEF EveryFormIsSent
<1>4. /\ c.prompt = PromptPayload(f.prompt)
      /\ c.number = IF f.number = Empty THEN DefaultNumber ELSE f.number
      /\ c.snapshots = OnOff(f.snapshots) /\ c.responses = OnOff(f.responses)
      /\ c.persist = OnOff(f.snapshots \/ f.responses) /\ c.force = OnOff(f.force)
      /\ c.readOnly = (f.force \/ f.readOnly) /\ c.writer = (~f.force /\ f.writer)
  BY DEF Payload
<1>5. c.persist \in Optional
  BY <1>3 DEF Configs
<1>6. /\ PersistenceFlag(c.snapshots, c.persist) = f.snapshots
      /\ PersistenceFlag(c.responses, c.persist) = f.responses /\ NotOff(c.force) = f.force
  BY <1>1, <1>4, <1>5, SwitchTypes
<1>7. BuildForm(c) \in Forms
  BY <1>3, BuildFormTypes
<1> HIDE DEF c
<1>8. /\ BuildForm(c).prompt = PromptFormState(c.prompt)
      /\ BuildForm(c).number = IF c.number = 0 THEN DefaultNumber ELSE c.number
      /\ BuildForm(c).snapshots = PersistenceFlag(c.snapshots, c.persist)
      /\ BuildForm(c).responses = PersistenceFlag(c.responses, c.persist)
      /\ BuildForm(c).force = NotOff(c.force)
      /\ BuildForm(c).readOnly = (NotOff(c.force) \/ c.readOnly)
      /\ BuildForm(c).writer = (~NotOff(c.force) /\ c.writer)
  BY DEF BuildForm
<1>9. BuildForm(c).number = IF f.number \in {0, Empty} THEN DefaultNumber ELSE f.number
  BY <1>4, <1>8
<1>10. BuildForm(c).readOnly = f.readOnly /\ BuildForm(c).writer = f.writer
  BY <1>1, <1>2, <1>4, <1>6, <1>8
<1> QED BY <1>4, <1>6, <1>7, <1>8, <1>9, <1>10 DEF c

\* A prompt that was sent and shown again is not changed by being sent once more.
LEMMA PromptIsKept ==
  ASSUME NEW p \in Prompts
  PROVE  LET back == PromptFormState(PromptPayload(p)) IN
         /\ back \in Prompts /\ back.prefix # Blank /\ back.blocks = Parse(p.blocks)
         /\ p.prefix # Blank => back.prefix = p.prefix
         /\ PromptFormState(PromptPayload(back)) = back
<1> DEFINE sent == PromptPayload(p)
           back == PromptFormState(sent)
<1>1. sent \in Prompts /\ sent = [p EXCEPT !.blocks = Parse(p.blocks)]
  BY PromptTypes
<1>2. sent.prefix = p.prefix /\ sent.blocks = Parse(p.blocks)
  BY <1>1 DEF Prompts
<1> HIDE DEF sent
<1>3. back \in Prompts /\ back.prefix # Blank /\ back.blocks = Parse(p.blocks)
  BY <1>1, <1>2, PromptTypes
<1>4. p.prefix # Blank => back.prefix = p.prefix
  BY <1>1, <1>2, PromptTypes
<1> HIDE DEF back
<1>5. Parse(back.blocks) = back.blocks
  BY <1>3 DEF Parse
<1>6. PromptPayload(back) = back
  <2>1. PromptPayload(back) = [back EXCEPT !.blocks = Parse(back.blocks)]
    BY <1>3, PromptTypes
  <2> QED BY <1>3, <1>5, <2>1 DEF Prompts
<1>7. PromptFormState(back) = back
  BY <1>3 DEF PromptFormState, Prompts
<1> QED BY <1>3, <1>4, <1>6, <1>7 DEF back, sent

\* A form that the forcing switch leaves alone and that is saved is shown again as
\* it is, and what is shown then comes back unchanged (buildForm after buildPayload).
THEOREM FormsComeBack == EveryFormComesBack
<1> SUFFICES ASSUME NEW f \in Forms, IsNormal(f) PROVE ComesBack(f)
  BY DEF EveryFormComesBack
<1> DEFINE back == BuildForm(Payload(f))
           again == BuildForm(Payload(back))
<1>1. /\ back \in Forms /\ IsNormal(back)
      /\ back.prompt = PromptFormState(PromptPayload(f.prompt))
      /\ back.number = IF f.number \in {0, Empty} THEN DefaultNumber ELSE f.number
      /\ back.snapshots = f.snapshots /\ back.responses = f.responses
      /\ back.force = f.force /\ back.readOnly = f.readOnly /\ back.writer = f.writer
  BY Back, FormsAreSent, BuildFormTypes DEF EveryFormIsSent
<1> HIDE DEF back
<1>2. f.prompt \in Prompts
  BY DEF Forms
<1>3. /\ back.prompt \in Prompts /\ back.prompt.blocks = Parse(f.prompt.blocks)
      /\ f.prompt.prefix # Blank => back.prompt.prefix = f.prompt.prefix
      /\ PromptFormState(PromptPayload(back.prompt)) = back.prompt
  BY <1>1, <1>2, PromptIsKept
<1>4. f.number \notin {0, Empty} => back.number = f.number
  BY <1>1
<1>5. back.number \notin {0, Empty}
  BY <1>1, FormAssumption
<1>6. back = [f EXCEPT !.prompt = [back.prompt EXCEPT !.blocks = Parse(f.prompt.blocks)],
                       !.number = back.number]
  <2>1. [back.prompt EXCEPT !.blocks = Parse(f.prompt.blocks)] = back.prompt
    BY <1>3 DEF Prompts
  <2>2. back = [f EXCEPT !.prompt = back.prompt, !.number = back.number]
    BY <1>1 DEF Forms
  <2> QED BY <2>1, <2>2
<1>7. again = back
  <2>1. /\ again \in Forms
        /\ again.prompt = PromptFormState(PromptPayload(back.prompt))
        /\ again.number = IF back.number \in {0, Empty} THEN DefaultNumber ELSE back.number
        /\ again.snapshots = back.snapshots /\ again.responses = back.responses
        /\ again.force = back.force /\ again.readOnly = back.readOnly
        /\ again.writer = back.writer
    BY <1>1, Back
  <2> HIDE DEF again
  <2>2. again.prompt = back.prompt /\ again.number = back.number
    BY <1>3, <1>5, <2>1
  <2> QED BY <1>1, <2>1, <2>2 DEF Forms
<1> QED BY <1>3, <1>4, <1>6, <1>7 DEF ComesBack, back

-----------------------------------------------------------------------------
(* The inductive invariant *)

\* What a form without edits may show.
Held == accepted \cup {dropped}

\* A mounted panel shows a normalised form over a baseline out of S.
GoodPanel(p, S) == p \in Panels /\ IsNormal(p.form) /\ p.baseline \in S

\* What a request in flight carries: a form while its panel is there, a
\* configuration between its read and its landing, and, once the save of a form has
\* been carried out, a form that the server has held.
GoodTask(x, S) ==
  /\ x \in TaskRecords
  /\ x.own => x.form \in Forms /\ x.pc # "idle"
  /\ x.pc = "call" /\ x.op = "save" => x.form \in Forms
  /\ x.pc = "call" /\ x.op = "import" => x.got \in Configs
  /\ x.pc = "read" => x.got \in Configs /\ BuildForm(x.got) \in S
  /\ x.own /\ x.op = "save" /\ x.pc # "call" => x.form \in S

\* Beside CleanIsKept: the baseline has been held, whether there are edits or not,
\* and a panel without edits shows what was adopted, or else the next render adopts.
PanelIsGood == panel # NoPanel => GoodPanel(panel, Held) /\ (Dirty(panel) \/ panel.adopted)

\* A request with a captured form has its panel: one that was unmounted has taken
\* the form along.
TasksAreGood == \A t \in Tasks: GoodTask(task[t], accepted) /\ (task[t].own => panel # NoPanel)

\* What the server stores and what the shell has loaded were held.
ConfigIsHeld ==
  /\ BuildForm(stored) \in accepted
  /\ config # NoConfig => BuildForm(config) \in accepted

\* The panel is mounted exactly when the shell shows it, and the shell's flag of
\* unsaved edits is the panel's.
ScreenIsRight ==
  /\ panel # NoPanel <=> Shown(verify, config, tab)
  /\ flag <=> panel # NoPanel /\ Dirty(panel)

\* What every step keeps.
IInv == TypeOK /\ PanelIsGood /\ TasksAreGood /\ ConfigIsHeld /\ ScreenIsRight /\ BusyHasTask

\* The fields of a panel.
LEMMA PanelTypes ==
  ASSUME NEW p \in Panels
  PROVE  p.form \in Forms /\ p.baseline \in Forms /\ p.adopted \in BOOLEAN /\ p.saving \in BOOLEAN
BY DEF Panels

\* A panel that is mounted or synced with a configuration has no edits and a
\* baseline that the configuration shows.
LEMMA SyncedIsGood ==
  ASSUME NEW c \in Configs, NEW b \in BOOLEAN, NEW S, BuildForm(c) \in S
  PROVE  /\ GoodPanel(Synced(c, b), S) /\ Synced(c, b).adopted = TRUE /\ Synced(c, b).saving = b
         /\ ~Dirty(Synced(c, b))
<1>1. BuildForm(c) \in Forms /\ Normal(BuildForm(c)) = BuildForm(c)
  BY BuildFormTypes DEF IsNormal
<1>2. Synced(c, b) = [form |-> BuildForm(c), baseline |-> BuildForm(c),
                      adopted |-> TRUE, saving |-> b]
  BY <1>1 DEF Synced
<1> QED BY <1>1, <1>2 DEF GoodPanel, Panels, IsNormal, Dirty

\* A panel and tasks that a handler may leave to a render.
GoodConsole(p, ts, held, acc, busy) ==
  /\ p = NoPanel \/ GoodPanel(p, held)
  /\ ts \in [Tasks -> TaskRecords] /\ \A t \in Tasks: GoodTask(ts[t], acc)
  /\ busy => \E t \in Tasks: ts[t].pc \notin {"idle", "call"}
  /\ p # NoPanel /\ p.saving => \E t \in Tasks: ts[t].own /\ ts[t].op = "save"

\* What a render does not touch.
GoodRest ==
  /\ session \in {"in", "out"} /\ stored \in Configs
  /\ verify \in {"none", "in", "out"} /\ config \in Configs \cup {NoConfig}
  /\ loading \in BOOLEAN /\ tab \in Tabs
  /\ accepted \subseteq Forms /\ dropped \in Forms \cup {NoForm}
  /\ ConfigIsHeld

\* A render mounts the panel when the shell shows it, keeps a panel with edits as it
\* is, and adopts the configuration into one without.
LEMMA RenderedIsGood ==
  ASSUME NEW S, NEW p, p = NoPanel \/ GoodPanel(p, S), NEW v, NEW tb,
         NEW c \in Configs \cup {NoConfig}, c # NoConfig => BuildForm(c) \in S
  PROVE  LET q == Rendered(p, v, c, tb) IN
         /\ q # NoPanel <=> Shown(v, c, tb)
         /\ q # NoPanel => GoodPanel(q, S) /\ (Dirty(q) \/ q.adopted)
         /\ q # NoPanel /\ q.saving => p # NoPanel /\ p.saving
         /\ q # NoPanel /\ p # NoPanel /\ Dirty(p) => q = p
<1> DEFINE q == Rendered(p, v, c, tb)
<1>1. CASE ~Shown(v, c, tb)
  <2>1. q = NoPanel
    BY <1>1 DEF Rendered
  <2> QED BY <1>1, <2>1
<1>2. CASE Shown(v, c, tb) /\ p = NoPanel
  <2>1. c \in Configs /\ BuildForm(c) \in S
    BY <1>2 DEF Shown
  <2>2. q = Synced(c, FALSE)
    BY <1>2 DEF Rendered
  <2>3. GoodPanel(q, S) /\ q.adopted = TRUE /\ q.saving = FALSE
    BY <2>1, <2>2, SyncedIsGood
  <2>4. q # NoPanel
    BY <2>3, UnmountedAssumption DEF GoodPanel
  <2> QED BY <1>2, <2>3, <2>4
<1>3. CASE Shown(v, c, tb) /\ p # NoPanel
  <2>1. c \in Configs /\ BuildForm(c) \in S /\ GoodPanel(p, S)
    BY <1>3 DEF Shown
  <2>2. q = Adopt(p, c)
    BY <1>3 DEF Rendered
  <2>3. CASE Dirty(p) \/ p.adopted
    <3>1. q = p
      BY <2>2, <2>3 DEF Adopt
    <3> QED BY <1>3, <2>1, <2>3, <3>1
  <2>4. CASE ~(Dirty(p) \/ p.adopted)
    <3>1. q = Synced(c, p.saving)
      BY <2>2, <2>4 DEF Adopt
    <3>2. p.saving \in BOOLEAN
      BY <2>1, PanelTypes DEF GoodPanel
    <3>3. GoodPanel(q, S) /\ q.adopted = TRUE /\ q.saving = p.saving
      BY <2>1, <3>1, <3>2, SyncedIsGood
    <3>4. q # NoPanel
      BY <3>3, UnmountedAssumption DEF GoodPanel
    <3> QED BY <1>3, <2>4, <3>3, <3>4
  <2> QED BY <2>3, <2>4
<1> QED BY <1>1, <1>2, <1>3

\* A request that loses its panel keeps its stage and gives up its form.
LEMMA KeptIsGood ==
  ASSUME NEW S, NEW x, GoodTask(x, S), NEW mounted \in BOOLEAN
  PROVE  /\ GoodTask(Kept(x, mounted), S)
         /\ Kept(x, mounted).own => mounted
         /\ Kept(x, mounted).pc = x.pc
         /\ mounted /\ x.own => Kept(x, mounted).own /\ Kept(x, mounted).op = x.op
<1>1. x \in TaskRecords /\ x.own \in BOOLEAN
  BY DEF GoodTask, TaskRecords
<1> DEFINE own == x.own /\ mounted
<1>2. own \in BOOLEAN
  BY <1>1
<1>3. CASE own \/ x.pc \in {"idle", "call"}
  <2>1. Kept(x, mounted) = [x EXCEPT !.own = own]
    BY <1>3 DEF Kept
  <2> HIDE DEF own
  <2>2. /\ Kept(x, mounted) \in TaskRecords /\ Kept(x, mounted).own = own
        /\ Kept(x, mounted).pc = x.pc /\ Kept(x, mounted).op = x.op
        /\ Kept(x, mounted).form = x.form /\ Kept(x, mounted).got = x.got
    BY <1>1, <1>2, <2>1 DEF TaskRecords
  <2> QED BY <1>1, <2>2 DEF GoodTask, own
<1>4. CASE ~(own \/ x.pc \in {"idle", "call"})
  <2>1. Kept(x, mounted) = [x EXCEPT !.own = FALSE, !.form = NoForm,
                                     !.op = IF x.op = "login" THEN x.op ELSE "resync"]
    BY <1>4 DEF Kept
  <2>2. /\ Kept(x, mounted) \in TaskRecords /\ Kept(x, mounted).own = FALSE
        /\ Kept(x, mounted).pc = x.pc /\ Kept(x, mounted).got = x.got
    BY <1>1, <2>1 DEF TaskRecords, Ops
  <2> QED BY <1>1, <1>4, <2>2 DEF GoodTask
<1> QED BY <1>3, <1>4

\* The same, with and without the panel.
LEMMA KeptEither ==
  ASSUME NEW S, NEW x, GoodTask(x, S)
  PROVE  /\ GoodTask(Kept(x, TRUE), S) /\ Kept(x, TRUE).pc = x.pc
         /\ x.own => Kept(x, TRUE).own /\ Kept(x, TRUE).op = x.op
         /\ GoodTask(Kept(x, FALSE), S) /\ Kept(x, FALSE).pc = x.pc
         /\ ~Kept(x, FALSE).own
<1>1. TRUE \in BOOLEAN /\ FALSE \in BOOLEAN
  OBVIOUS
<1> QED BY <1>1, KeptIsGood

\* A render after a handler that leaves a good panel and good tasks establishes the
\* invariant, and leaves a panel with edits as it is.
LEMMA RenderKeeps ==
  ASSUME NEW p, NEW ts, Render(p, ts), GoodRest',
         GoodConsole(p, ts, Held', accepted', loading')
  PROVE  /\ IInv'
         /\ p # NoPanel /\ panel' # NoPanel /\ Dirty(p) => panel' = p
<1>1. /\ panel' = Rendered(p, verify', config', tab')
      /\ flag' = (panel' # NoPanel /\ Dirty(panel'))
      /\ task' = [t \in Tasks |-> Kept(ts[t], panel' # NoPanel)]
  BY DEF Render
<1>2. /\ config' \in Configs \cup {NoConfig}
      /\ config' # NoConfig => BuildForm(config') \in Held'
      /\ p = NoPanel \/ GoodPanel(p, Held')
  BY DEF GoodRest, ConfigIsHeld, Held, GoodConsole
<1>3. /\ panel' # NoPanel <=> Shown(verify', config', tab')
      /\ panel' # NoPanel => GoodPanel(panel', Held') /\ (Dirty(panel') \/ panel'.adopted)
      /\ panel' # NoPanel /\ panel'.saving => p # NoPanel /\ p.saving
      /\ panel' # NoPanel /\ p # NoPanel /\ Dirty(p) => panel' = p
  <2> DEFINE q == Rendered(p, verify', config', tab')
  <2>1. /\ q # NoPanel <=> Shown(verify', config', tab')
        /\ q # NoPanel => GoodPanel(q, Held') /\ (Dirty(q) \/ q.adopted)
        /\ q # NoPanel /\ q.saving => p # NoPanel /\ p.saving
        /\ q # NoPanel /\ p # NoPanel /\ Dirty(p) => q = p
    BY <1>2, RenderedIsGood
  <2>2. panel' = q
    BY <1>1
  <2> HIDE DEF q
  <2> QED BY <2>1, <2>2
<1>4. \A t \in Tasks: /\ task'[t] = Kept(ts[t], panel' # NoPanel) /\ GoodTask(ts[t], accepted')
                      /\ GoodTask(task'[t], accepted') /\ (task'[t].own => panel' # NoPanel)
                      /\ task'[t].pc = ts[t].pc
                      /\ panel' # NoPanel /\ ts[t].own => task'[t].own /\ task'[t].op = ts[t].op
  <2> SUFFICES ASSUME NEW t \in Tasks
               PROVE  /\ task'[t] = Kept(ts[t], panel' # NoPanel) /\ GoodTask(ts[t], accepted')
                      /\ GoodTask(task'[t], accepted') /\ (task'[t].own => panel' # NoPanel)
                      /\ task'[t].pc = ts[t].pc
                      /\ panel' # NoPanel /\ ts[t].own => task'[t].own /\ task'[t].op = ts[t].op
    OBVIOUS
  <2>1. task'[t] = Kept(ts[t], panel' # NoPanel) /\ GoodTask(ts[t], accepted')
    BY <1>1 DEF GoodConsole
  <2>2. CASE panel' # NoPanel
    <3>1. task'[t] = Kept(ts[t], TRUE)
      BY <2>1, <2>2 DEF Kept
    <3>2. /\ GoodTask(task'[t], accepted') /\ task'[t].pc = ts[t].pc
          /\ ts[t].own => task'[t].own /\ task'[t].op = ts[t].op
      <4>1. /\ GoodTask(Kept(ts[t], TRUE), accepted') /\ Kept(ts[t], TRUE).pc = ts[t].pc
            /\ ts[t].own => Kept(ts[t], TRUE).own /\ Kept(ts[t], TRUE).op = ts[t].op
        BY <2>1, KeptEither
      <4> QED BY <3>1, <4>1
    <3> QED BY <2>1, <2>2, <3>2
  <2>3. CASE panel' = NoPanel
    <3>1. task'[t] = Kept(ts[t], FALSE)
      BY <2>1, <2>3 DEF Kept
    <3>2. /\ GoodTask(task'[t], accepted') /\ task'[t].pc = ts[t].pc /\ ~task'[t].own
      <4>1. /\ GoodTask(Kept(ts[t], FALSE), accepted') /\ Kept(ts[t], FALSE).pc = ts[t].pc
            /\ ~Kept(ts[t], FALSE).own
        BY <2>1, KeptEither
      <4> QED BY <3>1, <4>1
    <3> QED BY <2>1, <2>3, <3>2
  <2> QED BY <2>2, <2>3
<1>5. PanelIsGood' /\ ScreenIsRight'
  BY <1>1, <1>3 DEF PanelIsGood, ScreenIsRight
<1>6. TasksAreGood'
  BY <1>4 DEF TasksAreGood
<1>7. BusyHasTask'
  <2>1. ASSUME loading' PROVE \E t \in Tasks: task'[t].pc \notin {"idle", "call"}
    BY <1>4, <2>1 DEF GoodConsole
  <2>2. ASSUME panel' # NoPanel, panel'.saving
        PROVE  \E t \in Tasks: task'[t].own /\ task'[t].op = "save"
    <3>1. PICK t \in Tasks: ts[t].own /\ ts[t].op = "save"
      BY <1>3, <2>2 DEF GoodConsole
    <3> QED BY <1>4, <2>2, <3>1
  <2> QED BY <2>1, <2>2 DEF BusyHasTask
<1>8. TypeOK'
  <2>1. task' \in [Tasks -> TaskRecords]
    BY <1>1, <1>4 DEF GoodTask
  <2>2. panel' = NoPanel \/ panel' \in Panels
    BY <1>3 DEF GoodPanel
  <2>3. flag' \in BOOLEAN
    BY <1>1
  <2>4. EveryFormIsSent
    BY FormsAreSent
  <2> QED BY <2>1, <2>2, <2>3, <2>4 DEF TypeOK, GoodRest
<1> QED BY <1>3, <1>5, <1>6, <1>7, <1>8 DEF IInv, GoodRest

\* A request that begins carries what its stage needs.
LEMMA StartedIsGood ==
  ASSUME NEW S
  PROVE  /\ GoodTask(Idle, S) /\ GoodTask(Started("resync", "verify", NoConfig, NoForm), S)
         /\ GoodTask(Started("login", "call", NoConfig, NoForm), S)
         /\ GoodTask(Started("logout", "call", NoConfig, NoForm), S)
         /\ \A f \in Forms: /\ GoodTask(Started("save", "call", NoConfig, f), S)
                            /\ Started("save", "call", NoConfig, f).own
         /\ \A f \in Forms, c \in Configs: GoodTask(Started("import", "call", c, f), S)
BY ConsoleAssumption DEF GoodTask, Idle, Started, TaskRecords, Ops

\* What was good for the forms held so far is good for more of them.
LEMMA GrowingIsGood ==
  ASSUME NEW A, NEW B, A \subseteq B
  PROVE  /\ \A x: GoodTask(x, A) => GoodTask(x, B)
         /\ \A p: GoodPanel(p, A) => GoodPanel(p, B)
BY DEF GoodTask, GoodPanel

\* The invariant gives a handler a good console to begin with.
LEMMA ConsoleStays ==
  ASSUME IInv PROVE GoodRest /\ GoodConsole(panel, task, Held, accepted, loading)
BY DEF IInv, TypeOK, PanelIsGood, TasksAreGood, BusyHasTask, GoodRest, GoodConsole

\* A request begun by a free task leaves good tasks.
LEMMA StartKeeps ==
  ASSUME IInv, NEW t \in Tasks, At(t, "idle"), NEW x, GoodTask(x, accepted)
  PROVE  GoodConsole(panel, Start(t, x), Held, accepted, loading)
<1>1. /\ panel = NoPanel \/ GoodPanel(panel, Held)
      /\ task \in [Tasks -> TaskRecords] /\ \A u \in Tasks: GoodTask(task[u], accepted)
      /\ loading => \E u \in Tasks: task[u].pc \notin {"idle", "call"}
      /\ panel # NoPanel /\ panel.saving => \E u \in Tasks: task[u].own /\ task[u].op = "save"
  BY ConsoleStays DEF GoodConsole
<1>2. task[t].pc = "idle" /\ ~task[t].own /\ x \in TaskRecords
  BY <1>1 DEF At, GoodTask
<1>3. \A u \in Tasks: Start(t, x)[u] = IF u = t THEN x ELSE task[u]
  BY <1>1 DEF Start
<1>4. Start(t, x) \in [Tasks -> TaskRecords]
  BY <1>1, <1>2 DEF Start
<1>5. \A u \in Tasks: GoodTask(Start(t, x)[u], accepted)
  BY <1>1, <1>3
<1>6. loading => \E u \in Tasks: Start(t, x)[u].pc \notin {"idle", "call"}
  BY <1>1, <1>2, <1>3
<1>7. panel # NoPanel /\ panel.saving =>
        \E u \in Tasks: Start(t, x)[u].own /\ Start(t, x)[u].op = "save"
  BY <1>1, <1>2, <1>3
<1> QED BY <1>1, <1>4, <1>5, <1>6, <1>7 DEF GoodConsole

\* A call that the server carries out leaves a configuration whose form is held;
\* what was held before stays so.
LEMMA EffectKeeps ==
  ASSUME IInv, NEW t \in Tasks, At(t, "call"), Effect(t) \/ UNCHANGED server
  PROVE  /\ session' \in {"in", "out"} /\ stored' \in Configs /\ accepted' \subseteq Forms
         /\ BuildForm(stored') \in accepted' /\ accepted \subseteq accepted'
         /\ Effect(t) /\ task[t].op = "save" => task[t].form \in accepted'
<1>1. /\ session \in {"in", "out"} /\ stored \in Configs /\ accepted \subseteq Forms
      /\ BuildForm(stored) \in accepted
  BY ConsoleStays DEF GoodRest, ConfigIsHeld
<1>2. /\ task[t].op = "save" => task[t].form \in Forms
      /\ task[t].op = "import" => task[t].got \in Configs
  BY DEF At, IInv, TasksAreGood, GoodTask
<1>3. CASE UNCHANGED server /\ ~Effect(t)
  BY <1>1, <1>3 DEF server
<1>4. CASE task[t].op \in {"login", "logout"} /\ Effect(t)
  BY <1>1, <1>4 DEF Effect
<1>5. CASE task[t].op = "save" /\ Effect(t)
  <2>1. /\ stored' = Payload(task[t].form) /\ session' = session
        /\ accepted' = accepted \cup {task[t].form, BuildForm(stored')}
    BY <1>5 DEF Effect
  <2>2. stored' \in Configs
    BY <1>2, <1>5, <2>1, FormsAreSent DEF EveryFormIsSent
  <2>3. BuildForm(stored') \in Forms
    BY <2>2, BuildFormTypes
  <2> QED BY <1>1, <1>2, <1>5, <2>1, <2>2, <2>3
<1>6. CASE task[t].op = "import" /\ Effect(t)
  <2>1. /\ stored' = task[t].got /\ session' = session
        /\ accepted' = accepted \cup {BuildForm(task[t].got)}
    BY <1>6 DEF Effect
  <2>2. BuildForm(stored') \in Forms
    BY <1>2, <1>6, <2>1, BuildFormTypes
  <2> QED BY <1>1, <1>2, <1>6, <2>1, <2>2
<1> QED BY <1>3, <1>4, <1>5, <1>6 DEF Effect

\* What a save or an import does to its panel at the end leaves it good: the new
\* baseline is the form that was sent, which has been held, or given up by an import.
LEMMA TailIsGood ==
  ASSUME IInv, NEW t \in Tasks, task[t].pc \notin {"idle", "call"},
         accepted' = accepted,
         dropped' = IF task[t].own /\ task[t].op = "import" THEN task[t].form ELSE dropped
  PROVE  /\ dropped' \in Forms \cup {NoForm}
         /\ GoodConsole(Tail(t), Start(t, Idle), Held', accepted', FALSE)
<1>1. /\ panel = NoPanel \/ GoodPanel(panel, Held)
      /\ task \in [Tasks -> TaskRecords] /\ \A u \in Tasks: GoodTask(task[u], accepted)
      /\ panel # NoPanel /\ panel.saving => \E u \in Tasks: task[u].own /\ task[u].op = "save"
      /\ dropped \in Forms \cup {NoForm}
  BY ConsoleStays DEF GoodConsole, GoodRest
<1>2. task[t].own => GoodPanel(panel, Held) /\ panel # NoPanel /\ task[t].form \in Forms
  BY <1>1 DEF IInv, TasksAreGood, GoodTask
<1>3. dropped' \in Forms \cup {NoForm}
  BY <1>1, <1>2
<1>4. \A u \in Tasks: Start(t, Idle)[u] = IF u = t THEN Idle ELSE task[u]
  BY <1>1 DEF Start
<1>5. Start(t, Idle) \in [Tasks -> TaskRecords]
  BY <1>1, StartedIsGood DEF Start, GoodTask
<1>6. \A u \in Tasks: GoodTask(Start(t, Idle)[u], accepted')
  BY <1>1, <1>4, StartedIsGood
<1>7. CASE task[t].own /\ task[t].op = "save"
  <2>1. Tail(t) = [panel EXCEPT !.baseline = task[t].form, !.saving = FALSE]
    BY <1>7 DEF Tail
  <2>2. task[t].form \in Held' /\ panel \in Panels /\ IsNormal(panel.form)
    BY <1>1, <1>2, <1>7 DEF GoodTask, GoodPanel, Held
  <2>3. GoodPanel(Tail(t), Held') /\ Tail(t).saving = FALSE
    <3>1. /\ Tail(t) \in Panels /\ Tail(t).form = panel.form
          /\ Tail(t).baseline = task[t].form /\ Tail(t).saving = FALSE
      BY <1>2, <1>7, <2>1, <2>2 DEF Panels
    <3> QED BY <2>2, <3>1 DEF GoodPanel
  <2> QED BY <1>3, <1>5, <1>6, <2>3 DEF GoodConsole
<1>8. CASE task[t].own /\ task[t].op = "import"
  <2>1. Tail(t) = [panel EXCEPT !.baseline = task[t].form]
    BY <1>8 DEF Tail
  <2>2. task[t].form \in Held' /\ panel \in Panels /\ IsNormal(panel.form)
    BY <1>2, <1>8 DEF GoodPanel, Held
  <2>3. GoodPanel(Tail(t), Held') /\ Tail(t).saving = panel.saving
    <3>1. /\ Tail(t) \in Panels /\ Tail(t).form = panel.form
          /\ Tail(t).baseline = task[t].form /\ Tail(t).saving = panel.saving
      BY <1>2, <1>8, <2>1, <2>2 DEF Panels
    <3> QED BY <2>2, <3>1 DEF GoodPanel
  <2>4. panel.saving => \E u \in Tasks: Start(t, Idle)[u].own /\ Start(t, Idle)[u].op = "save"
    BY <1>1, <1>2, <1>4, <1>8
  <2> QED BY <1>3, <1>5, <1>6, <2>3, <2>4 DEF GoodConsole
<1>9. CASE ~(task[t].own /\ task[t].op \in {"save", "import"})
  <2>1. Tail(t) = panel
    BY <1>9 DEF Tail
  <2>2. Held' = Held
    BY <1>9 DEF Held
  <2>3. panel # NoPanel /\ panel.saving =>
          \E u \in Tasks: Start(t, Idle)[u].own /\ Start(t, Idle)[u].op = "save"
    BY <1>1, <1>4, <1>9
  <2> QED BY <1>1, <1>3, <1>5, <1>6, <2>1, <2>2, <2>3 DEF GoodConsole
<1> QED BY <1>7, <1>8, <1>9

-----------------------------------------------------------------------------
(* Every step *)

\* A handler that leaves the server and the shell alone.
LEMMA QuietStep ==
  ASSUME IInv, NEW p, NEW ts, Render(p, ts), GoodConsole(p, ts, Held, accepted, loading),
         UNCHANGED <<verify, config, loading, tab, server, dropped>>
  PROVE  IInv'
<1>1. GoodRest' /\ Held' = Held /\ accepted' = accepted /\ loading' = loading
  BY ConsoleStays DEF GoodRest, ConfigIsHeld, Held, server
<1> QED BY <1>1, RenderKeeps

\* The panel with another form.
LEMMA FormStep ==
  ASSUME IInv, panel # NoPanel, NEW f \in Forms
  PROVE  GoodConsole([panel EXCEPT !.form = Normal(f)], task, Held, accepted, loading)
<1>1. GoodPanel(panel, Held) /\ GoodConsole(panel, task, Held, accepted, loading)
  BY ConsoleStays DEF IInv, PanelIsGood
<1>2. Normal(f) \in Forms /\ IsNormal(Normal(f))
  BY NormalTypes
<1> DEFINE p == [panel EXCEPT !.form = Normal(f)]
<1>3. p \in Panels /\ p.form = Normal(f) /\ p.baseline = panel.baseline /\ p.saving = panel.saving
  BY <1>1, <1>2 DEF GoodPanel, Panels
<1> HIDE DEF p
<1> QED BY <1>1, <1>2, <1>3 DEF GoodPanel, GoodConsole, p

\* The steps of the operator.
LEMMA OperatorStep == IInv /\ Operator => IInv'
<1> SUFFICES ASSUME IInv, Operator PROVE IInv'
  OBVIOUS
<1>1. ASSUME NEW tb \in Tabs, NEW confirmed \in BOOLEAN, SelectTab(tb, confirmed)
      PROVE  IInv'
  <2>1. GoodRest' /\ Held' = Held /\ accepted' = accepted /\ loading' = loading
    BY <1>1, ConsoleStays DEF SelectTab, GoodRest, ConfigIsHeld, Held, server
  <2> QED BY <1>1, <2>1, ConsoleStays, RenderKeeps DEF SelectTab
<1>2. ASSUME NEW f \in Typed, Type(f) PROVE IInv'
  <2>1. f \in Forms
    BY ConsoleAssumption
  <2> QED BY <1>2, <2>1, FormStep, QuietStep DEF Type
<1>3. ASSUME NEW prompt \in Strategies, ImportStrategy(prompt) PROVE IInv'
  <2>1. panel.form \in Forms
    BY <1>3, PanelTypes DEF ImportStrategy, IInv, PanelIsGood, GoodPanel
  <2>2. ApplyPromptStrategy(panel.form, prompt) \in Forms
    BY <2>1, ApplyTypes, ConsoleAssumption
  <2>3. Render([panel EXCEPT !.form = Normal(ApplyPromptStrategy(panel.form, prompt))], task)
    BY <1>3 DEF ImportStrategy
  <2> QED BY <1>3, <2>2, <2>3, FormStep, QuietStep DEF ImportStrategy
<1>4. ASSUME Discard PROVE IInv'
  <2>1. config \in Configs /\ BuildForm(config) \in Held
    BY <1>4 DEF Discard, IInv, TypeOK, ScreenIsRight, Shown, ConfigIsHeld, Held
  <2>2. GoodPanel(Synced(config, FALSE), Held) /\ Synced(config, FALSE).saving = FALSE
    BY <2>1, SyncedIsGood
  <2>3. GoodConsole(Synced(config, FALSE), task, Held, accepted, loading)
    BY <2>2, ConsoleStays DEF GoodConsole
  <2> QED BY <1>4, <2>3, QuietStep DEF Discard
<1>5. ASSUME NEW t \in Tasks, Save(t) PROVE IInv'
  <2> DEFINE x == Started("save", "call", NoConfig, panel.form)
             p == [panel EXCEPT !.saving = TRUE]
  <2>1. GoodPanel(panel, Held) /\ panel \in Panels /\ panel.form \in Forms
    BY <1>5, PanelTypes DEF Save, IInv, PanelIsGood, GoodPanel
  <2>2. GoodTask(x, accepted) /\ x.own
    BY <2>1, StartedIsGood
  <2>3. GoodConsole(panel, Start(t, x), Held, accepted, loading)
    BY <1>5, <2>2, StartKeeps DEF Save
  <2>4. GoodPanel(p, Held)
    BY <2>1 DEF GoodPanel, Panels
  <2>5. Start(t, x)[t] = x /\ x.op = "save"
    BY DEF Start, IInv, TypeOK, Started
  <2> HIDE DEF x, p
  <2>6. GoodConsole(p, Start(t, x), Held, accepted, loading)
    BY <2>2, <2>3, <2>4, <2>5 DEF GoodConsole
  <2>7. Render(p, Start(t, x)) /\ UNCHANGED <<verify, config, loading, tab, server, dropped>>
    BY <1>5 DEF Save, p, x
  <2> QED BY <2>6, <2>7, QuietStep
<1>6. ASSUME NEW t \in Tasks, NEW c \in Stored, Import(t, c) PROVE IInv'
  <2>1. panel.form \in Forms /\ c \in Configs
    BY <1>6, PanelTypes, ConsoleAssumption DEF Import, IInv, PanelIsGood, GoodPanel
  <2>2. GoodTask(Started("import", "call", c, panel.form), accepted)
    BY <2>1, StartedIsGood
  <2> QED BY <1>6, <2>2, StartKeeps, QuietStep DEF Import
<1>7. ASSUME NEW t \in Tasks, Resync(t) PROVE IInv'
  <2> DEFINE x == Started("resync", "verify", NoConfig, NoForm)
  <2>1. GoodTask(x, accepted)
    BY StartedIsGood
  <2>2. GoodConsole(panel, Start(t, x), Held, accepted, loading)
    BY <1>7, <2>1, StartKeeps DEF Resync
  <2>3. Start(t, x)[t].pc = "verify"
    BY DEF Start, IInv, TypeOK, Started
  <2>4. /\ loading' = TRUE /\ Render(panel, Start(t, x))
        /\ UNCHANGED <<verify, config, tab, server, dropped>>
    BY <1>7 DEF Resync
  <2>5. GoodRest' /\ Held' = Held /\ accepted' = accepted
    BY <2>4, ConsoleStays DEF GoodRest, ConfigIsHeld, Held, server
  <2> HIDE DEF x
  <2>6. GoodConsole(panel, Start(t, x), Held', accepted', loading')
    BY <2>2, <2>3, <2>5 DEF GoodConsole
  <2> QED BY <2>4, <2>5, <2>6, RenderKeeps
<1>8. ASSUME NEW t \in Tasks, Login(t) PROVE IInv'
  BY <1>8, StartedIsGood, StartKeeps, QuietStep DEF Login
<1>9. ASSUME NEW t \in Tasks, NEW confirmed \in BOOLEAN, Logout(t, confirmed) PROVE IInv'
  BY <1>9, StartedIsGood, StartKeeps, QuietStep DEF Logout
<1> QED
  BY <1>1, <1>2, <1>3, <1>4, <1>5, <1>6, <1>7, <1>8, <1>9 DEF Operator

\* A request goes on to its next stage.
LEMMA AdvanceKeeps ==
  ASSUME IInv, NEW t \in Tasks, NEW A, accepted \subseteq A,
         NEW x, GoodTask(x, A), x.pc \notin {"idle", "call"},
         x.own = task[t].own, x.op = task[t].op
  PROVE  /\ GoodConsole(panel, [task EXCEPT ![t] = x], A \cup {dropped}, A, TRUE)
         /\ [task EXCEPT ![t] = x][t] = x
<1> DEFINE ts == [task EXCEPT ![t] = x]
<1>1. /\ panel = NoPanel \/ GoodPanel(panel, Held)
      /\ task \in [Tasks -> TaskRecords] /\ \A u \in Tasks: GoodTask(task[u], accepted)
      /\ panel # NoPanel /\ panel.saving => \E u \in Tasks: task[u].own /\ task[u].op = "save"
  BY ConsoleStays DEF GoodConsole
<1>2. panel = NoPanel \/ GoodPanel(panel, A \cup {dropped})
  BY <1>1 DEF GoodPanel, Held
<1>3. \A u \in Tasks: ts[u] = IF u = t THEN x ELSE task[u]
  BY <1>1
<1>4. ts \in [Tasks -> TaskRecords]
  BY <1>1 DEF GoodTask
<1>5. \A u \in Tasks: GoodTask(ts[u], A)
  BY <1>1, <1>3, GrowingIsGood
<1>6. panel # NoPanel /\ panel.saving => \E u \in Tasks: ts[u].own /\ ts[u].op = "save"
  BY <1>1, <1>3
<1>7. \E u \in Tasks: ts[u].pc \notin {"idle", "call"}
  BY <1>3
<1> QED BY <1>2, <1>3, <1>4, <1>5, <1>6, <1>7 DEF GoodConsole

\* An answer is computed; nothing lands yet.
LEMMA AnswerStep ==
  ASSUME IInv, NEW t \in Tasks, NEW x, GoodTask(x, accepted), x.pc \notin {"idle", "call"},
         x.own = task[t].own, x.op = task[t].op, task' = [task EXCEPT ![t] = x],
         UNCHANGED <<verify, config, loading, tab, flag, panel, server, dropped>>
  PROVE  IInv'
<1>1. GoodConsole(panel, task', Held, accepted, TRUE) /\ task'[t] = x
  BY AdvanceKeeps DEF Held
<1>2. \A u \in Tasks: task'[u].own => panel # NoPanel
  BY DEF IInv, TasksAreGood
<1>3. PanelIsGood' /\ ScreenIsRight' /\ ConfigIsHeld'
  BY DEF IInv, PanelIsGood, ScreenIsRight, ConfigIsHeld, Held, server
<1>4. TasksAreGood'
  BY <1>1, <1>2 DEF GoodConsole, TasksAreGood, server
<1>5. TypeOK'
  BY <1>1 DEF IInv, TypeOK, GoodConsole, server
<1>6. BusyHasTask'
  BY <1>1 DEF GoodConsole, BusyHasTask
<1> QED BY <1>3, <1>4, <1>5, <1>6 DEF IInv

\* A call has succeeded and its refresh begins.
LEMMA CallStep ==
  ASSUME IInv, NEW t \in Tasks, Call(t) PROVE IInv'
<1> DEFINE x == [task[t] EXCEPT !.pc = "verify", !.got = NoConfig]
<1>1. At(t, "call") /\ Effect(t) /\ loading' = TRUE /\ UNCHANGED <<verify, config, tab, dropped>>
  BY DEF Call
<1>2. /\ session' \in {"in", "out"} /\ stored' \in Configs /\ accepted' \subseteq Forms
      /\ BuildForm(stored') \in accepted' /\ accepted \subseteq accepted'
      /\ task[t].op = "save" => task[t].form \in accepted'
  BY <1>1, EffectKeeps
<1>3. GoodRest'
  BY <1>1, <1>2, ConsoleStays DEF GoodRest, ConfigIsHeld
<1>4. GoodTask(task[t], accepted) /\ task[t].pc = "call"
  BY <1>1 DEF IInv, TasksAreGood, At
<1>5. GoodTask(x, accepted') /\ x.pc = "verify" /\ x.own = task[t].own /\ x.op = task[t].op
  <2>1. /\ x \in TaskRecords /\ x.pc = "verify" /\ x.own = task[t].own /\ x.op = task[t].op
        /\ x.form = task[t].form
    BY <1>4 DEF GoodTask, TaskRecords
  <2> HIDE DEF x
  <2> QED BY <1>2, <1>4, <2>1 DEF GoodTask
<1>6. Render(panel, [task EXCEPT ![t] = x])
  BY DEF Call
<1> HIDE DEF x
<1>7. GoodConsole(panel, [task EXCEPT ![t] = x], accepted' \cup {dropped}, accepted', TRUE)
  BY <1>2, <1>5, AdvanceKeeps
<1>8. GoodConsole(panel, [task EXCEPT ![t] = x], Held', accepted', loading')
  BY <1>1, <1>7 DEF Held
<1> QED BY <1>3, <1>6, <1>8, RenderKeeps

\* A call is refused or its answer is lost.
LEMMA CallFailsStep ==
  ASSUME IInv, NEW t \in Tasks, CallFails(t) PROVE IInv'
<1> DEFINE saver == task[t].own /\ task[t].op = "save"
           p == IF saver THEN [panel EXCEPT !.saving = FALSE] ELSE panel
<1>1. /\ At(t, "call") /\ (Effect(t) \/ UNCHANGED server)
      /\ UNCHANGED <<verify, config, loading, tab, dropped>> /\ Render(p, Start(t, Idle))
  BY DEF CallFails
<1>2. /\ session' \in {"in", "out"} /\ stored' \in Configs /\ accepted' \subseteq Forms
      /\ BuildForm(stored') \in accepted' /\ accepted \subseteq accepted'
  BY <1>1, EffectKeeps
<1>3. GoodRest'
  BY <1>1, <1>2, ConsoleStays DEF GoodRest, ConfigIsHeld
<1>4. /\ panel = NoPanel \/ GoodPanel(panel, Held)
      /\ task \in [Tasks -> TaskRecords] /\ \A u \in Tasks: GoodTask(task[u], accepted)
      /\ loading => \E u \in Tasks: task[u].pc \notin {"idle", "call"}
      /\ panel # NoPanel /\ panel.saving => \E u \in Tasks: task[u].own /\ task[u].op = "save"
      /\ task[t].own => panel # NoPanel
  BY ConsoleStays DEF GoodConsole, IInv, TasksAreGood
<1>5. \A u \in Tasks: Start(t, Idle)[u] = IF u = t THEN Idle ELSE task[u]
  BY <1>4 DEF Start
<1>6. /\ Start(t, Idle) \in [Tasks -> TaskRecords]
      /\ \A u \in Tasks: GoodTask(Start(t, Idle)[u], accepted')
  <2>1. Start(t, Idle) \in [Tasks -> TaskRecords]
    BY <1>4, StartedIsGood DEF Start, GoodTask
  <2> QED BY <1>2, <1>4, <1>5, <2>1, StartedIsGood, GrowingIsGood
<1>7. loading' => \E u \in Tasks: Start(t, Idle)[u].pc \notin {"idle", "call"}
  BY <1>1, <1>4, <1>5 DEF At
<1>8. p = NoPanel \/ GoodPanel(p, Held')
  <2>1. Held \subseteq Held'
    BY <1>1, <1>2 DEF Held
  <2>2. CASE saver
    <3>1. p \in Panels /\ p.form = panel.form /\ p.baseline = panel.baseline
      BY <1>4, <2>2 DEF GoodPanel, Panels
    <3> QED BY <1>4, <2>1, <2>2, <3>1 DEF GoodPanel
  <2>3. CASE ~saver
    BY <1>4, <2>1, <2>3, GrowingIsGood
  <2> QED BY <2>2, <2>3
<1>9. p # NoPanel /\ p.saving =>
        \E u \in Tasks: Start(t, Idle)[u].own /\ Start(t, Idle)[u].op = "save"
  <2>1. CASE saver
    <3>1. p.saving = FALSE
      BY <1>4, <2>1 DEF GoodPanel
    <3> QED BY <3>1
  <2>2. CASE ~saver
    BY <1>4, <1>5, <2>2
  <2> QED BY <2>1, <2>2
<1> HIDE DEF p
<1>10. GoodConsole(p, Start(t, Idle), Held', accepted', loading')
  BY <1>6, <1>7, <1>8, <1>9 DEF GoodConsole
<1> QED BY <1>1, <1>3, <1>10, RenderKeeps

\* A refresh is over: Tail writes to the panel and the request ends.
LEMMA FinishStep ==
  ASSUME IInv, NEW t \in Tasks, task[t].pc \notin {"idle", "call"}, Finish(t),
         verify' \in {"none", "in", "out"}, config' \in {config, NoConfig},
         UNCHANGED <<tab, server>>
  PROVE  IInv'
<1>1. /\ loading' = FALSE /\ Render(Tail(t), Start(t, Idle))
      /\ dropped' = IF task[t].own /\ task[t].op = "import" THEN task[t].form ELSE dropped
  BY DEF Finish
<1>2. /\ dropped' \in Forms \cup {NoForm}
      /\ GoodConsole(Tail(t), Start(t, Idle), Held', accepted', FALSE)
  BY <1>1, TailIsGood DEF server
<1>3. GoodRest'
  BY <1>1, <1>2, ConsoleStays DEF GoodRest, ConfigIsHeld, server
<1> QED BY <1>1, <1>2, <1>3, RenderKeeps

\* The steps of a request.
LEMMA NetworkStep ==
  ASSUME IInv, NEW t \in Tasks, Network(t) PROVE IInv'
<1>1. GoodTask(task[t], accepted) /\ task \in [Tasks -> TaskRecords]
  BY DEF IInv, TasksAreGood, TypeOK
<1>2. CASE Call(t)
  BY <1>2, CallStep
<1>3. CASE CallFails(t)
  BY <1>3, CallFailsStep
<1>4. CASE Verify(t)
  <2> DEFINE x == [task[t] EXCEPT !.pc = "verified", !.saw = session]
  <2>1. task[t].pc = "verify" /\ task' = [task EXCEPT ![t] = x]
    BY <1>1, <1>4 DEF Verify, At
  <2>2. session \in {"in", "out"}
    BY DEF IInv, TypeOK
  <2>3. GoodTask(x, accepted) /\ x.pc = "verified" /\ x.own = task[t].own /\ x.op = task[t].op
    BY <1>1, <2>1, <2>2 DEF GoodTask, TaskRecords
  <2> HIDE DEF x
  <2> QED BY <1>4, <2>1, <2>3, AnswerStep DEF Verify
<1>5. CASE Read(t)
  <2> DEFINE x == [task[t] EXCEPT !.pc = "read", !.got = stored]
  <2>1. task[t].pc = "reads" /\ task' = [task EXCEPT ![t] = x]
    BY <1>1, <1>5 DEF Read, At
  <2>2. stored \in Configs /\ BuildForm(stored) \in accepted
    BY DEF IInv, TypeOK, ConfigIsHeld
  <2>3. GoodTask(x, accepted) /\ x.pc = "read" /\ x.own = task[t].own /\ x.op = task[t].op
    BY <1>1, <2>1, <2>2 DEF GoodTask, TaskRecords
  <2> HIDE DEF x
  <2> QED BY <1>5, <2>1, <2>3, AnswerStep DEF Read
<1>6. CASE LandVerify(t) /\ task[t].saw = "out"
  <2>1. /\ task[t].pc = "verified" /\ verify' = "out" /\ config' = NoConfig /\ Finish(t)
        /\ UNCHANGED <<tab, server>>
    BY <1>6 DEF LandVerify, At
  <2> QED BY <2>1, FinishStep
<1>7. CASE LandVerify(t) /\ task[t].saw # "out"
  <2> DEFINE x == [task[t] EXCEPT !.pc = "reads", !.saw = "none"]
  <2>1. /\ task[t].pc = "verified" /\ verify' = "in" /\ Render(panel, [task EXCEPT ![t] = x])
        /\ UNCHANGED <<tab, server, config, loading, dropped>>
    BY <1>7 DEF LandVerify, At
  <2>2. GoodRest' /\ accepted' = accepted /\ Held' = accepted \cup {dropped}
    BY <2>1, ConsoleStays DEF GoodRest, ConfigIsHeld, Held, server
  <2>3. GoodTask(x, accepted) /\ x.pc = "reads" /\ x.own = task[t].own /\ x.op = task[t].op
    BY <1>1, <2>1 DEF GoodTask, TaskRecords
  <2> HIDE DEF x
  <2>4. GoodConsole(panel, [task EXCEPT ![t] = x], accepted \cup {dropped}, accepted, TRUE)
    BY <2>3, AdvanceKeeps
  <2>5. GoodConsole(panel, [task EXCEPT ![t] = x], Held', accepted', loading')
    BY <2>2, <2>4 DEF GoodConsole
  <2> QED BY <2>1, <2>2, <2>5, RenderKeeps
<1>8. CASE LandRead(t)
  <2> DEFINE x == [task[t] EXCEPT !.pc = "list", !.got = NoConfig]
             p == IF panel = NoPanel THEN NoPanel ELSE [panel EXCEPT !.adopted = FALSE]
  <2>1. /\ task[t].pc = "read" /\ config' = task[t].got /\ Render(p, [task EXCEPT ![t] = x])
        /\ UNCHANGED <<verify, loading, tab, server, dropped>>
    BY <1>8 DEF LandRead, At
  <2>2. task[t].got \in Configs /\ BuildForm(task[t].got) \in accepted
    BY <1>1, <2>1 DEF GoodTask
  <2>3. GoodRest' /\ accepted' = accepted /\ Held' = accepted \cup {dropped}
    BY <2>1, <2>2, ConsoleStays DEF GoodRest, ConfigIsHeld, Held, server
  <2>4. GoodTask(x, accepted) /\ x.pc = "list" /\ x.own = task[t].own /\ x.op = task[t].op
    BY <1>1, <2>1 DEF GoodTask, TaskRecords
  <2> HIDE DEF x
  <2>5. GoodConsole(panel, [task EXCEPT ![t] = x], accepted \cup {dropped}, accepted, TRUE)
    BY <2>4, AdvanceKeeps
  <2>6. /\ p = NoPanel \/ GoodPanel(p, accepted \cup {dropped})
        /\ p # NoPanel /\ p.saving => panel # NoPanel /\ panel.saving
    <3>1. CASE panel = NoPanel
      BY <3>1
    <3>2. CASE panel # NoPanel
      <4>1. GoodPanel(panel, accepted \cup {dropped})
        BY <2>5, <3>2 DEF GoodConsole
      <4>2. /\ p \in Panels /\ p.form = panel.form /\ p.baseline = panel.baseline
            /\ p.saving = panel.saving
        BY <3>2, <4>1 DEF GoodPanel, Panels
      <4> QED BY <3>2, <4>1, <4>2 DEF GoodPanel
    <3> QED BY <3>1, <3>2
  <2> HIDE DEF p
  <2>7. GoodConsole(p, [task EXCEPT ![t] = x], Held', accepted', loading')
    BY <2>3, <2>5, <2>6 DEF GoodConsole
  <2> QED BY <2>1, <2>3, <2>7, RenderKeeps
<1>9. CASE Done(t)
  <2>1. /\ task[t].pc \notin {"idle", "call"} /\ Finish(t)
        /\ UNCHANGED <<verify, config, tab, server>>
    BY <1>9 DEF Done
  <2>2. verify \in {"none", "in", "out"}
    BY DEF IInv, TypeOK
  <2> QED BY <2>1, <2>2, FinishStep
<1> QED BY <1>2, <1>3, <1>4, <1>5, <1>6, <1>7, <1>8, <1>9 DEF Network

\* The session expires, or another console changes the configuration.
LEMMA EnvironmentStep == IInv /\ Environment => IInv'
<1> SUFFICES ASSUME IInv, Environment PROVE IInv'
  OBVIOUS
<1>1. CASE Expire
  BY <1>1, FormsAreSent
  DEF Expire, console, IInv, TypeOK, EveryFormIsSent, PanelIsGood, TasksAreGood,
      ConfigIsHeld, ScreenIsRight, BusyHasTask, Held, Dirty, Shown
<1>2. ASSUME NEW c \in Stored, OtherConsole(c) PROVE IInv'
  <2>1. /\ stored' = c /\ accepted' = accepted \cup {BuildForm(c)}
        /\ UNCHANGED <<verify, config, loading, tab, flag, panel, task, session, dropped>>
    BY <1>2 DEF OtherConsole, console
  <2>2. c \in Configs /\ BuildForm(c) \in Forms
    BY ConsoleAssumption, BuildFormTypes
  <2>3. TypeOK' /\ ConfigIsHeld'
    BY <2>1, <2>2 DEF IInv, TypeOK, ConfigIsHeld
  <2>4. PanelIsGood' /\ TasksAreGood'
    <3>1. accepted \subseteq accepted' /\ Held \subseteq Held'
      BY <2>1 DEF Held
    <3>2. PanelIsGood'
      BY <2>1, <3>1 DEF IInv, PanelIsGood, GoodPanel
    <3>3. TasksAreGood'
      BY <2>1, <3>1, GrowingIsGood DEF IInv, TasksAreGood
    <3> QED BY <3>2, <3>3
  <2>5. ScreenIsRight' /\ BusyHasTask'
    BY <2>1 DEF IInv, ScreenIsRight, BusyHasTask
  <2> QED BY <2>3, <2>4, <2>5 DEF IInv
<1> QED BY <1>1, <1>2 DEF Environment

\* The initial states.
LEMMA InitHolds == Init => IInv
<1> SUFFICES ASSUME Init PROVE IInv
  OBVIOUS
<1>1. /\ session \in {"in", "out"} /\ stored \in Stored
      /\ verify = "none" /\ config = NoConfig /\ loading = TRUE
      /\ tab = "tester" /\ flag = FALSE /\ panel = NoPanel
      /\ accepted = {BuildForm(stored)} /\ dropped = NoForm
  BY DEF Init
<1>2. PICK t \in Tasks: task = [u \in Tasks |->
        IF u = t THEN Started("resync", "verify", NoConfig, NoForm) ELSE Idle]
  BY DEF Init
<1>3. stored \in Configs /\ BuildForm(stored) \in Forms
  BY <1>1, ConsoleAssumption, BuildFormTypes
<1>4. \A u \in Tasks: GoodTask(task[u], accepted) /\ ~task[u].own
  BY <1>2, StartedIsGood DEF Started, Idle
<1>5. TypeOK
  <2>1. task \in [Tasks -> TaskRecords]
    BY <1>2, <1>4 DEF GoodTask
  <2> QED BY <1>1, <1>3, <2>1, FormsAreSent DEF TypeOK, Tabs
<1>6. PanelIsGood /\ TasksAreGood /\ ConfigIsHeld /\ ScreenIsRight
  BY <1>1, <1>4 DEF PanelIsGood, TasksAreGood, ConfigIsHeld, ScreenIsRight, Shown
<1>7. BusyHasTask
  BY <1>1, <1>2 DEF BusyHasTask, Started
<1> QED BY <1>5, <1>6, <1>7 DEF IInv

\* A step that changes nothing.
LEMMA StutterStep == IInv /\ UNCHANGED vars => IInv'
BY FormsAreSent
DEF vars, console, server, IInv, TypeOK, EveryFormIsSent, PanelIsGood, TasksAreGood,
    ConfigIsHeld, ScreenIsRight, BusyHasTask, Held, Dirty, Shown

\* The invariant holds in every state that can be reached.
THEOREM Inductive == Spec => []IInv
<1>1. IInv /\ [Next]_vars => IInv'
  BY OperatorStep, EnvironmentStep, NetworkStep, StutterStep DEF Next
<1> QED BY InitHolds, <1>1, PTL DEF Spec

\* Every value has its type, every form can be sent, and neither the shell's spinner
\* nor the panel's save button waits for a request that is no longer there.
THEOREM SoundAlways == Spec => []Sound
<1>1. IInv => Sound
  BY DEF IInv, Sound
<1> QED BY Inductive, <1>1, PTL

\* A form without unsaved edits shows what the server has held or an import has
\* given up: no edit is ever taken for saved (the baseline set after a save, and the
\* effect that adopts a configuration).
THEOREM CleanIsKeptAlways == Spec => []CleanIsKept
<1>1. IInv => CleanIsKept
  BY DEF IInv, PanelIsGood, GoodPanel, CleanIsKept, Dirty, Held
<1> QED BY Inductive, <1>1, PTL

\* The configuration on screen and the form on screen come back from the server as
\* they are, so that a saved form is not dirty.
THEOREM RoundTripAlways == Spec => []RoundTrip
<1>1. IInv => RoundTrip
  <2> SUFFICES ASSUME IInv PROVE RoundTrip
    OBVIOUS
  <2>1. config # NoConfig => IsNormal(BuildForm(config))
    BY BuildFormTypes DEF IInv, TypeOK
  <2>2. panel # NoPanel => IsNormal(panel.form) /\ ComesBack(panel.form)
    <3> SUFFICES ASSUME panel # NoPanel PROVE IsNormal(panel.form) /\ ComesBack(panel.form)
      OBVIOUS
    <3>1. panel.form \in Forms /\ IsNormal(panel.form)
      BY PanelTypes DEF IInv, PanelIsGood, GoodPanel
    <3> QED BY <3>1, FormsComeBack DEF EveryFormComesBack
  <2> QED BY <2>1, <2>2, FormsComeBack DEF RoundTrip
<1> QED BY Inductive, <1>1, PTL

\* A render that follows a handler keeps a panel with edits, as long as the shell
\* shows it.
LEMMA DirtyStays ==
  ASSUME NEW p, NEW ts, Render(p, ts), p # NoPanel, Dirty(p), Shown(verify', config', tab')
  PROVE  panel' = p
BY DEF Render, Rendered, Adopt

\* The end of a refresh changes the baseline of the panel, never its form.
LEMMA FinishKeepsEdits ==
  ASSUME IInv, NEW t \in Tasks, task[t].pc \notin {"idle", "call"}, Finish(t), Unsaved,
         UNCHANGED <<verify, config, tab, server>>
  PROVE  KeepsEdits
<1>1. /\ panel # NoPanel /\ panel \in Panels /\ Dirty(panel) /\ Shown(verify', config', tab')
      /\ panel.form \notin accepted
  BY DEF Unsaved, IInv, PanelIsGood, GoodPanel, ScreenIsRight
<1>2. /\ Render(Tail(t), Start(t, Idle))
      /\ dropped' = IF task[t].own /\ task[t].op = "import" THEN task[t].form ELSE dropped
  BY DEF Finish
<1>3. CASE task[t].own /\ task[t].op = "import" /\ panel.form = task[t].form
  BY <1>2, <1>3 DEF KeepsEdits
<1>4. CASE ~(task[t].own /\ task[t].op = "import" /\ panel.form = task[t].form)
  <2>1. task[t].own /\ task[t].op = "save" => task[t].form \in accepted
    BY DEF IInv, TasksAreGood, GoodTask
  <2>2. Tail(t).form = panel.form /\ Dirty(Tail(t)) /\ Tail(t) \in Panels
    <3>1. CASE task[t].own /\ task[t].op = "save"
      <4>1. Tail(t) = [panel EXCEPT !.baseline = task[t].form, !.saving = FALSE]
        BY <3>1 DEF Tail
      <4>2. task[t].form \in Forms
        BY <3>1 DEF IInv, TasksAreGood, GoodTask
      <4>3. /\ Tail(t).form = panel.form /\ Tail(t).baseline = task[t].form /\ Tail(t) \in Panels
        BY <1>1, <4>1, <4>2 DEF Panels
      <4> QED BY <1>1, <2>1, <3>1, <4>3 DEF Dirty
    <3>2. CASE task[t].own /\ task[t].op = "import"
      <4>1. Tail(t) = [panel EXCEPT !.baseline = task[t].form]
        BY <3>2 DEF Tail
      <4>2. task[t].form \in Forms
        BY <3>2 DEF IInv, TasksAreGood, GoodTask
      <4>3. /\ Tail(t).form = panel.form /\ Tail(t).baseline = task[t].form /\ Tail(t) \in Panels
        BY <1>1, <4>1, <4>2 DEF Panels
      <4> QED BY <1>4, <3>2, <4>3 DEF Dirty
    <3>3. CASE ~(task[t].own /\ task[t].op \in {"save", "import"})
      <4>1. Tail(t) = panel
        BY <3>3 DEF Tail
      <4> QED BY <1>1, <4>1
    <3> QED BY <3>1, <3>2, <3>3
  <2>3. Tail(t) # NoPanel
    BY <2>2, UnmountedAssumption
  <2>4. panel' = Tail(t)
    BY <1>1, <1>2, <2>2, <2>3, DirtyStays
  <2> QED BY <2>2, <2>3, <2>4 DEF KeepsEdits
<1> QED BY <1>3, <1>4

\* A step takes unsaved edits away only with the operator's word, by an import, or
\* with the session.
LEMMA EditsStay == ASSUME IInv, Next, Unsaved PROVE KeepsEdits
<1>1. /\ panel # NoPanel /\ panel \in Panels /\ Dirty(panel) /\ Shown(verify, config, tab) /\ flag
  BY DEF Unsaved, IInv, PanelIsGood, GoodPanel, ScreenIsRight
<1>2. ASSUME NEW ts, Render(panel, ts), Shown(verify', config', tab') PROVE KeepsEdits
  BY <1>1, <1>2, DirtyStays DEF KeepsEdits
<1>3. ASSUME NEW p \in Panels, p.form = panel.form, p.baseline = panel.baseline,
             NEW ts, Render(p, ts), Shown(verify', config', tab')
      PROVE  KeepsEdits
  <2>1. p # NoPanel /\ Dirty(p)
    BY <1>1, <1>3, UnmountedAssumption DEF Dirty
  <2> QED BY <1>3, <2>1, DirtyStays DEF KeepsEdits
<1>4. panel' = panel => KeepsEdits
  BY <1>1 DEF KeepsEdits
<1>5. UNCHANGED <<verify, config, tab>> => Shown(verify', config', tab')
  BY <1>1
<1>6. ASSUME NEW tb \in Tabs, NEW confirmed \in BOOLEAN, SelectTab(tb, confirmed)
      PROVE  KeepsEdits
  <2>1. SelectTab(tb, TRUE)
    BY <1>1, <1>6 DEF SelectTab
  <2> QED BY <2>1 DEF KeepsEdits
<1>7. CASE \/ Discard
           \/ \E f \in Typed: Type(f)
           \/ \E prompt \in Strategies: ImportStrategy(prompt)
  BY <1>7 DEF KeepsEdits
<1>8. ASSUME NEW t \in Tasks, Save(t) PROVE KeepsEdits
  <2> DEFINE p == [panel EXCEPT !.saving = TRUE]
  <2>1. p \in Panels /\ p.form = panel.form /\ p.baseline = panel.baseline
    BY <1>1 DEF Panels
  <2>2. PICK ts: Render(p, ts)
    BY <1>8 DEF Save
  <2> HIDE DEF p
  <2> QED BY <1>3, <1>5, <1>8, <2>1, <2>2 DEF Save
<1>9. ASSUME NEW t \in Tasks,
             \/ Resync(t) \/ Login(t) \/ (\E c \in Stored: Import(t, c))
             \/ (\E confirmed \in BOOLEAN: Logout(t, confirmed)) \/ Call(t)
      PROVE  KeepsEdits
  <2>1. UNCHANGED <<verify, config, tab>> /\ \E ts: Render(panel, ts)
    BY <1>9 DEF Resync, Login, Import, Logout, Call
  <2> QED BY <1>2, <1>5, <2>1
<1>10. ASSUME NEW t \in Tasks, CallFails(t) PROVE KeepsEdits
  <2> DEFINE p == [panel EXCEPT !.saving = FALSE]
  <2>1. p \in Panels /\ p.form = panel.form /\ p.baseline = panel.baseline
    BY <1>1 DEF Panels
  <2>2. /\ \/ \E ts: Render(p, ts)
           \/ \E ts: Render(panel, ts)
        /\ UNCHANGED <<verify, config, tab>>
    BY <1>10 DEF CallFails
  <2> HIDE DEF p
  <2> QED BY <1>2, <1>3, <1>5, <2>1, <2>2
<1>11. ASSUME NEW t \in Tasks, Verify(t) \/ Read(t) PROVE KeepsEdits
  BY <1>4, <1>11 DEF Verify, Read
<1>12. ASSUME NEW t \in Tasks, LandVerify(t) PROVE KeepsEdits
  <2>1. CASE verify' = "out"
    BY <2>1 DEF KeepsEdits
  <2>2. CASE verify' # "out"
    <3>1. /\ verify' = "in" /\ UNCHANGED <<config, tab>>
          /\ \E ts: Render(panel, ts)
      BY <1>12, <2>2 DEF LandVerify
    <3>2. Shown(verify', config', tab')
      BY <1>1, <3>1 DEF Shown
    <3> QED BY <1>2, <3>1, <3>2
  <2> QED BY <2>1, <2>2
<1>13. ASSUME NEW t \in Tasks, LandRead(t) PROVE KeepsEdits
  <2> DEFINE p == [panel EXCEPT !.adopted = FALSE]
  <2>1. p \in Panels /\ p.form = panel.form /\ p.baseline = panel.baseline
    BY <1>1 DEF Panels
  <2>2. config' # NoConfig
    BY <1>13, ConsoleAssumption DEF LandRead, At, IInv, TasksAreGood, GoodTask
  <2>3. UNCHANGED <<verify, tab>> /\ \E ts: Render(p, ts)
    BY <1>1, <1>13 DEF LandRead
  <2>4. Shown(verify', config', tab')
    BY <1>1, <2>2, <2>3 DEF Shown
  <2> HIDE DEF p
  <2> QED BY <1>3, <2>1, <2>3, <2>4
<1>14. ASSUME NEW t \in Tasks, Done(t) PROVE KeepsEdits
  <2>1. /\ task[t].pc \notin {"idle", "call"} /\ Finish(t)
        /\ UNCHANGED <<verify, config, tab, server>>
    BY <1>14 DEF Done
  <2> QED BY <2>1, FinishKeepsEdits
<1>15. CASE Environment
  BY <1>4, <1>15 DEF Environment, Expire, OtherConsole, console
<1> QED
  BY <1>6, <1>7, <1>8, <1>9, <1>10, <1>11, <1>12, <1>13, <1>14, <1>15
  DEF Next, Operator, Network

\* Unsaved edits stay on screen until the operator changes, discards or leaves them,
\* an import replaces them or the session is over: no refresh, answer or unmounted
\* request takes them away.
THEOREM EditsSurviveAlways == Spec => EditsSurvive
<1>1. IInv /\ [Next]_vars => [Unsaved => KeepsEdits]_vars
  BY EditsStay
<1> QED BY Inductive, <1>1, PTL DEF Spec, EditsSurvive
==============================================================================
