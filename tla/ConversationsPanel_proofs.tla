---------------------- MODULE ConversationsPanel_proofs ----------------------
(***************************************************************************)
(* For every set of conversations, accounts and requests in flight and     *)
(* every length of the event queue: the selection is one that is shown, a  *)
(* batch deletes what is on screen, a single deletion reports what it has  *)
(* done, and the tab is busy for a deletion of its own. For every set of   *)
(* rows, times and titles and every number of events: merging them leaves  *)
(* the list and the transcript that a reader of the events expects.        *)
(***************************************************************************)
EXTENDS EventMerging, TLAPS, FiniteSetTheorems, SequenceTheorems, WellFoundedInduction,
        NaturalsInduction

-----------------------------------------------------------------------------
(* The inductive invariant *)

\* What a request in flight carries, with the conversations of the server as srv: one
\* that is over belongs to no tab, and a single deletion that has been answered has
\* deleted.
GoodTask(x, srv) ==
  /\ x \in TaskRecords
  /\ x.pc = "idle" => ~x.own
  /\ x.op = "delete" /\ x.pc \notin {"idle", "call"} => \A c \in x.ids: srv[c] = "gone"

\* A request belongs to the tab only while there is one.
TasksAreGood == \A t \in Tasks: GoodTask(task[t], server) /\ (task[t].own => panel # NoPanel)

\* What is checked is on screen.
CheckedIsShown == panel # NoPanel => panel.checked \subseteq Filtered(list, panel.filter)

\* What every step keeps.
IInv == TypeOK /\ TasksAreGood /\ CheckedIsShown /\ SelectionIsShown /\ BusyHasDeletion

\* A tab and tasks that a handler may leave to a render.
GoodTab(p, ts, srv) ==
  /\ p \in Panels \cup {NoPanel}
  /\ ts \in [Tasks -> TaskRecords]
  /\ \A t \in Tasks: GoodTask(ts[t], srv) /\ (ts[t].own => p # NoPanel)
  /\ p # NoPanel /\ p.busy => \E t \in Tasks: ts[t].own

\* What a render leaves alone.
GoodRest ==
  /\ server \in [Convs -> {"new", "idle", "running", "gone"}]
  /\ queue \in Seq(Events) /\ Len(queue) <= MaxQueue
  /\ detail \subseteq Convs

\* A filter shows conversations of the list.
LEMMA FilteredTypes ==
  ASSUME NEW l, NEW f PROVE Filtered(l, f) \subseteq InList(l) /\ InList(l) \subseteq Convs
BY DEF Filtered, InList

\* A render unchecks what the filter no longer shows, and nothing else.
LEMMA PrunedTypes ==
  ASSUME NEW p \in Panels, NEW l
  PROVE  /\ Pruned(p, l) \in Panels /\ Pruned(p, l) # NoPanel
         /\ Pruned(p, l).filter = p.filter /\ Pruned(p, l).busy = p.busy
         /\ Pruned(p, l).checked \subseteq Filtered(l, p.filter)
<1>1. /\ p \in [checked: SUBSET Convs, filter: Accounts \cup {All}, busy: BOOLEAN]
      /\ Pruned(p, l) = [p EXCEPT !.checked = p.checked \cap Filtered(l, p.filter)]
  BY DEF Panels, Pruned
<1>2. /\ Pruned(p, l).filter = p.filter /\ Pruned(p, l).busy = p.busy
      /\ Pruned(p, l).checked = p.checked \cap Filtered(l, p.filter)
  BY <1>1
<1>3. Pruned(p, l) \in Panels
  BY <1>1, <1>2 DEF Panels
<1> QED BY <1>2, <1>3, LeftAssumption

\* The two effects agree: the selection falls back on a conversation of the list, and
\* on one that the filter shows when there is one.
LEMMA FallbackShows ==
  ASSUME NEW l, NEW s \in Convs \cup {NoConv}, NEW p, NEW u \in Fallback(l, s, p)
  PROVE  /\ u \in InList(l) \cup {NoConv} /\ u \in Convs \cup {NoConv}
         /\ p # NoPanel /\ Filtered(l, p.filter) # {} => u \in Filtered(l, p.filter)
<1> DEFINE visible == IF p = NoPanel THEN {} ELSE Filtered(l, p.filter)
<1>1. visible \subseteq InList(l) /\ InList(l) \subseteq Convs
  BY FilteredTypes
<1>2. p # NoPanel => visible = Filtered(l, p.filter)
  OBVIOUS
<1>3. u \in CASE s \in visible -> {s}
              [] s \notin visible /\ visible # {} -> visible
              [] visible = {} /\ s \notin InList(l) \cup {NoConv} /\ InList(l) # {} -> InList(l)
              [] visible = {} /\ s \notin InList(l) \cup {NoConv} /\ InList(l) = {} -> {NoConv}
              [] OTHER -> {s}
  BY DEF Fallback
<1> HIDE DEF visible
<1>4. CASE visible # {}
  <2>1. u \in visible
    <3>1. CASE s \in visible
      BY <1>3, <3>1
    <3>2. CASE s \notin visible
      BY <1>3, <1>4, <3>2
    <3> QED BY <3>1, <3>2
  <2> QED BY <1>1, <1>2, <2>1
<1>5. CASE visible = {}
  <2>1. u \in InList(l) \cup {NoConv}
    <3>1. CASE s \in InList(l) \cup {NoConv}
      BY <1>3, <1>5, <3>1
    <3>2. CASE s \notin InList(l) \cup {NoConv} /\ InList(l) # {}
      BY <1>3, <1>5, <3>2
    <3>3. CASE s \notin InList(l) \cup {NoConv} /\ InList(l) = {}
      BY <1>3, <1>5, <3>3
    <3> QED BY <3>1, <3>2, <3>3
  <2> QED BY <1>1, <1>2, <1>5, <2>1
<1> QED BY <1>4, <1>5

\* A deletion that has lost its tab goes on as a refresh.
LEMMA KeptIsGood ==
  ASSUME NEW srv, NEW x, GoodTask(x, srv)
  PROVE  /\ GoodTask(Kept(x), srv) /\ Kept(x).own = x.own /\ Kept(x).pc = x.pc
         /\ Kept(x).op # "refresh" => Kept(x) = x
<1>1. x \in TaskRecords
  BY DEF GoodTask
<1>2. CASE x.own \/ x.pc \in {"idle", "call"}
  BY <1>2 DEF Kept
<1>3. CASE ~(x.own \/ x.pc \in {"idle", "call"})
  <2>1. Kept(x) = [x EXCEPT !.op = "refresh", !.ids = {}]
    BY <1>3 DEF Kept
  <2>2. /\ Kept(x) \in TaskRecords /\ Kept(x).own = x.own /\ Kept(x).pc = x.pc
        /\ Kept(x).op = "refresh"
    BY <1>1, <2>1 DEF TaskRecords
  <2> QED BY <1>3, <2>2 DEF GoodTask
<1> QED BY <1>2, <1>3

\* A render after a handler that leaves a good tab and good tasks establishes the
\* invariant, and begins or changes no deletion.
LEMMA RenderKeeps ==
  ASSUME NEW l \in Lists, NEW s \in Convs \cup {NoConv}, NEW p, NEW ts,
         GoodTab(p, ts, server'), GoodRest', reading \subseteq Convs, Render(l, s, p, ts)
  PROVE  /\ IInv'
         /\ \A t \in Tasks: task'[t].op # "refresh" => task'[t] = ts[t]
<1>1. /\ list' = l /\ selected' \in Fallback(l, s, p)
      /\ panel' = IF p = NoPanel THEN NoPanel ELSE Pruned(p, l)
      /\ reading' = IF p # NoPanel /\ selected' # s /\ selected' # NoConv
                      THEN Asked(selected') ELSE reading
      /\ task' = [t \in Tasks |-> Kept(ts[t])]
  BY DEF Render
<1>2. /\ p \in Panels \cup {NoPanel} /\ ts \in [Tasks -> TaskRecords]
      /\ \A t \in Tasks: GoodTask(ts[t], server') /\ (ts[t].own => p # NoPanel)
      /\ p # NoPanel /\ p.busy => \E t \in Tasks: ts[t].own
  BY DEF GoodTab
<1>3. /\ p # NoPanel <=> panel' # NoPanel
      /\ panel' \in Panels \cup {NoPanel}
      /\ p # NoPanel => /\ panel'.filter = p.filter /\ panel'.busy = p.busy
                        /\ panel'.checked \subseteq Filtered(l, p.filter)
  BY <1>1, <1>2, PrunedTypes
<1>4. /\ selected' \in InList(l) \cup {NoConv} /\ selected' \in Convs \cup {NoConv}
      /\ p # NoPanel /\ Filtered(l, p.filter) # {} => selected' \in Filtered(l, p.filter)
  BY <1>1, FallbackShows
<1>5. \A t \in Tasks:
        /\ GoodTask(task'[t], server') /\ (task'[t].own => panel' # NoPanel)
        /\ (ts[t].own => task'[t].own) /\ (task'[t].op # "refresh" => task'[t] = ts[t])
  <2> SUFFICES ASSUME NEW t \in Tasks
               PROVE  /\ GoodTask(task'[t], server') /\ (task'[t].own => panel' # NoPanel)
                      /\ (ts[t].own => task'[t].own)
                      /\ (task'[t].op # "refresh" => task'[t] = ts[t])
    OBVIOUS
  <2>1. task'[t] = Kept(ts[t]) /\ GoodTask(ts[t], server')
    BY <1>1, <1>2
  <2>2. /\ GoodTask(Kept(ts[t]), server') /\ Kept(ts[t]).own = ts[t].own
        /\ Kept(ts[t]).op # "refresh" => Kept(ts[t]) = ts[t]
    BY <2>1, KeptIsGood
  <2> QED BY <1>2, <1>3, <2>1, <2>2
<1>6. TypeOK'
  <2>1. task' \in [Tasks -> TaskRecords]
    BY <1>1, <1>5 DEF GoodTask
  <2>2. reading' \subseteq Convs
    BY <1>1, <1>4 DEF Asked
  <2> QED BY <1>1, <1>3, <1>4, <2>1, <2>2 DEF TypeOK, GoodRest
<1>7. SelectionIsShown' /\ CheckedIsShown'
  BY <1>1, <1>3, <1>4 DEF SelectionIsShown, CheckedIsShown
<1>8. TasksAreGood' /\ BusyHasDeletion'
  BY <1>2, <1>3, <1>5 DEF TasksAreGood, BusyHasDeletion
<1> QED BY <1>5, <1>6, <1>7, <1>8 DEF IInv

-----------------------------------------------------------------------------
(* Every step *)

\* The invariant gives a handler a good tab to begin with.
LEMMA TabStays ==
  ASSUME IInv
  PROVE  /\ GoodTab(panel, task, server) /\ GoodRest
         /\ list \in Lists /\ selected \in Convs \cup {NoConv} /\ reading \subseteq Convs
BY DEF IInv, TypeOK, TasksAreGood, BusyHasDeletion, GoodTab, GoodRest

\* A handler of the operator: the server, the queue and the details stay.
LEMMA QuietStep ==
  ASSUME IInv, NEW s \in Convs \cup {NoConv}, NEW p, NEW ts, GoodTab(p, ts, server),
         Render(list, s, p, ts), UNCHANGED <<server, queue, detail>>
  PROVE  /\ IInv'
         /\ \A t \in Tasks: task'[t].op # "refresh" => task'[t] = ts[t]
<1>1. GoodRest' /\ server' = server
  BY TabStays DEF GoodRest
<1> QED BY <1>1, TabStays, RenderKeeps

\* The tab with something else checked.
LEMMA CheckedTab ==
  ASSUME IInv, panel # NoPanel, NEW cs \in SUBSET Convs
  PROVE  GoodTab([panel EXCEPT !.checked = cs], task, server)
<1> DEFINE p == [panel EXCEPT !.checked = cs]
<1>1. panel \in Panels
  BY DEF IInv, TypeOK
<1>2. p \in Panels /\ p.busy = panel.busy
  BY <1>1 DEF Panels
<1> HIDE DEF p
<1>3. p # NoPanel
  BY <1>2, LeftAssumption
<1> QED BY <1>2, <1>3, TabStays DEF GoodTab, p

\* A request is begun, of the tab or not; one that is makes it busy.
LEMMA BegunTab ==
  ASSUME IInv, NEW t \in Tasks, At(t, "idle"), NEW p, NEW x,
         GoodTask(x, server), x.own => p # NoPanel,
         \/ p = panel
         \/ panel # NoPanel /\ p = [panel EXCEPT !.busy = TRUE] /\ x.own
  PROVE  GoodTab(p, [task EXCEPT ![t] = x], server) /\ [task EXCEPT ![t] = x][t] = x
<1>1. /\ task \in [Tasks -> TaskRecords] /\ panel \in Panels \cup {NoPanel}
      /\ \A u \in Tasks: GoodTask(task[u], server) /\ (task[u].own => panel # NoPanel)
      /\ panel # NoPanel /\ panel.busy => \E u \in Tasks: task[u].own
  BY TabStays DEF GoodTab
<1>2. ~task[t].own
  BY <1>1 DEF At, GoodTask
<1> DEFINE ts == [task EXCEPT ![t] = x]
<1>3. \A u \in Tasks: ts[u] = IF u = t THEN x ELSE task[u]
  BY <1>1
<1>4. ts \in [Tasks -> TaskRecords]
  BY <1>1 DEF GoodTask
<1> HIDE DEF ts
<1>5. CASE p = panel
  BY <1>1, <1>2, <1>3, <1>4, <1>5 DEF GoodTab
<1>6. CASE panel # NoPanel /\ p = [panel EXCEPT !.busy = TRUE] /\ x.own
  <2>1. p \in Panels
    BY <1>1, <1>6 DEF Panels
  <2>2. p # NoPanel
    BY <2>1, LeftAssumption
  <2> QED BY <1>1, <1>3, <1>4, <1>6, <2>1, <2>2 DEF GoodTab
<1> QED BY <1>5, <1>6

\* A request that is over, and a refresh that begins.
LEMMA IdleIsGood ==
  ASSUME NEW srv
  PROVE  /\ GoodTask(Idle, srv) /\ Idle.own = FALSE
         /\ GoodTask([Idle EXCEPT !.op = "refresh", !.pc = "list"], srv)
         /\ ~[Idle EXCEPT !.op = "refresh", !.pc = "list"].own
<1>1. Empty \in Lists
  BY DEF Empty, Lists
<1>2. Idle \in TaskRecords
  BY <1>1 DEF Idle, TaskRecords
<1>3. GoodTask(Idle, srv) /\ Idle.own = FALSE
  BY <1>2 DEF GoodTask, Idle
<1>4. /\ GoodTask([Idle EXCEPT !.op = "refresh", !.pc = "list"], srv)
      /\ ~[Idle EXCEPT !.op = "refresh", !.pc = "list"].own
  BY <1>1 DEF GoodTask, Idle, TaskRecords
<1> QED BY <1>3, <1>4

\* A deletion of cs is what the step begins, and all that it begins.
Began(t, op, cs) ==
  \A u \in Tasks: task'[u].op # "refresh" =>
    IF u = t THEN task'[u].op = op /\ task'[u].ids = cs ELSE task'[u] = task[u]

\* A deletion begins with what its handler was given, and makes the tab busy.
LEMMA DeletionStarts ==
  ASSUME IInv, NEW t \in Tasks, NEW op \in {"delete", "batch"}, NEW cs \in SUBSET Convs,
         panel # NoPanel,
         Send(t, selected, [panel EXCEPT !.busy = TRUE],
              [Idle EXCEPT !.op = op, !.pc = "call", !.ids = cs, !.left = cs, !.own = TRUE])
  PROVE  /\ IInv'
         /\ Began(t, op, cs)
<1> DEFINE x == [Idle EXCEPT !.op = op, !.pc = "call", !.ids = cs, !.left = cs, !.own = TRUE]
           p == [panel EXCEPT !.busy = TRUE]
<1>1. Send(t, selected, p, x)
  OBVIOUS
<1>2. GoodTask(x, server) /\ x.own /\ x.op = op /\ x.ids = cs
  <2>1. Empty \in Lists
    BY DEF Empty, Lists
  <2> QED BY <2>1 DEF GoodTask, Idle, TaskRecords
<1>3. p # NoPanel
  <2>1. p \in Panels
    BY DEF IInv, TypeOK, Panels
  <2> QED BY <2>1, LeftAssumption
<1> HIDE DEF x
<1>4. GoodTab(p, [task EXCEPT ![t] = x], server) /\ [task EXCEPT ![t] = x][t] = x
  BY <1>1, <1>2, <1>3, BegunTab DEF Send
<1> HIDE DEF p
<1>5. /\ At(t, "idle") /\ UNCHANGED <<server, queue, detail>>
      /\ Render(list, selected, p, [task EXCEPT ![t] = x])
  BY <1>1 DEF Send
<1> DEFINE ts == [task EXCEPT ![t] = x]
<1>6. /\ GoodTab(p, ts, server) /\ ts[t] = x
      /\ UNCHANGED <<server, queue, detail>> /\ Render(list, selected, p, ts)
  BY <1>4, <1>5
<1>7. \A u \in Tasks: u # t => ts[u] = task[u]
  BY DEF IInv
<1> HIDE DEF ts
<1>8. IInv' /\ \A u \in Tasks: task'[u].op # "refresh" => task'[u] = ts[u]
  BY <1>6, TabStays, QuietStep
<1> QED BY <1>2, <1>6, <1>7, <1>8 DEF Began

\* The steps of the operator.
LEMMA OperatorStep == IInv /\ Operator => IInv'
<1> SUFFICES ASSUME IInv, Operator PROVE IInv'
  OBVIOUS
<1>1. CASE Enter
  <2> DEFINE p == [checked |-> {}, filter |-> All, busy |-> FALSE]
  <2>1. p \in Panels /\ p.busy = FALSE
    BY DEF Panels
  <2>2. panel = NoPanel /\ UNCHANGED <<server, queue, detail>> /\ Render(list, selected, p, task)
    BY <1>1 DEF Enter
  <2> HIDE DEF p
  <2>3. GoodTab(p, task, server)
    BY <2>1, <2>2, TabStays DEF GoodTab
  <2> QED BY <2>2, <2>3, TabStays, QuietStep
<1>2. CASE Leave
  <2> DEFINE ts == [t \in Tasks |-> [task[t] EXCEPT !.own = FALSE]]
  <2>1. UNCHANGED <<server, queue, detail>> /\ Render(list, selected, NoPanel, ts)
    BY <1>2 DEF Leave
  <2>2. ASSUME NEW t \in Tasks PROVE GoodTask(ts[t], server) /\ ~ts[t].own
    <3>1. GoodTask(task[t], server) /\ ts[t] = [task[t] EXCEPT !.own = FALSE]
      BY DEF IInv, TasksAreGood
    <3>2. /\ ts[t] \in TaskRecords /\ ts[t].own = FALSE /\ ts[t].op = task[t].op
          /\ ts[t].pc = task[t].pc /\ ts[t].ids = task[t].ids
      BY <3>1 DEF GoodTask, TaskRecords
    <3> QED BY <3>1, <3>2 DEF GoodTask
  <2>3. ts \in [Tasks -> TaskRecords]
    BY <2>2 DEF GoodTask
  <2> HIDE DEF ts
  <2>4. GoodTab(NoPanel, ts, server)
    BY <2>2, <2>3 DEF GoodTab
  <2> QED BY <2>1, <2>4, TabStays, QuietStep
<1>3. ASSUME NEW f \in Accounts \cup {All}, Filter(f) PROVE IInv'
  <2> DEFINE p == [panel EXCEPT !.filter = f]
  <2>1. panel # NoPanel /\ UNCHANGED <<server, queue, detail>> /\ Render(list, selected, p, task)
    BY <1>3 DEF Filter
  <2>2. p \in Panels /\ p.busy = panel.busy
    BY <2>1 DEF IInv, TypeOK, Panels
  <2> HIDE DEF p
  <2>3. GoodTab(p, task, server)
    BY <2>1, <2>2, TabStays, LeftAssumption DEF GoodTab
  <2> QED BY <2>1, <2>3, TabStays, QuietStep
<1>4. ASSUME NEW cs \in SUBSET Convs, panel # NoPanel,
             Render(list, selected, [panel EXCEPT !.checked = cs], task),
             UNCHANGED <<server, queue, detail>>
      PROVE  IInv'
  BY <1>4, CheckedTab, TabStays, QuietStep
<1>5. ASSUME NEW c \in Convs, Toggle(c) PROVE IInv'
  <2>1. panel # NoPanel /\ panel.checked \in SUBSET Convs
    BY <1>5 DEF Toggle, IInv, TypeOK, Panels
  <2>2. (IF c \in panel.checked THEN panel.checked \ {c} ELSE panel.checked \cup {c}) \in SUBSET Convs
    BY <2>1
  <2> QED BY <1>4, <1>5, <2>1, <2>2 DEF Toggle
<1>6. CASE ToggleAll
  <2> DEFINE all == Filtered(list, panel.filter)
             cs == IF Cardinality(panel.checked) = Cardinality(all) THEN {} ELSE all
  <2>1. cs \in SUBSET Convs
    BY FilteredTypes
  <2>2. /\ panel # NoPanel /\ UNCHANGED <<server, queue, detail>>
        /\ Render(list, selected, [panel EXCEPT !.checked = cs], task)
    BY <1>6 DEF ToggleAll
  <2> HIDE DEF cs
  <2> QED BY <1>4, <2>1, <2>2
<1>7. ASSUME NEW t \in Tasks, Refresh(t) PROVE IInv'
  <2> DEFINE x == [Idle EXCEPT !.op = "refresh", !.pc = "list"]
  <2>1. /\ At(t, "idle") /\ UNCHANGED <<server, queue, detail>>
        /\ Render(list, selected, panel, [task EXCEPT ![t] = x])
    BY <1>7 DEF Refresh, Send
  <2>2. GoodTask(x, server) /\ ~x.own
    BY IdleIsGood
  <2> HIDE DEF x
  <2>3. GoodTab(panel, [task EXCEPT ![t] = x], server)
    BY <2>1, <2>2, BegunTab
  <2> QED BY <2>1, <2>3, TabStays, QuietStep
<1>8. ASSUME NEW c \in Convs, Select(c) PROVE IInv'
  <2>1. /\ selected' = c /\ c \in Filtered(list, panel.filter) /\ panel # NoPanel
        /\ UNCHANGED <<server, queue, list, detail, panel, task>> /\ reading' = Asked(c)
    BY <1>8 DEF Select
  <2>2. TypeOK'
    BY <2>1 DEF IInv, TypeOK, Asked
  <2>3. SelectionIsShown'
    BY <2>1, FilteredTypes DEF SelectionIsShown
  <2>4. TasksAreGood' /\ CheckedIsShown' /\ BusyHasDeletion'
    BY <2>1 DEF IInv, TasksAreGood, CheckedIsShown, BusyHasDeletion
  <2> QED BY <2>2, <2>3, <2>4 DEF IInv
<1>9. ASSUME NEW t \in Tasks, NEW confirmed \in BOOLEAN, Delete(t, confirmed) PROVE IInv'
  <2>1. {selected} \in SUBSET Convs
    BY <1>9, FilteredTypes DEF Delete
  <2> QED BY <1>9, <2>1, DeletionStarts DEF Delete
<1>10. ASSUME NEW t \in Tasks, NEW confirmed \in BOOLEAN, BatchDelete(t, confirmed)
       PROVE  IInv'
  <2>1. panel.checked \in SUBSET Convs
    BY <1>10 DEF BatchDelete, IInv, TypeOK, Panels
  <2> QED BY <1>10, <2>1, DeletionStarts DEF BatchDelete
<1> QED
  BY <1>1, <1>2, <1>3, <1>5, <1>6, <1>7, <1>8, <1>9, <1>10 DEF Operator

\* The server goes on, without the console taking notice.
LEMMA ServerGoesOn ==
  ASSUME IInv, server' \in [Convs -> {"new", "idle", "running", "gone"}],
         \A c \in Convs: server[c] = "gone" => server'[c] = "gone",
         queue' \in Seq(Events), Len(queue') <= MaxQueue,
         task' \in [Tasks -> TaskRecords],
         \A t \in Tasks: task'[t].own = task[t].own /\ GoodTask(task'[t], server'),
         UNCHANGED <<list, detail, reading, selected, panel>>
  PROVE  IInv'
<1>1. TypeOK'
  BY DEF IInv, TypeOK
<1>2. TasksAreGood' /\ BusyHasDeletion'
  BY DEF IInv, TasksAreGood, BusyHasDeletion
<1>3. CheckedIsShown' /\ SelectionIsShown'
  BY DEF IInv, CheckedIsShown, SelectionIsShown
<1> QED BY <1>1, <1>2, <1>3 DEF IInv

\* What is gone stays gone, and with it what a deletion has been told.
LEMMA GoneStaysGood ==
  ASSUME NEW x, NEW old, GoodTask(x, old), NEW new,
         \A c \in Convs: old[c] = "gone" => new[c] = "gone"
  PROVE  GoodTask(x, new)
BY DEF GoodTask, TaskRecords

\* A turn begins, goes on or ends: the server tells the consoles, or a slow one
\* misses it.
LEMMA TurnStep ==
  ASSUME IInv, NEW c \in Convs, NEW to \in Shown, server' = [server EXCEPT ![c] = to],
         server[c] # "gone", NEW opens \in BOOLEAN, Told(c, opens),
         UNCHANGED <<list, detail, reading, selected, panel, task>>
  PROVE  IInv'
<1>1. /\ server \in [Convs -> {"new", "idle", "running", "gone"}]
      /\ queue \in Seq(Events) /\ Len(queue) <= MaxQueue
  BY DEF IInv, TypeOK
<1>2. /\ server' \in [Convs -> {"new", "idle", "running", "gone"}]
      /\ \A d \in Convs: server[d] = "gone" => server'[d] = "gone"
  BY <1>1 DEF Shown
<1>3. queue' \in Seq(Events) /\ Len(queue') <= MaxQueue
  <2> DEFINE e == [conv |-> c, opens |-> opens, status |-> server'[c]]
  <2>1. server'[c] \in Shown
    BY <1>1
  <2>2. e \in Events
    BY <2>1 DEF Events
  <2>3. \/ Len(queue) < MaxQueue /\ queue' = Append(queue, e)
        \/ queue' = queue
    BY DEF Told
  <2> HIDE DEF e
  <2> QED BY <1>1, <2>2, <2>3, ListAssumption
<1>4. \A t \in Tasks: task'[t].own = task[t].own /\ GoodTask(task'[t], server')
  <2>1. task' = task /\ \A t \in Tasks: GoodTask(task[t], server)
    BY DEF IInv, TasksAreGood
  <2> SUFFICES ASSUME NEW t \in Tasks PROVE GoodTask(task[t], server')
    BY <2>1
  <2>2. GoodTask(task[t], server)
    BY <2>1
  <2>3. \A d \in Convs: server[d] = "gone" => server'[d] = "gone"
    BY <1>2
  <2>4. task[t].ids \subseteq Convs
    BY <2>2 DEF GoodTask, TaskRecords
  <2> QED BY <2>2, <2>3, <2>4 DEF GoodTask
<1> QED BY <1>2, <1>3, <1>4, ServerGoesOn DEF IInv, TypeOK

\* The steps of the server.
LEMMA ServerStep == IInv /\ Server => IInv'
<1> SUFFICES ASSUME IInv, Server PROVE IInv'
  OBVIOUS
<1>1. ASSUME NEW c \in Convs, Create(c) \/ Continue(c) \/ Complete(c) PROVE IInv'
  BY <1>1, TurnStep DEF Create, Continue, Complete, Become, Shown
<1>2. ASSUME NEW c \in Convs, Push(c) PROVE IInv'
  <2>1. server' = [server EXCEPT ![c] = "running"] /\ server[c] # "gone" /\ Told(c, FALSE)
    BY <1>2 DEF Push, IInv, TypeOK
  <2>2. UNCHANGED <<list, detail, reading, selected, panel, task>>
    BY <1>2 DEF Push
  <2> QED BY <2>1, <2>2, TurnStep DEF Shown
<1>3. ASSUME NEW c \in Convs, DeleteElsewhere(c) PROVE IInv'
  <2>1. /\ server' = [server EXCEPT ![c] = "gone"]
        /\ UNCHANGED <<queue, list, detail, reading, selected, panel, task>>
    BY <1>3 DEF DeleteElsewhere
  <2>2. /\ server' \in [Convs -> {"new", "idle", "running", "gone"}]
        /\ \A d \in Convs: server[d] = "gone" => server'[d] = "gone"
    BY <2>1 DEF IInv, TypeOK
  <2>3. \A t \in Tasks: task'[t].own = task[t].own /\ GoodTask(task'[t], server')
    BY <2>1, <2>2, GoneStaysGood DEF IInv, TasksAreGood
  <2> QED BY <2>1, <2>2, <2>3, ServerGoesOn DEF IInv, TypeOK
<1>4. ASSUME NEW c \in Convs, NEW t \in Tasks, DeleteOne(t, c) PROVE IInv'
  <2> DEFINE x == [task[t] EXCEPT !.left = task[t].left \ {c}]
  <2>1. /\ task[t].pc = "call" /\ task' = [task EXCEPT ![t] = x]
        /\ server' = IF server[c] = "idle" THEN [server EXCEPT ![c] = "gone"] ELSE server
        /\ UNCHANGED <<queue, list, detail, reading, selected, panel>>
    BY <1>4 DEF DeleteOne, At
  <2>2. /\ server' \in [Convs -> {"new", "idle", "running", "gone"}]
        /\ \A d \in Convs: server[d] = "gone" => server'[d] = "gone"
    BY <2>1 DEF IInv, TypeOK
  <2>3. task[t] \in TaskRecords /\ task \in [Tasks -> TaskRecords]
    BY DEF IInv, TypeOK
  <2>4. x \in TaskRecords /\ x.own = task[t].own /\ x.pc = "call"
    BY <2>1, <2>3 DEF TaskRecords
  <2> HIDE DEF x
  <2>5. task' \in [Tasks -> TaskRecords]
    BY <2>1, <2>3, <2>4
  <2>6. \A u \in Tasks: task'[u].own = task[u].own /\ GoodTask(task'[u], server')
    <3> SUFFICES ASSUME NEW u \in Tasks
                 PROVE  task'[u].own = task[u].own /\ GoodTask(task'[u], server')
      OBVIOUS
    <3>1. CASE u = t
      BY <2>1, <2>3, <2>4, <3>1 DEF GoodTask
    <3>2. CASE u # t
      BY <2>1, <2>2, <2>3, <3>2, GoneStaysGood DEF IInv, TasksAreGood
    <3> QED BY <3>1, <3>2
  <2> QED BY <2>1, <2>2, <2>5, <2>6, ServerGoesOn DEF IInv, TypeOK
<1>5. ASSUME NEW t \in Tasks, ReadList(t) PROVE IInv'
  <2> DEFINE got == [c \in Convs |-> IF server[c] \in Shown THEN server[c] ELSE Unloaded]
             x == [task[t] EXCEPT !.pc = "listed", !.got = got]
  <2>1. /\ task[t].pc = "list" /\ task' = [task EXCEPT ![t] = x]
        /\ UNCHANGED <<server, queue, list, detail, reading, selected, panel>>
    BY <1>5 DEF ReadList, At
  <2>2. got \in Lists
    BY DEF Lists
  <2>3. GoodTask(task[t], server) /\ task \in [Tasks -> TaskRecords]
    BY DEF IInv, TypeOK, TasksAreGood
  <2> HIDE DEF got
  <2>4. x \in TaskRecords /\ x.own = task[t].own /\ GoodTask(x, server)
    BY <2>1, <2>2, <2>3 DEF GoodTask, TaskRecords
  <2> HIDE DEF x
  <2>5. /\ task' \in [Tasks -> TaskRecords]
        /\ \A u \in Tasks: task'[u].own = task[u].own /\ GoodTask(task'[u], server')
    BY <2>1, <2>3, <2>4 DEF IInv, TasksAreGood
  <2> QED BY <2>1, <2>5, ServerGoesOn DEF IInv, TypeOK
<1>6. CASE Reconnect
  <2>1. queue' = <<>> /\ UNCHANGED <<server, list, detail, reading, selected, panel, task>>
    BY <1>6 DEF Reconnect
  <2>2. queue' \in Seq(Events) /\ Len(queue') <= MaxQueue
    BY <2>1, ListAssumption
  <2>3. \A t \in Tasks: task'[t].own = task[t].own /\ GoodTask(task'[t], server')
    BY <2>1 DEF IInv, TasksAreGood
  <2> QED BY <2>1, <2>2, <2>3, ServerGoesOn DEF IInv, TypeOK
<1> QED BY <1>1, <1>2, <1>3, <1>4, <1>5, <1>6 DEF Server

\* The tab when a request of it is over.
LEMMA ClosedTab ==
  ASSUME IInv, NEW t \in Tasks, NEW success \in BOOLEAN
  PROVE  GoodTab(Closed(panel, task[t], success), [task EXCEPT ![t] = Idle], server)
<1> DEFINE p == Closed(panel, task[t], success)
           ts == [task EXCEPT ![t] = Idle]
<1>1. /\ task \in [Tasks -> TaskRecords] /\ panel \in Panels \cup {NoPanel}
      /\ \A u \in Tasks: GoodTask(task[u], server) /\ (task[u].own => panel # NoPanel)
      /\ panel # NoPanel /\ panel.busy => \E u \in Tasks: task[u].own
  BY TabStays DEF GoodTab
<1>2. \A u \in Tasks: ts[u] = IF u = t THEN Idle ELSE task[u]
  BY <1>1
<1>3. ts \in [Tasks -> TaskRecords] /\ \A u \in Tasks: GoodTask(ts[u], server)
  <2>1. Idle \in TaskRecords
    BY IdleIsGood DEF GoodTask
  <2> QED BY <1>1, <1>2, <2>1, IdleIsGood
<1>4. CASE ~task[t].own
  <2>1. p = panel
    BY <1>4 DEF Closed
  <2> HIDE DEF ts, p
  <2> QED BY <1>1, <1>2, <1>3, <1>4, <2>1, IdleIsGood DEF GoodTab, p
<1>5. CASE task[t].own
  <2>1. panel \in Panels
    BY <1>1, <1>5
  <2>2. \/ p = [panel EXCEPT !.busy = FALSE]
        \/ p = [panel EXCEPT !.busy = FALSE, !.checked = {}]
        \/ p = [panel EXCEPT !.busy = FALSE, !.checked = panel.checked \ task[t].ids]
    BY <1>5 DEF Closed
  <2>3. p \in Panels /\ p.busy = FALSE
    BY <2>1, <2>2 DEF Panels
  <2>4. p # NoPanel
    BY <2>3, LeftAssumption
  <2> HIDE DEF ts, p
  <2> QED BY <1>3, <2>3, <2>4 DEF GoodTab, ts, p
<1> QED BY <1>4, <1>5

\* A request of the tab goes on.
LEMMA AdvancedTab ==
  ASSUME IInv, NEW t \in Tasks, NEW x, GoodTask(x, server), x.own = task[t].own
  PROVE  GoodTab(panel, [task EXCEPT ![t] = x], server)
<1>1. /\ task \in [Tasks -> TaskRecords] /\ panel \in Panels \cup {NoPanel}
      /\ \A u \in Tasks: GoodTask(task[u], server) /\ (task[u].own => panel # NoPanel)
      /\ panel # NoPanel /\ panel.busy => \E u \in Tasks: task[u].own
  BY TabStays DEF GoodTab
<1> DEFINE ts == [task EXCEPT ![t] = x]
<1>2. \A u \in Tasks: ts[u] = IF u = t THEN x ELSE task[u]
  BY <1>1
<1>3. ts \in [Tasks -> TaskRecords]
  BY <1>1 DEF GoodTask
<1> HIDE DEF ts
<1> QED BY <1>1, <1>2, <1>3 DEF GoodTab

\* Events and answers land, in any order.
LEMMA LandingStep == IInv /\ Landing => IInv'
<1> SUFFICES ASSUME IInv, Landing PROVE IInv'
  OBVIOUS
<1>1. CASE LandEvent
  <2> DEFINE e == Head(queue)
             l == [list EXCEPT ![e.conv] = e.status]
             s == IF selected = NoConv /\ e.opens THEN e.conv ELSE selected
  <2>1. /\ queue # <<>> /\ queue' = Tail(queue) /\ detail' = Remembered(e.conv)
        /\ Render(l, s, panel, task) /\ server' = server
    BY <1>1 DEF LandEvent
  <2>2. queue \in Seq(Events) /\ Len(queue) <= MaxQueue
    BY DEF IInv, TypeOK
  <2>3. e \in Events /\ queue' \in Seq(Events) /\ Len(queue') <= MaxQueue
    BY <2>1, <2>2, ListAssumption
  <2> HIDE DEF e
  <2>4. e.conv \in Convs /\ e.status \in Shown
    BY <2>3 DEF Events
  <2>5. l \in Lists /\ s \in Convs \cup {NoConv}
    BY <2>4, TabStays DEF Lists
  <2>6. GoodRest'
    BY <2>1, <2>3, <2>4, TabStays DEF GoodRest, Remembered
  <2> HIDE DEF l, s
  <2> QED BY <2>1, <2>5, <2>6, TabStays, RenderKeeps
<1>2. ASSUME NEW c \in Convs, LandSelected(c) PROVE IInv'
  <2>1. /\ reading' = reading \ {c} /\ detail' \in {detail, detail \cup ({c} \ {NoConv})}
        /\ UNCHANGED <<server, queue, list, selected, panel, task>>
    BY <1>2 DEF LandSelected, Remembered
  <2>2. TypeOK'
    BY <2>1 DEF IInv, TypeOK
  <2> QED
    BY <2>1, <2>2 DEF IInv, TasksAreGood, CheckedIsShown, SelectionIsShown, BusyHasDeletion
<1>3. ASSUME NEW t \in Tasks, Deleted(t) PROVE IInv'
  <2> DEFINE x == [task[t] EXCEPT !.pc = "list"]
  <2>1. /\ task[t].pc = "call" /\ detail' = detail \ task[t].ids /\ UNCHANGED <<server, queue>>
        /\ task[t].op = "delete" => \A c \in task[t].ids: server[c] = "gone"
        /\ Render(list, selected, panel, [task EXCEPT ![t] = x])
    BY <1>3 DEF Deleted, At
  <2>2. GoodTask(x, server) /\ x.own = task[t].own
    BY <2>1 DEF IInv, TasksAreGood, GoodTask, TaskRecords
  <2> HIDE DEF x
  <2>3. GoodTab(panel, [task EXCEPT ![t] = x], server')
    BY <2>1, <2>2, AdvancedTab
  <2>4. GoodRest'
    BY <2>1, TabStays DEF GoodRest
  <2> QED BY <2>1, <2>3, <2>4, TabStays, RenderKeeps
<1>4. ASSUME NEW t \in Tasks, LandList(t) PROVE IInv'
  <2> DEFINE l == task[t].got
  <2>1. /\ task[t].pc = "listed" /\ detail' = detail /\ UNCHANGED <<server, queue>>
        /\ \E target \in IF selected \in InList(l) THEN {selected}
                         ELSE IF InList(l) = {} THEN {NoConv} ELSE InList(l):
             Render(l, target, panel,
                    [task EXCEPT ![t].pc = "detail", ![t].got = Empty, ![t].conv = target])
    BY <1>4 DEF LandList, At
  <2>2. GoodTask(task[t], server) /\ task \in [Tasks -> TaskRecords] /\ l \in Lists
    BY DEF IInv, TypeOK, TasksAreGood, TaskRecords
  <2>3. PICK target \in Convs \cup {NoConv}:
          Render(l, target, panel,
                 [task EXCEPT ![t].pc = "detail", ![t].got = Empty, ![t].conv = target])
    BY <2>1 DEF InList
  <2> DEFINE x == [task[t] EXCEPT !.pc = "detail", !.got = Empty, !.conv = target]
  <2>4. Render(l, target, panel, [task EXCEPT ![t] = x])
    BY <2>2, <2>3
  <2>5. Empty \in Lists
    BY DEF Empty, Lists
  <2>6. GoodTask(x, server) /\ x.own = task[t].own
    BY <2>1, <2>2, <2>5 DEF GoodTask, TaskRecords
  <2> HIDE DEF x
  <2>7. GoodTab(panel, [task EXCEPT ![t] = x], server')
    BY <2>1, <2>6, AdvancedTab
  <2>8. GoodRest'
    BY <2>1, TabStays DEF GoodRest
  <2> HIDE DEF l
  <2> QED BY <2>2, <2>4, <2>7, <2>8, TabStays, RenderKeeps
<1>5. ASSUME NEW t \in Tasks, End(t) PROVE IInv'
  <2>1. /\ detail' = Remembered(task[t].conv) /\ UNCHANGED <<server, queue>>
        /\ Render(list, selected, Closed(panel, task[t], TRUE), [task EXCEPT ![t] = Idle])
    BY <1>5 DEF End
  <2>2. task[t].conv \in Convs \cup {NoConv}
    BY DEF IInv, TypeOK, TaskRecords
  <2>3. GoodRest'
    BY <2>1, <2>2, TabStays DEF GoodRest, Remembered
  <2>4. GoodTab(Closed(panel, task[t], TRUE), [task EXCEPT ![t] = Idle], server')
    BY <2>1, ClosedTab
  <2> QED BY <2>1, <2>3, <2>4, TabStays, RenderKeeps
<1>6. ASSUME NEW t \in Tasks, Fail(t) PROVE IInv'
  <2>1. /\ detail' = detail /\ UNCHANGED <<server, queue>>
        /\ Render(list, selected, Closed(panel, task[t], FALSE), [task EXCEPT ![t] = Idle])
    BY <1>6 DEF Fail
  <2>2. GoodRest'
    BY <2>1, TabStays DEF GoodRest
  <2>3. GoodTab(Closed(panel, task[t], FALSE), [task EXCEPT ![t] = Idle], server')
    BY <2>1, ClosedTab
  <2> QED BY <2>1, <2>2, <2>3, TabStays, RenderKeeps
<1> QED BY <1>1, <1>2, <1>3, <1>4, <1>5, <1>6 DEF Landing

-----------------------------------------------------------------------------
(* The theorems *)

\* The initial states.
LEMMA InitHolds == Init => IInv
<1> SUFFICES ASSUME Init PROVE IInv
  OBVIOUS
<1>1. Empty \in Lists /\ InList(Empty) = {}
  BY DEF Empty, Lists, InList
<1>2. TypeOK
  <2>1. Idle \in TaskRecords
    BY IdleIsGood DEF GoodTask
  <2>2. queue \in Seq(Events) /\ Len(queue) <= MaxQueue
    BY ListAssumption DEF Init
  <2> QED BY <1>1, <2>1, <2>2 DEF TypeOK, Init
<1>3. TasksAreGood
  BY IdleIsGood DEF TasksAreGood, Init
<1> QED BY <1>2, <1>3 DEF IInv, Init, CheckedIsShown, SelectionIsShown, BusyHasDeletion

\* A step that changes nothing.
LEMMA StutterStep == IInv /\ UNCHANGED vars => IInv'
BY DEF IInv, vars, TypeOK, TasksAreGood, CheckedIsShown, SelectionIsShown, BusyHasDeletion

\* The invariant holds in every state that can be reached.
THEOREM Inductive == Spec => []IInv
<1>1. IInv /\ [Next]_vars => IInv'
  BY OperatorStep, ServerStep, LandingStep, StutterStep DEF Next
<1> QED BY InitHolds, <1>1, PTL DEF Spec

\* Every value has its type, the event queue of a slow console never exceeds its
\* buffer (ConversationStore.Subscribe), and the tab is busy only while a deletion of
\* it is under way.
THEOREM SoundAlways == Spec => []Sound
<1>1. IInv => Sound
  BY DEF IInv, Sound
<1> QED BY Inductive, <1>1, PTL

\* While the filter shows a conversation, one that it shows is selected, whatever the
\* stream and the reads make of the list (the effects of the hook and of the tab).
THEOREM SelectionAlways == Spec => []SelectionIsShown
<1>1. IInv => SelectionIsShown
  BY DEF IInv
<1> QED BY Inductive, <1>1, PTL

\* When the tab reports a single deletion as done, the conversation is gone from the
\* server: one that began to run after it was shown as idle is refused, and the
\* refusal is an error (handleSingleDelete).
THEOREM SingleReportAlways == Spec => SingleReportIsTrue
<1>1. IInv => ReportIsTrue("delete")
  BY DEF IInv, TasksAreGood, GoodTask, ReportIsTrue, End, At
<1>2. IInv /\ [Next]_vars => [ReportIsTrue("delete")]_vars
  BY <1>1
<1> QED BY Inductive, <1>2, PTL DEF Spec, SingleReportIsTrue

\* The step that a batch may take.
BatchStep ==
  \A t \in Tasks: task[t].op = "none" /\ task'[t].op = "batch" =>
    /\ task'[t].ids \subseteq Filtered(list, panel.filter)
    /\ \A c \in task'[t].ids: list[c] = "idle"

\* A step that begins no batch.
NoBatch == \A t \in Tasks: task[t].op = "none" => task'[t].op # "batch"

\* A render makes no request a batch.
LEMMA RenderedTasks ==
  ASSUME NEW l, NEW s, NEW p, NEW ts, Render(l, s, p, ts), NEW t \in Tasks
  PROVE  task'[t].op = "batch" => ts[t].op = "batch"
<1>1. task'[t] = Kept(ts[t])
  BY DEF Render
<1> QED BY <1>1 DEF Kept

\* What the operator begins as a batch is on screen, and nothing of it is shown as
\* running.
LEMMA OperatorBegins == IInv /\ Operator => BatchStep
<1> SUFFICES ASSUME IInv, Operator,
                    NEW t \in Tasks, task[t].op = "none", task'[t].op = "batch"
             PROVE  /\ task'[t].ids \subseteq Filtered(list, panel.filter)
                    /\ \A c \in task'[t].ids: list[c] = "idle"
  BY DEF BatchStep
<1>1. task \in [Tasks -> TaskRecords]
  BY DEF IInv, TypeOK
<1>2. ASSUME NEW s, NEW p, Render(list, s, p, task) PROVE FALSE
  BY <1>2, RenderedTasks
<1>3. CASE Enter \/ ToggleAll
  BY <1>2, <1>3 DEF Enter, ToggleAll
<1>4. ASSUME NEW f, Filter(f) PROVE FALSE
  BY <1>2, <1>4 DEF Filter
<1>5. ASSUME NEW c, Toggle(c) PROVE FALSE
  BY <1>2, <1>5 DEF Toggle
<1>6. ASSUME NEW c, Select(c) PROVE FALSE
  BY <1>6 DEF Select
<1>7. CASE Leave
  <2> DEFINE ts == [u \in Tasks |-> [task[u] EXCEPT !.own = FALSE]]
  <2>1. Render(list, selected, NoPanel, ts)
    BY <1>7 DEF Leave
  <2>2. ts[t].op = task[t].op
    BY <1>1 DEF TaskRecords
  <2> HIDE DEF ts
  <2> QED BY <2>1, <2>2, RenderedTasks
<1>8. ASSUME NEW u \in Tasks, NEW p, NEW x, x.op # "batch", Send(u, selected, p, x)
      PROVE  FALSE
  <2>1. Render(list, selected, p, [task EXCEPT ![u] = x])
    BY <1>8 DEF Send
  <2>2. [task EXCEPT ![u] = x][t].op # "batch"
    BY <1>1, <1>8
  <2> QED BY <2>1, <2>2, RenderedTasks
<1>9. ASSUME NEW u \in Tasks, Refresh(u) PROVE FALSE
  BY <1>8, <1>9 DEF Refresh, Idle
<1>10. ASSUME NEW u \in Tasks, NEW confirmed, Delete(u, confirmed) PROVE FALSE
  <2> DEFINE x == [Idle EXCEPT !.op = "delete", !.pc = "call", !.ids = {selected},
                               !.left = {selected}, !.own = TRUE]
             p == [panel EXCEPT !.busy = TRUE]
  <2>1. Send(u, selected, p, x)
    BY <1>10 DEF Delete
  <2>2. x.op # "batch"
    BY DEF Idle
  <2> HIDE DEF x, p
  <2> QED BY <1>8, <2>1, <2>2
<1>11. ASSUME NEW u \in Tasks, NEW confirmed, BatchDelete(u, confirmed)
       PROVE  /\ task'[t].ids \subseteq Filtered(list, panel.filter)
              /\ \A c \in task'[t].ids: list[c] = "idle"
  <2>1. /\ panel # NoPanel /\ panel.checked \in SUBSET Convs /\ list \in Lists
        /\ panel.checked \subseteq Filtered(list, panel.filter)
    BY <1>11 DEF BatchDelete, IInv, TypeOK, CheckedIsShown, Panels
  <2>2. \A c \in panel.checked: list[c] = "idle"
    BY <1>11, <2>1 DEF BatchDelete, Filtered, InList, Lists, Shown
  <2>3. Began(u, "batch", panel.checked)
    <3>1. Send(u, selected, [panel EXCEPT !.busy = TRUE],
               [Idle EXCEPT !.op = "batch", !.pc = "call", !.ids = panel.checked,
                            !.left = panel.checked, !.own = TRUE])
      BY <1>11 DEF BatchDelete
    <3> QED BY <2>1, <3>1, DeletionStarts
  <2> QED BY <2>1, <2>2, <2>3 DEF Began
<1> QED
  BY <1>3, <1>4, <1>5, <1>6, <1>7, <1>9, <1>10, <1>11 DEF Operator

\* Nobody else begins a batch.
LEMMA OthersBegin == IInv /\ (Server \/ Landing \/ UNCHANGED vars) => NoBatch
<1> SUFFICES ASSUME IInv, Server \/ Landing \/ UNCHANGED vars,
                    NEW t \in Tasks, task[t].op = "none", task'[t].op = "batch"
             PROVE  FALSE
  BY DEF NoBatch
<1>1. task \in [Tasks -> TaskRecords]
  BY DEF IInv, TypeOK
<1>2. ASSUME UNCHANGED task PROVE FALSE
  BY <1>2
<1>3. ASSUME NEW u \in Tasks, NEW x, x.op # "batch", task' = [task EXCEPT ![u] = x]
      PROVE  FALSE
  BY <1>1, <1>3
<1>4. ASSUME NEW l, NEW s, NEW p, NEW u \in Tasks, NEW x, u = t => x.op # "batch",
             Render(l, s, p, [task EXCEPT ![u] = x])
      PROVE  FALSE
  <2>1. [task EXCEPT ![u] = x][t].op # "batch"
    BY <1>1, <1>4
  <2> QED BY <1>4, <2>1, RenderedTasks
<1>5. CASE Server
  <2>1. ASSUME NEW c, Create(c) \/ Continue(c) \/ Push(c) \/ Complete(c) \/ DeleteElsewhere(c)
        PROVE  FALSE
    BY <1>2, <2>1 DEF Create, Continue, Push, Complete, DeleteElsewhere, Become
  <2>2. ASSUME NEW c, NEW u \in Tasks, DeleteOne(u, c) PROVE FALSE
    BY <1>1, <2>2 DEF DeleteOne
  <2>3. ASSUME NEW u \in Tasks, ReadList(u) PROVE FALSE
    BY <1>1, <2>3 DEF ReadList
  <2>4. CASE Reconnect
    BY <1>2, <2>4 DEF Reconnect
  <2> QED BY <1>5, <2>1, <2>2, <2>3, <2>4 DEF Server
<1>6. CASE Landing
  <2>1. CASE LandEvent
    BY <2>1, RenderedTasks DEF LandEvent
  <2>2. ASSUME NEW c, LandSelected(c) PROVE FALSE
    BY <1>2, <2>2 DEF LandSelected
  <2>3. ASSUME NEW u \in Tasks, Deleted(u) PROVE FALSE
    <3> DEFINE x == [task[u] EXCEPT !.pc = "list"]
    <3>1. Render(list, selected, panel, [task EXCEPT ![u] = x])
      BY <2>3 DEF Deleted
    <3>2. x.op = task[u].op
      BY <1>1 DEF TaskRecords
    <3> HIDE DEF x
    <3> QED BY <1>4, <3>1, <3>2
  <2>4. ASSUME NEW u \in Tasks, LandList(u) PROVE FALSE
    <3>1. PICK target: Render(task[u].got, target, panel,
            [task EXCEPT ![u].pc = "detail", ![u].got = Empty, ![u].conv = target])
      BY <2>4 DEF LandList
    <3> DEFINE x == [task[u] EXCEPT !.pc = "detail", !.got = Empty, !.conv = target]
    <3>2. Render(task[u].got, target, panel, [task EXCEPT ![u] = x])
      BY <1>1, <3>1
    <3>3. x.op = task[u].op
      BY <1>1 DEF TaskRecords
    <3> HIDE DEF x
    <3> QED BY <1>4, <3>2, <3>3
  <2>5. Idle.op = "none"
    BY DEF Idle
  <2>6. ASSUME NEW u \in Tasks, End(u) \/ Fail(u) PROVE FALSE
    <3>1. PICK p: Render(list, selected, p, [task EXCEPT ![u] = Idle])
      BY <2>6 DEF End, Fail
    <3> QED BY <1>4, <2>5, <3>1
  <2> QED BY <1>6, <2>1, <2>2, <2>3, <2>4, <2>6 DEF Landing
<1>7. CASE UNCHANGED vars
  BY <1>2, <1>7 DEF vars
<1> QED BY <1>5, <1>6, <1>7

\* A batch deletes conversations that are on screen as it is sent, none of which is
\* shown as running, whatever was filtered, deleted by others or read anew after it
\* was checked (the effect that prunes what is checked).
THEOREM BatchAlways == Spec => BatchIsOnScreen
<1>1. IInv /\ [Next]_vars => BatchStep
  BY OperatorBegins, OthersBegin DEF Next, NoBatch, BatchStep
<1>2. IInv /\ [Next]_vars => [BatchStep]_vars
  BY <1>1
<1>3. (Spec => [][BatchStep]_vars) => (Spec => BatchIsOnScreen)
  BY DEF BatchStep, BatchIsOnScreen
<1> QED BY Inductive, <1>2, <1>3, PTL DEF Spec

-----------------------------------------------------------------------------
(* Merging the events. The loops are recursive functions: Iterated gives   *)
(* them their values, and Upward is the induction over the places.         *)

\* A set of numbers has a least one.
LEMMA LeastOf ==
  ASSUME NEW T \in SUBSET Nat, T # {}
  PROVE  \E x \in T : \A y \in T : x <= y
<1> DEFINE Less == {p \in Nat \X Nat : p[1] < p[2]}
<1>1. Less = OpToRel(<, Nat)
  BY DEF OpToRel
<1>2. IsWellFoundedOn(Less, Nat)
  BY <1>1, NatLessThanWellFounded
<1>3. PICK x \in T : \A y \in T : ~(<<y, x>> \in Less)
  BY <1>2, WFMin
<1>4. ASSUME NEW y \in T PROVE x <= y
  <2>1. x \in Nat /\ y \in Nat /\ <<y, x>> \in Nat \X Nat
    OBVIOUS
  <2>2. y < x => <<y, x>> \in Less
    BY <2>1
  <2> QED BY <1>3, <2>1, <2>2
<1> QED BY <1>4

\* A set that has 0 and with each number the next has all up to n.
LEMMA Upward ==
  ASSUME NEW n \in Nat, NEW G, 0 \in G, \A i \in 0..n - 1 : i \in G => i + 1 \in G
  PROVE  \A i \in 0..n : i \in G
<1> DEFINE T == {k \in 0..n : k \notin G}
<1>1. SUFFICES ASSUME T # {} PROVE FALSE
  OBVIOUS
<1>2. T \in SUBSET Nat
  OBVIOUS
<1>3. PICK k \in T : \A j \in T : k <= j
  <2> HIDE DEF T
  <2> QED BY <1>1, <1>2, LeastOf
<1>4. k \in 0..n /\ k \notin G /\ k # 0
  OBVIOUS
<1>5. k - 1 \in 0..n - 1 /\ k - 1 + 1 = k
  BY <1>4
<1>6. k - 1 \notin T
  BY <1>3, <1>4, <1>5
<1> QED BY <1>4, <1>5, <1>6

\* find and findIndex give the first place of an id.
LEMMA PlaceFacts ==
  ASSUME NEW R, NEW items \in Seq(R), NEW id \in IdsOf(items)
  PROVE  /\ PlaceOf(items, id) \in 1..Len(items)
         /\ items[PlaceOf(items, id)].id = id
         /\ \A j \in 1..Len(items) : items[j].id = id => PlaceOf(items, id) <= j
<1> DEFINE T == {i \in 1..Len(items) : items[i].id = id}
<1>1. T # {} /\ T \in SUBSET Nat /\ DOMAIN items = 1..Len(items) /\ Len(items) \in Nat
  BY DEF IdsOf
<1>2. PICK k \in T : \A j \in T : k <= j
  <2> HIDE DEF T
  <2> QED BY <1>1, LeastOf
<1>3. \A j \in 1..k - 1 : items[j].id # id
  <2> TAKE j \in 1..k - 1
  <2>1. j \in 1..Len(items) /\ ~(k <= j)
    BY <1>1
  <2> QED BY <1>2, <2>1
<1> DEFINE p == PlaceOf(items, id)
<1>4. p \in 1..Len(items) /\ items[p].id = id /\ \A j \in 1..p - 1 : items[j].id # id
  BY <1>1, <1>3 DEF PlaceOf
<1> HIDE DEF p
<1>5. ASSUME NEW j \in 1..Len(items), items[j].id = id PROVE p <= j
  <2>1. ~(j \in 1..p - 1)
    BY <1>4, <1>5
  <2> QED BY <1>1, <1>4, <2>1
<1> QED BY <1>4, <1>5 DEF p

\* Where no id is twice, the place of one is the only one.
LEMMA PlaceIsOnly ==
  ASSUME NEW R, NEW items \in Seq(R), DistinctIds(items), NEW i \in DOMAIN items
  PROVE  items[i].id \in IdsOf(items) /\ PlaceOf(items, items[i].id) = i
<1>1. items[i].id \in IdsOf(items) /\ DOMAIN items = 1..Len(items)
  BY DEF IdsOf
<1> QED BY <1>1, PlaceFacts DEF DistinctIds

\* An appended item does not move the others.
LEMMA PlaceAppended ==
  ASSUME NEW R, NEW items \in Seq(R), NEW x \in R, NEW id \in IdsOf(items)
  PROVE  PlaceOf(Append(items, x), id) = PlaceOf(items, id)
<1> DEFINE w == Append(items, x)
           n == Len(items)
<1>1. /\ w \in Seq(R) /\ Len(w) = n + 1 /\ DOMAIN w = 1..n + 1 /\ DOMAIN items = 1..n /\ n \in Nat
      /\ \A i \in 1..n : w[i] = items[i]
  OBVIOUS
<1> HIDE DEF w, n
<1>2. id \in IdsOf(w)
  BY <1>1 DEF IdsOf
<1>3. PlaceOf(items, id) \in 1..n /\ items[PlaceOf(items, id)].id = id
      /\ \A j \in 1..n : items[j].id = id => PlaceOf(items, id) <= j
  BY PlaceFacts DEF n
<1>4. PlaceOf(w, id) \in 1..n + 1 /\ w[PlaceOf(w, id)].id = id
      /\ \A j \in 1..n + 1 : w[j].id = id => PlaceOf(w, id) <= j
  BY <1>1, <1>2, PlaceFacts
<1>5. PlaceOf(w, id) <= PlaceOf(items, id)
  BY <1>1, <1>3, <1>4
<1>6. PlaceOf(w, id) \in 1..n
  BY <1>1, <1>3, <1>4, <1>5
<1>7. PlaceOf(items, id) <= PlaceOf(w, id)
  BY <1>1, <1>3, <1>4, <1>6
<1> QED BY <1>3, <1>4, <1>5, <1>7 DEF w

\* An id that was not there is in the last place.
LEMMA PlaceOfNew ==
  ASSUME NEW R, NEW items \in Seq(R), NEW x \in R, x.id \notin IdsOf(items)
  PROVE  PlaceOf(Append(items, x), x.id) = Len(items) + 1
<1> DEFINE w == Append(items, x)
           n == Len(items)
<1>1. /\ w \in Seq(R) /\ Len(w) = n + 1 /\ DOMAIN w = 1..n + 1 /\ DOMAIN items = 1..n /\ n \in Nat
      /\ \A i \in 1..n : w[i] = items[i]
      /\ w[n + 1] = x
  OBVIOUS
<1> HIDE DEF w, n
<1>2. x.id \in IdsOf(w) /\ \A i \in 1..n : items[i].id # x.id
  BY <1>1 DEF IdsOf
<1>4. PlaceOf(w, x.id) \in 1..n + 1 /\ w[PlaceOf(w, x.id)].id = x.id
  BY <1>1, <1>2, PlaceFacts
<1> QED BY <1>1, <1>2, <1>4 DEF w, n

\* The last of some places.
LEMMA LatestFacts ==
  ASSUME NEW n \in Nat, NEW T \in SUBSET (1..n), T # {}
  PROVE  Latest(T) \in T /\ \A j \in T : j <= Latest(T)
<1> DEFINE U == {n - k : k \in T}
<1>1. U \in SUBSET Nat /\ U # {}
  <2>1. PICK k \in T : TRUE
    OBVIOUS
  <2>2. n - k \in U
    OBVIOUS
  <2>3. \A k1 \in 1..n : n - k1 \in Nat
    OBVIOUS
  <2> QED BY <2>2, <2>3
<1>2. PICK m \in U : \A y \in U : m <= y
  <2> HIDE DEF U
  <2> QED BY <1>1, LeastOf
<1>3. PICK k \in T : m = n - k
  BY <1>2
<1>4. \A j \in T : j <= k
  <2> TAKE j \in T
  <2>1. n - j \in U /\ j \in Nat /\ k \in Nat
    OBVIOUS
  <2> QED BY <1>2, <1>3, <2>1
<1> QED BY <1>4 DEF Latest

\* The last of places that come with a later one is that one.
LEMMA LatestAdded ==
  ASSUME NEW n \in Nat, NEW T, n + 1 \in T, \A k \in T : k \in 1..n + 1
  PROVE  Latest(T) = n + 1
<1>1. T \in SUBSET (1..(n + 1)) /\ T # {} /\ n + 1 \in Nat
  OBVIOUS
<1>2. Latest(T) \in T /\ \A j \in T : j <= Latest(T)
  BY <1>1, LatestFacts
<1> QED BY <1>2

\* f takes the steps h from a, one after the other.
Follows(f, n, S, a, h) ==
  f \in [0..n -> S] /\ f[0] = a /\ \A i \in 1..n : f[i] = h[i][f[i - 1]]

\* There is such a function.
LEMMA Iterated ==
  ASSUME NEW n \in Nat, NEW S, NEW a \in S, NEW h \in [1..n -> [S -> S]]
  PROVE  \E f : Follows(f, n, S, a, h)
<1> DEFINE Good(k, f) == f \in [0..k -> S] /\ f[0] = a /\ \A i \in 1..k : f[i] = h[i][f[i - 1]]
           G == {k \in 0..n : \E f : Good(k, f)}
<1>1. 0 \in G
  <2>1. Good(0, [i \in 0..0 |-> a])
    OBVIOUS
  <2> HIDE DEF Good
  <2>2. \E f : Good(0, f)
    BY <2>1
  <2> QED BY <2>2
<1>2. ASSUME NEW k \in 0..n - 1, k \in G PROVE k + 1 \in G
  <2>1. PICK f : Good(k, f)
    BY <1>2
  <2> DEFINE g == [i \in 0..k + 1 |-> IF i = k + 1 THEN h[k + 1][f[k]] ELSE f[i]]
  <2>2. f[k] \in S /\ h[k + 1] \in [S -> S] /\ k \in Nat
    BY <2>1
  <2>3. g \in [0..k + 1 -> S]
    <3> SUFFICES ASSUME NEW i \in 0..k + 1
                 PROVE  (IF i = k + 1 THEN h[k + 1][f[k]] ELSE f[i]) \in S
      OBVIOUS
    <3>1. CASE i = k + 1
      BY <2>2, <3>1
    <3>2. CASE i # k + 1
      BY <2>1, <2>2, <3>2
    <3> QED BY <3>1, <3>2
  <2>4. g[0] = a
    BY <2>1, <2>2
  <2>5. ASSUME NEW i \in 1..k + 1 PROVE g[i] = h[i][g[i - 1]]
    <3>1. i - 1 \in 0..k /\ i - 1 # k + 1 /\ i \in 0..k + 1
      BY <2>2
    <3>2. g[i - 1] = f[i - 1]
      BY <3>1
    <3>3. CASE i = k + 1
      BY <2>2, <3>2, <3>3
    <3>4. CASE i # k + 1
      BY <2>1, <2>2, <3>1, <3>2, <3>4
    <3> QED BY <3>3, <3>4
  <2> HIDE DEF g
  <2>6. Good(k + 1, g)
    BY <2>3, <2>4, <2>5
  <2> HIDE DEF Good
  <2>7. \E e : Good(k + 1, e)
    BY <2>6
  <2> QED BY <2>2, <2>7
<1>3. n \in G
  <2> HIDE DEF G
  <2>1. n \in 0..n
    OBVIOUS
  <2> QED BY <1>1, <1>2, <2>1, Upward
<1> QED BY <1>3 DEF Follows

\* q gives the places of the rows of the other conversations in o.
OtherPlaces(o, rows, id, q) ==
  /\ q \in [1..Len(o) -> 1..Len(rows)]
  /\ \A i \in 1..Len(o) : o[i] = rows[q[i]] /\ rows[q[i]].id # id
  /\ \A i, j \in 1..Len(o) : i < j => q[i] < q[j]
  /\ \A j \in 1..Len(rows) : rows[j].id # id => \E i \in 1..Len(o) : q[i] = j

\* There are such places: the other rows are all there, in their order.
LEMMA OthersFacts ==
  ASSUME NEW R, NEW rows \in Seq(R), NEW id
  PROVE  Others(rows, id) \in Seq(R) /\ \E q : OtherPlaces(Others(rows, id), rows, id, q)
<1> DEFINE L == Len(rows)
           F(f) == [n \in 0..L |-> IF n = 0 THEN <<>>
                                   ELSE IF rows[n].id = id THEN f[n - 1] ELSE Append(f[n - 1], rows[n])]
           u == CHOOSE f : f = F(f)
           Good(n, w, q) ==
             /\ w \in Seq(R) /\ q \in [1..Len(w) -> 1..n]
             /\ \A i \in 1..Len(w) : w[i] = rows[q[i]] /\ rows[q[i]].id # id
             /\ \A i, j \in 1..Len(w) : i < j => q[i] < q[j]
             /\ \A j \in 1..n : rows[j].id # id => \E i \in 1..Len(w) : q[i] = j
           G == {n \in 0..L : \E q : Good(n, u[n], q)}
<1>1. L \in Nat /\ \A n \in 1..L : rows[n] \in R
  OBVIOUS
<1>2. \E f : f = F(f)
  <2> DEFINE h == [n \in 1..L |-> [s \in Seq(R) |-> IF rows[n].id = id THEN s ELSE Append(s, rows[n])]]
  <2>1. h \in [1..L -> [Seq(R) -> Seq(R)]]
    BY <1>1
  <2>2. <<>> \in Seq(R)
    OBVIOUS
  <2>3. PICK f \in [0..L -> Seq(R)] : f[0] = <<>> /\ \A i \in 1..L : f[i] = h[i][f[i - 1]]
    <3> DEFINE S == Seq(R)
               a == <<>>
    <3>1. h \in [1..L -> [S -> S]] /\ a \in S /\ L \in Nat
      BY <1>1, <2>1, <2>2
    <3> HIDE DEF h, L, S, a, F, u, G, Good
    <3>2. \E f : Follows(f, L, S, a, h)
      BY <3>1, Iterated
    <3> QED BY <3>2 DEF S, a, Follows
  <2>4. ASSUME NEW n \in 0..L
        PROVE  f[n] = IF n = 0 THEN <<>>
                      ELSE IF rows[n].id = id THEN f[n - 1] ELSE Append(f[n - 1], rows[n])
    <3>1. CASE n = 0
      BY <2>3, <3>1
    <3>2. CASE n # 0
      <4>1. n \in 1..L /\ f[n - 1] \in Seq(R)
        BY <1>1, <2>3, <3>2
      <4> QED BY <2>3, <3>2, <4>1
    <3> QED BY <3>1, <3>2
  <2>5. f = F(f)
    BY <2>3, <2>4
  <2> QED BY <2>5
<1>3. u = F(u)
  BY <1>2
<1>4. Others(rows, id) = u[L]
  BY DEF Others
<1> HIDE DEF u
<1>5. u[0] = <<>> /\ \A n \in 1..L : u[n] = IF rows[n].id = id THEN u[n - 1] ELSE Append(u[n - 1], rows[n])
  <2>1. \A n \in 0..L : u[n] = IF n = 0 THEN <<>>
                      ELSE IF rows[n].id = id THEN u[n - 1] ELSE Append(u[n - 1], rows[n])
    BY <1>3
  <2> HIDE DEF F, L
  <2> QED BY <1>1, <2>1
<1> HIDE DEF L, F
<1>6. 0 \in G
  <2>1. Good(0, u[0], <<>>)
    BY <1>5
  <2> QED BY <1>1, <2>1
<1>7. ASSUME NEW n \in 0..L - 1, n \in G PROVE n + 1 \in G
  <2>1. PICK q : Good(n, u[n], q)
    BY <1>7
  <2> DEFINE w == u[n]
             m == Len(w)
             k == n + 1
  <2>2. /\ w \in Seq(R) /\ m \in Nat /\ q \in [1..m -> 1..n]
        /\ \A i \in 1..m : w[i] = rows[q[i]] /\ rows[q[i]].id # id
        /\ \A i, j \in 1..m : i < j => q[i] < q[j]
        /\ \A j \in 1..n : rows[j].id # id => \E i \in 1..m : q[i] = j
    BY <2>1
  <2>3. k \in 1..L /\ k - 1 = n /\ n \in Nat /\ rows[k] \in R /\ k \in 0..L
    BY <1>1
  <2>4. u[k] = IF rows[k].id = id THEN w ELSE Append(w, rows[k])
    BY <1>5, <2>3
  <2> HIDE DEF w, m
  <2>5. CASE rows[k].id = id
    <3>1. u[k] = w
      BY <2>4, <2>5
    <3>2. q \in [1..m -> 1..k] /\ \A j \in 1..k : rows[j].id # id => \E i \in 1..m : q[i] = j
      BY <2>2, <2>3, <2>5
    <3>3. Good(k, w, q)
      BY <2>2, <3>2 DEF m
    <3> QED BY <2>3, <3>1, <3>3
  <2>6. CASE rows[k].id # id
    <3> DEFINE x  == Append(w, rows[k])
               q2 == [i \in 1..m + 1 |-> IF i = m + 1 THEN k ELSE q[i]]
    <3>1. /\ x \in Seq(R) /\ Len(x) = m + 1 /\ x[m + 1] = rows[k]
          /\ \A i \in 1..m : x[i] = w[i]
      BY <2>2, <2>3 DEF m
    <3>2. q2 \in [1..m + 1 -> 1..k] /\ q2[m + 1] = k /\ \A i \in 1..m : q2[i] = q[i]
      BY <2>2, <2>3
    <3> HIDE DEF x, q2, k
    <3>3. \A i \in 1..m + 1 : x[i] = rows[q2[i]] /\ rows[q2[i]].id # id
      BY <2>2, <2>6, <3>1, <3>2
    <3>4. \A i, j \in 1..m + 1 : i < j => q2[i] < q2[j]
      <4> SUFFICES ASSUME NEW i \in 1..m + 1, NEW j \in 1..m + 1, i < j PROVE q2[i] < q2[j]
        OBVIOUS
      <4>1. i \in 1..m /\ q[i] \in 1..n
        BY <2>2
      <4>2. CASE j = m + 1
        BY <2>3, <3>2, <4>1, <4>2 DEF k
      <4>3. CASE j # m + 1
        BY <2>2, <3>2, <4>1, <4>3
      <4> QED BY <4>2, <4>3
    <3>5. ASSUME NEW j \in 1..k, rows[j].id # id PROVE \E i \in 1..m + 1 : q2[i] = j
      <4>1. CASE j = k
        BY <2>2, <3>2, <4>1
      <4>2. CASE j # k
        <5>1. j \in 1..n
          BY <2>3, <4>2 DEF k
        <5>2. PICK i \in 1..m : q[i] = j
          BY <2>2, <3>5, <5>1
        <5> QED BY <2>2, <3>2, <5>2
      <4> QED BY <4>1, <4>2
    <3>6. Good(k, x, q2)
      BY <3>1, <3>2, <3>3, <3>4, <3>5
    <3>7. u[k] = x
      BY <2>4, <2>6 DEF x
    <3> QED BY <2>3, <3>6, <3>7 DEF k
  <2> QED BY <2>5, <2>6
<1>8. L \in G
  <2> HIDE DEF G
  <2>1. L \in 0..L
    BY <1>1
  <2> QED BY <1>1, <1>6, <1>7, <2>1, Upward
<1>9. PICK q : Good(L, u[L], q)
  BY <1>8
<1>10. u[L] \in Seq(R) /\ OtherPlaces(u[L], rows, id, q)
  BY <1>9 DEF OtherPlaces, L
<1> QED BY <1>4, <1>10

\* Sorting puts each row in one place, newest first, and those of one time
\* in the order they had.
Sorted(rows, p) ==
  LET n == Len(rows)
  IN /\ p \in [1..n -> 1..n] /\ \A j \in 1..n : \E k \in 1..n : p[k] = j
     /\ \A k \in 1..n : SortConversations(rows)[k] = rows[p[k]]
     /\ \A a, b \in 1..n : a < b =>
          \/ rows[p[a]].time > rows[p[b]].time
          \/ rows[p[a]].time = rows[p[b]].time /\ p[a] < p[b]

LEMMA SortFacts ==
  ASSUME NEW R, \A x \in R : x.time \in Nat, NEW rows \in Seq(R)
  PROVE  /\ SortConversations(rows) \in Seq(R) /\ Len(SortConversations(rows)) = Len(rows)
         /\ \E p : Sorted(rows, p)
<1> DEFINE n == Len(rows)
           D == 1..n
           before(i, j) == \/ rows[i].time > rows[j].time
                           \/ rows[i].time = rows[j].time /\ i <= j
           B(j) == {i \in D : before(i, j)}
           r == [j \in D |-> Cardinality(B(j))]
           p == [k \in D |-> CHOOSE j \in D : Cardinality(B(j)) = k]
           w == SortConversations(rows)
<1>1. n \in Nat /\ DOMAIN rows = D /\ \A j \in D : rows[j] \in R /\ rows[j].time \in Nat /\ j \in Nat
  OBVIOUS
<1>2. IsFiniteSet(D) /\ Cardinality(D) = n
  BY <1>1, FS_Interval
<1>3. w = [k \in D |-> rows[CHOOSE j \in D : Cardinality(B(j)) = k]]
  BY <1>1 DEF SortConversations
<1>4. \A i, j \in D : before(i, j) \/ before(j, i)
  BY <1>1
<1>5. \A i, j, k \in D : before(i, j) /\ before(j, k) => before(i, k)
  BY <1>1
<1>6. \A i, j \in D : before(i, j) /\ before(j, i) => i = j
  BY <1>1
<1> HIDE DEF before, D
<1>7. \A j \in D : IsFiniteSet(B(j)) /\ Cardinality(B(j)) \in Nat /\ Cardinality(B(j)) <= n
  <2> TAKE j \in D
  <2>1. B(j) \in SUBSET D
    OBVIOUS
  <2> HIDE DEF B
  <2> QED BY <1>2, <2>1, FS_Subset, FS_CardinalityType
<1>8. \A j \in D : Cardinality(B(j)) # 0
  <2> TAKE j \in D
  <2>1. j \in B(j)
    BY <1>4
  <2> QED BY <1>7, <2>1, FS_EmptySet
<1>9. r \in [D -> D]
  <2> SUFFICES ASSUME NEW j \in D PROVE Cardinality(B(j)) \in D
    OBVIOUS
  <2> DEFINE b == Cardinality(B(j))
  <2>1. b \in Nat /\ b <= n /\ b # 0
    BY <1>7, <1>8
  <2> HIDE DEF b, n
  <2>2. b \in D
    BY <1>1, <2>1 DEF D
  <2> QED BY <2>2 DEF b
<1>10. ASSUME NEW i \in D, NEW j \in D, i # j, before(i, j) PROVE r[i] < r[j]
  <2>1. B(i) \in SUBSET B(j) /\ j \in B(j) /\ j \notin B(i)
    BY <1>4, <1>5, <1>6, <1>10
  <2> HIDE DEF B
  <2>2. Cardinality(B(i)) <= Cardinality(B(j)) /\ Cardinality(B(i)) # Cardinality(B(j))
    BY <1>7, <2>1, FS_Subset
  <2> QED BY <1>7, <2>2
<1> HIDE DEF B
<1>11. \A i, j \in D : r[i] = r[j] => i = j
  <2> SUFFICES ASSUME NEW i \in D, NEW j \in D, r[i] = r[j], i # j PROVE FALSE
    OBVIOUS
  <2>1. r[i] \in Nat /\ r[j] \in Nat
    BY <1>7
  <2>2. r[i] < r[j] \/ r[j] < r[i]
    BY <1>4, <1>10
  <2> QED BY <2>1, <2>2
<1> HIDE DEF r
<1>12. \A k \in D : \E j \in D : r[j] = k
  <2>1. r \in Injection(D, D)
    BY <1>9, <1>11 DEF Injection, IsInjective
  <2>2. r \in Surjection(D, D)
    BY <1>2, <2>1, FS_Injection
  <2> QED BY <2>2 DEF Surjection
<1>13. p \in [D -> D] /\ \A k \in D : r[p[k]] = k
  <2>1. \A k \in D : \E j \in D : Cardinality(B(j)) = k
    BY <1>12 DEF r
  <2>2. \A k \in D : p[k] \in D /\ Cardinality(B(p[k])) = k
    BY <2>1
  <2>3. p \in [D -> D]
    BY <2>2
  <2> HIDE DEF p
  <2> QED BY <2>2, <2>3 DEF r
<1>14. w = [k \in D |-> rows[p[k]]]
  BY <1>3
<1> HIDE DEF p, w
<1>15. w \in Seq(R) /\ Len(w) = n /\ \A k \in D : w[k] = rows[p[k]]
  BY <1>1, <1>13, <1>14 DEF D
<1>16. \A j \in D : \E k \in D : p[k] = j
  <2> TAKE j \in D
  <2>1. r[j] \in D
    BY <1>9
  <2>2. p[r[j]] \in D /\ r[p[r[j]]] = r[j]
    BY <1>13, <2>1
  <2> QED BY <1>11, <2>1, <2>2
<1>17. ASSUME NEW a \in D, NEW b \in D, a < b
       PROVE  \/ rows[p[a]].time > rows[p[b]].time
              \/ rows[p[a]].time = rows[p[b]].time /\ p[a] < p[b]
  <2>1. p[a] \in D /\ p[b] \in D /\ r[p[a]] = a /\ r[p[b]] = b
    BY <1>13
  <2>2. p[a] # p[b] /\ ~(b < a)
    BY <1>1, <1>17, <2>1
  <2>3. ~before(p[b], p[a])
    BY <1>10, <2>1, <2>2
  <2>4. before(p[a], p[b])
    BY <1>4, <2>1, <2>3
  <2> QED BY <1>1, <2>1, <2>2, <2>4 DEF before
<1>18. Sorted(rows, p)
  BY <1>13, <1>15, <1>16, <1>17 DEF Sorted, D, w
<1> QED BY <1>15, <1>18 DEF w

\* Rows of conversations of I, as they are shown or come with an event.
RowsOf(I) ==
  [id: I, time: Nat, thread: {Home, Elsewhere}, title: {NoTitle, OldTitle, NewTitle},
   origin: {"local", "merged"}]

\* What the event makes of the row that is shown.
MergedRow(rows, next) ==
  IF next.id \in IdsOf(rows) THEN MergeSummary(rows[PlaceOf(rows, next.id)], next) ELSE next

\* It is the row of the event, but for its title.
LEMMA MergedFacts ==
  ASSUME NEW I, NEW rows \in Seq(RowsOf(I)), NEW next \in RowsOf(I)
  PROVE  /\ MergedRow(rows, next) \in RowsOf(I) /\ MergedRow(rows, next).id = next.id
         /\ MergedRow(rows, next) = [next EXCEPT !.title = MergedRow(rows, next).title]
<1> DEFINE cur == rows[PlaceOf(rows, next.id)]
<1>1. CASE next.id \notin IdsOf(rows)
  <2>1. MergedRow(rows, next) = next
    BY <1>1 DEF MergedRow
  <2> QED BY <2>1 DEF RowsOf
<1>2. CASE next.id \in IdsOf(rows)
  <2>1. cur \in RowsOf(I)
    BY <1>2, PlaceFacts
  <2> HIDE DEF cur
  <2> DEFINE t == MergedRow(rows, next).title
  <2>2. /\ MergedRow(rows, next) = [next EXCEPT !.title = t]
        /\ t \in {NoTitle, OldTitle, NewTitle}
    BY <1>2, <2>1 DEF MergedRow, MergeSummary, OrElse, RowsOf, cur
  <2> HIDE DEF t
  <2> QED BY <2>2 DEF RowsOf, t
<1> QED BY <1>1, <1>2

\* An event puts its row where its time belongs, behind those of the same
\* time, and leaves the others in their order.
LEMMA UpsertFacts ==
  ASSUME NEW I, NEW rows \in Seq(RowsOf(I)), DistinctIds(rows), NEW next \in RowsOf(I)
  PROVE  LET after == UpsertSummary(rows, next)
         IN  /\ after \in Seq(RowsOf(I)) /\ DistinctIds(after)
             /\ IdsOf(after) = IdsOf(rows) \cup {next.id}
             /\ \A i \in DOMAIN after :
                  after[i] = IF after[i].id = next.id THEN MergedRow(rows, next)
                                                      ELSE rows[PlaceOf(rows, after[i].id)]
             /\ \A i, j \in DOMAIN after : i < j =>
                  \/ after[i].time > after[j].time
                  \/ /\ after[i].time = after[j].time /\ after[i].id # next.id
                     /\ \/ after[j].id = next.id
                        \/ PlaceOf(rows, after[i].id) < PlaceOf(rows, after[j].id)
<1> DEFINE R == RowsOf(I)
           o == Others(rows, next.id)
           m == Len(o)
           x == MergedRow(rows, next)
           w == Append(o, x)
           L == Len(rows)
           after == UpsertSummary(rows, next)
<1>1. PICK q :
        /\ o \in Seq(R) /\ q \in [1..m -> 1..L]
        /\ \A i \in 1..m : o[i] = rows[q[i]] /\ rows[q[i]].id # next.id
        /\ \A i, j \in 1..m : i < j => q[i] < q[j]
        /\ \A j \in 1..L : rows[j].id # next.id => \E i \in 1..m : q[i] = j
  <2>1. Others(rows, next.id) \in Seq(R) /\ \E q : OtherPlaces(Others(rows, next.id), rows, next.id, q)
    BY OthersFacts
  <2> QED BY <2>1 DEF OtherPlaces
<1>2. after = SortConversations(w)
  BY DEF UpsertSummary, MergedRow
<1>3. x \in R /\ x.id = next.id
  BY MergedFacts
<1>4. m \in Nat /\ L \in Nat /\ DOMAIN rows = 1..L /\ \A i \in 1..L : rows[i] \in R
  BY <1>1
<1> HIDE DEF R, o, m, x, L, after
<1>5. w \in Seq(R) /\ Len(w) = m + 1 /\ w[m + 1] = x /\ \A i \in 1..m : w[i] = o[i]
  BY <1>1, <1>3 DEF m
<1> HIDE DEF w
<1>6. \A y \in R : y.time \in Nat
  BY DEF R, RowsOf
<1>7. after \in Seq(R) /\ Len(after) = m + 1 /\ \E p : Sorted(w, p)
  BY <1>2, <1>5, <1>6, SortFacts
<1>8. PICK p : Sorted(w, p)
  BY <1>7
<1>9. /\ p \in [1..m + 1 -> 1..m + 1] /\ \A j \in 1..m + 1 : \E k \in 1..m + 1 : p[k] = j
      /\ \A k \in 1..m + 1 : after[k] = w[p[k]]
      /\ \A a, b \in 1..m + 1 : a < b =>
           \/ w[p[a]].time > w[p[b]].time
           \/ w[p[a]].time = w[p[b]].time /\ p[a] < p[b]
  BY <1>2, <1>5, <1>8 DEF Sorted
<1>10. DOMAIN after = 1..m + 1
  BY <1>4, <1>7
<1>11. \A i \in 1..m : /\ q[i] \in 1..L /\ w[i] = rows[q[i]] /\ w[i].id # next.id
                       /\ w[i].id \in IdsOf(rows) /\ PlaceOf(rows, w[i].id) = q[i]
  <2> TAKE i \in 1..m
  <2>1. q[i] \in 1..L /\ w[i] = rows[q[i]] /\ w[i].id # next.id
    BY <1>1, <1>5
  <2> QED BY <1>4, <2>1, PlaceIsOnly
<1>12. w[m + 1].id = next.id
  BY <1>3, <1>5
<1>13. DistinctIds(w)
  <2> SUFFICES ASSUME NEW i \in 1..m + 1, NEW j \in 1..m + 1, w[i].id = w[j].id, i < j PROVE FALSE
    <3>1. DOMAIN w = 1..m + 1
      BY <1>4, <1>5
    <3> QED BY <1>4, <3>1 DEF DistinctIds
  <2>1. i \in 1..m
    BY <1>4
  <2>2. CASE j = m + 1
    BY <1>11, <1>12, <2>1, <2>2
  <2>3. CASE j # m + 1
    <3>1. j \in 1..m
      BY <1>4, <2>3
    <3>2. q[i] = q[j] /\ q[i] < q[j] /\ q[i] \in 1..L /\ q[j] \in 1..L
      BY <1>1, <1>11, <2>1, <3>1
    <3> QED BY <1>4, <3>2
  <2> QED BY <2>2, <2>3
<1>14. DistinctIds(after)
  <2> SUFFICES ASSUME NEW i \in 1..m + 1, NEW j \in 1..m + 1, after[i].id = after[j].id, i < j
               PROVE  FALSE
    BY <1>4, <1>10 DEF DistinctIds
  <2>1. p[i] \in 1..m + 1 /\ p[j] \in 1..m + 1 /\ w[p[i]].id = w[p[j]].id
    BY <1>9
  <2>2. p[i] = p[j]
    BY <1>4, <1>5, <1>13, <2>1 DEF DistinctIds
  <2>3. w[p[i]].time \in Nat
    BY <1>4, <1>5, <1>6, <2>1
  <2>4. \/ w[p[i]].time > w[p[j]].time
        \/ w[p[i]].time = w[p[j]].time /\ p[i] < p[j]
    BY <1>9
  <2> QED BY <1>4, <2>1, <2>2, <2>3, <2>4
<1>15. IdsOf(after) = IdsOf(rows) \cup {next.id}
  <2>1. ASSUME NEW i \in 1..m + 1 PROVE after[i].id \in IdsOf(rows) \cup {next.id}
    <3>1. p[i] \in 1..m + 1 /\ after[i] = w[p[i]]
      BY <1>9
    <3>2. CASE p[i] = m + 1
      BY <1>12, <3>1, <3>2
    <3>3. CASE p[i] # m + 1
      BY <1>4, <1>11, <3>1, <3>3
    <3> QED BY <3>2, <3>3
  <2>2. next.id \in IdsOf(after)
    <3>1. m + 1 \in 1..m + 1
      BY <1>4
    <3>2. PICK k \in 1..m + 1 : p[k] = m + 1
      BY <1>9, <3>1
    <3>3. after[k].id = next.id
      BY <1>9, <1>12, <3>2
    <3> QED BY <1>10, <3>3 DEF IdsOf
  <2>3. ASSUME NEW j \in 1..L, rows[j].id # next.id PROVE rows[j].id \in IdsOf(after)
    <3>1. PICK i \in 1..m : q[i] = j
      BY <1>1, <2>3
    <3>2. i \in 1..m + 1 /\ w[i] = rows[j]
      BY <1>4, <1>11, <3>1
    <3>3. PICK k \in 1..m + 1 : p[k] = i
      BY <1>9, <3>2
    <3>4. after[k] = rows[j]
      BY <1>9, <3>2, <3>3
    <3> QED BY <1>10, <3>4 DEF IdsOf
  <2> QED BY <1>4, <1>10, <2>1, <2>2, <2>3 DEF IdsOf
<1>16. ASSUME NEW i \in DOMAIN after
       PROVE  after[i] = IF after[i].id = next.id THEN x ELSE rows[PlaceOf(rows, after[i].id)]
  <2>1. p[i] \in 1..m + 1 /\ after[i] = w[p[i]]
    BY <1>9, <1>10
  <2>2. CASE p[i] = m + 1
    BY <1>5, <1>12, <2>1, <2>2
  <2>3. CASE p[i] # m + 1
    BY <1>4, <1>11, <2>1, <2>3
  <2> QED BY <2>2, <2>3
<1>17. ASSUME NEW i \in DOMAIN after, NEW j \in DOMAIN after, i < j
       PROVE  \/ after[i].time > after[j].time
              \/ /\ after[i].time = after[j].time /\ after[i].id # next.id
                 /\ \/ after[j].id = next.id
                    \/ PlaceOf(rows, after[i].id) < PlaceOf(rows, after[j].id)
  <2>1. /\ p[i] \in 1..m + 1 /\ after[i] = w[p[i]]
        /\ p[j] \in 1..m + 1 /\ after[j] = w[p[j]]
        /\ \/ w[p[i]].time > w[p[j]].time
           \/ w[p[i]].time = w[p[j]].time /\ p[i] < p[j]
    BY <1>9, <1>10, <1>17
  <2>2. SUFFICES ASSUME w[p[i]].time = w[p[j]].time, p[i] < p[j]
                 PROVE  /\ after[i].id # next.id
                        /\ \/ after[j].id = next.id
                           \/ PlaceOf(rows, after[i].id) < PlaceOf(rows, after[j].id)
    BY <2>1
  <2>3. p[i] \in 1..m
    BY <1>4, <2>1, <2>2
  <2>4. CASE p[j] = m + 1
    BY <1>11, <1>12, <2>1, <2>3, <2>4
  <2>5. CASE p[j] # m + 1
    <3>1. p[j] \in 1..m
      BY <1>4, <2>1, <2>5
    <3> QED BY <1>1, <1>11, <2>1, <2>2, <2>3, <3>1
  <2> QED BY <2>4, <2>5
<1> QED BY <1>7, <1>14, <1>15, <1>16, <1>17 DEF after, R, x

\* What one more event changes in what was heard of a conversation.
LEMMA HeardAppended ==
  ASSUME NEW R, NEW events \in Seq(R), NEW next \in R
  PROVE  LET more == Append(events, next)
         IN  /\ IdsOf(more) = IdsOf(events) \cup {next.id}
             /\ LastOf(more, next.id) = Len(events) + 1 /\ more[Len(events) + 1] = next
             /\ \A id \in IdsOf(events) : id # next.id =>
                  /\ LastOf(more, id) = LastOf(events, id)
                  /\ LastOf(events, id) \in 1..Len(events)
                  /\ more[LastOf(events, id)] = events[LastOf(events, id)]
<1> DEFINE n    == Len(events)
           more == Append(events, next)
           own(id) == {k \in DOMAIN events : events[k].id = id}
           all(id) == {k \in DOMAIN more : more[k].id = id}
<1>1. /\ n \in Nat /\ more \in Seq(R) /\ DOMAIN events = 1..n /\ DOMAIN more = 1..n + 1
      /\ more[n + 1] = next /\ \A i \in 1..n : more[i] = events[i]
  OBVIOUS
<1> HIDE DEF n, more
<1>2. IdsOf(more) = IdsOf(events) \cup {next.id}
  <2>1. \A k \in 1..n + 1 : more[k].id \in IdsOf(events) \cup {next.id}
    <3> TAKE k \in 1..n + 1
    <3>1. CASE k = n + 1
      BY <1>1, <3>1
    <3>2. CASE k # n + 1
      <4>1. k \in 1..n
        BY <1>1, <3>2
      <4> QED BY <1>1, <4>1 DEF IdsOf
    <3> QED BY <3>1, <3>2
  <2>2. \A k \in 1..n : events[k].id \in IdsOf(more)
    <3> TAKE k \in 1..n
    <3>1. k \in 1..n + 1 /\ more[k].id = events[k].id
      BY <1>1
    <3> QED BY <1>1, <3>1 DEF IdsOf
  <2>3. next.id \in IdsOf(more)
    <3>1. n + 1 \in 1..n + 1
      BY <1>1
    <3> QED BY <1>1, <3>1 DEF IdsOf
  <2> QED BY <1>1, <2>1, <2>2, <2>3 DEF IdsOf
<1>3. LastOf(more, next.id) = n + 1
  <2>1. n + 1 \in all(next.id) /\ \A k \in all(next.id) : k \in 1..n + 1
    BY <1>1
  <2> DEFINE T == all(next.id)
  <2>2. Latest(T) = n + 1
    <3>1. n + 1 \in T /\ \A k \in T : k \in 1..n + 1
      BY <2>1
    <3> HIDE DEF T
    <3> QED BY <1>1, <3>1, LatestAdded
  <2> QED BY <2>2 DEF LastOf
<1>4. ASSUME NEW id \in IdsOf(events), id # next.id
      PROVE  /\ LastOf(more, id) = LastOf(events, id)
             /\ LastOf(events, id) \in 1..n
             /\ more[LastOf(events, id)] = events[LastOf(events, id)]
  <2>1. all(id) = own(id)
    BY <1>1, <1>4
  <2> DEFINE T == own(id)
  <2>2. T \in SUBSET (1..n) /\ T # {}
    BY <1>1, <1>4 DEF IdsOf
  <2> HIDE DEF T
  <2>3. Latest(T) \in T
    BY <1>1, <2>2, LatestFacts
  <2>4. LastOf(more, id) = Latest(T) /\ LastOf(events, id) = Latest(T)
    BY <2>1 DEF LastOf, T
  <2> QED BY <1>1, <2>2, <2>3, <2>4
<1> QED BY <1>1, <1>2, <1>3, <1>4 DEF more, n

\* The events that name a conversation that was heard of before.
LEMMA NamingAppended ==
  ASSUME NEW rows, NEW R, NEW events \in Seq(R), NEW next \in R, NEW id \in IdsOf(events)
  PROVE  /\ Naming(rows, Append(events, next), id) =
              Naming(rows, events, id)
                \cup (IF id = next.id /\ next.title # NoTitle THEN {Len(events) + 1} ELSE {})
         /\ Naming(rows, events, id) \in SUBSET (1..Len(events))
<1> DEFINE n    == Len(events)
           more == Append(events, next)
<1>1. /\ n \in Nat /\ DOMAIN events = 1..n /\ DOMAIN more = 1..n + 1
      /\ more[n + 1] = next /\ \A i \in 1..n : more[i] = events[i]
  OBVIOUS
<1>2. PlaceOf(more, id) = PlaceOf(events, id)
  BY PlaceAppended
<1>3. PlaceOf(events, id) \in 1..n
  BY PlaceFacts
<1> HIDE DEF n, more
<1>4. more[PlaceOf(events, id)].thread = events[PlaceOf(events, id)].thread /\ n + 1 # PlaceOf(events, id)
  BY <1>1, <1>3
<1> DEFINE old == Naming(rows, events, id)
           new == Naming(rows, more, id)
<1>5. \A k \in 1..n : k \in new <=> k \in old
  BY <1>1, <1>2, <1>4 DEF Naming
<1>6. n + 1 \in new <=> id = next.id /\ next.title # NoTitle
  BY <1>1, <1>2, <1>4 DEF Naming
<1>7. new \in SUBSET (1..(n + 1)) /\ old \in SUBSET (1..n)
  BY <1>1 DEF Naming
<1> HIDE DEF new, old
<1>8. new = old \cup (IF id = next.id /\ next.title # NoTitle THEN {n + 1} ELSE {})
  <2>1. \A k \in 1..n + 1 : k \in 1..n \/ k = n + 1
    BY <1>1
  <2>2. \A k \in 1..n : k \in 1..n + 1
    BY <1>1
  <2> QED BY <1>5, <1>6, <1>7, <2>1, <2>2
<1> QED BY <1>7, <1>8 DEF new, old, more, n

\* And of one that was not.
LEMMA NamingNew ==
  ASSUME NEW rows, NEW R, NEW events \in Seq(R), NEW next \in R, next.id \notin IdsOf(events)
  PROVE  Naming(rows, Append(events, next), next.id) =
           IF /\ next.title # NoTitle
              /\ ~ /\ next.id \in IdsOf(rows) /\ rows[PlaceOf(rows, next.id)].origin = "merged"
                   /\ rows[PlaceOf(rows, next.id)].thread = next.thread
             THEN {Len(events) + 1} ELSE {}
<1> DEFINE n    == Len(events)
           more == Append(events, next)
<1>1. /\ n \in Nat /\ DOMAIN events = 1..n /\ DOMAIN more = 1..n + 1
      /\ more[n + 1] = next /\ \A i \in 1..n : more[i] = events[i]
  OBVIOUS
<1>2. PlaceOf(more, next.id) = n + 1
  BY PlaceOfNew
<1> HIDE DEF n, more
<1>3. \A k \in 1..n + 1 : more[k].id = next.id <=> k = n + 1
  <2> TAKE k \in 1..n + 1
  <2>1. CASE k = n + 1
    BY <1>1, <2>1
  <2>2. CASE k # n + 1
    <3>1. k \in 1..n
      BY <1>1, <2>2
    <3> QED BY <1>1, <2>2, <3>1 DEF IdsOf
  <2> QED BY <2>1, <2>2
<1>4. n + 1 \in 1..n + 1
  BY <1>1
<1> DEFINE leaves == /\ next.id \in IdsOf(rows) /\ rows[PlaceOf(rows, next.id)].origin = "merged"
                     /\ rows[PlaceOf(rows, next.id)].thread = next.thread
<1> DEFINE new == Naming(rows, more, next.id)
<1>5. \A k \in new : k \in 1..n + 1 /\ more[k].id = next.id
  BY <1>1 DEF Naming
<1>6. n + 1 \in new <=> next.title # NoTitle /\ ~leaves
  BY <1>1, <1>2, <1>4 DEF Naming
<1> HIDE DEF leaves, new
<1>7. new = IF next.title # NoTitle /\ ~leaves THEN {n + 1} ELSE {}
  BY <1>3, <1>5, <1>6
<1> QED BY <1>7 DEF leaves, more, n, new

\* The title of a conversation that was heard of before.
LEMMA TitleAppended ==
  ASSUME NEW rows, NEW R, NEW events \in Seq(R), NEW next \in R, NEW id \in IdsOf(events)
  PROVE  TitleOf(rows, Append(events, next), id) =
           IF id = next.id THEN OrElse(next.title, TitleOf(rows, events, id))
                           ELSE TitleOf(rows, events, id)
<1> DEFINE n    == Len(events)
           more == Append(events, next)
           old  == Naming(rows, events, id)
           new  == Naming(rows, more, id)
<1>1. /\ n \in Nat /\ more[n + 1] = next /\ \A i \in 1..n : more[i] = events[i]
  OBVIOUS
<1>2. /\ new = old \cup (IF id = next.id /\ next.title # NoTitle THEN {n + 1} ELSE {})
      /\ old \in SUBSET (1..n)
  BY NamingAppended
<1> HIDE DEF n, more, old, new
<1>3. TitleOf(rows, more, id) = IF new # {} THEN more[Latest(new)].title
                                ELSE IF id \in IdsOf(rows) THEN rows[PlaceOf(rows, id)].title ELSE NoTitle
  BY DEF TitleOf, new
<1>4. TitleOf(rows, events, id) = IF old # {} THEN events[Latest(old)].title
                                  ELSE IF id \in IdsOf(rows) THEN rows[PlaceOf(rows, id)].title ELSE NoTitle
  BY DEF TitleOf, old
<1>5. CASE id = next.id /\ next.title # NoTitle
  <2>1. n + 1 \in new /\ \A k \in new : k \in 1..n + 1
    <3>1. \A k \in old : k \in 1..n + 1
      BY <1>1, <1>2
    <3> QED BY <1>1, <1>2, <1>5, <3>1
  <2>2. Latest(new) = n + 1
    BY <1>1, <2>1, LatestAdded
  <2>3. TitleOf(rows, more, id) = next.title
    BY <1>1, <1>3, <2>1, <2>2
  <2> QED BY <1>5, <2>3 DEF OrElse, more
<1>6. CASE ~(id = next.id /\ next.title # NoTitle)
  <2>1. new = old
    BY <1>2, <1>6
  <2>2. TitleOf(rows, more, id) = TitleOf(rows, events, id)
    <3>1. CASE old = {}
      BY <1>3, <1>4, <2>1, <3>1
    <3>2. CASE old # {}
      <4>1. Latest(old) \in 1..n
        BY <1>1, <1>2, <3>2, LatestFacts
      <4> QED BY <1>1, <1>3, <1>4, <2>1, <3>2, <4>1
    <3> QED BY <3>1, <3>2
  <2> QED BY <1>6, <2>2 DEF OrElse, more
<1> QED BY <1>5, <1>6

\* And that of one that was not: what the merging makes of its row.
LEMMA TitleNew ==
  ASSUME NEW rows \in Seq(Summaries), NEW events \in Seq(SummaryEvents), NEW next \in SummaryEvents,
         next.id \notin IdsOf(events)
  PROVE  TitleOf(rows, Append(events, next), next.id) = MergedRow(rows, next).title
<1> DEFINE n      == Len(events)
           more   == Append(events, next)
           id     == next.id
           was    == rows[PlaceOf(rows, id)]
           leaves == id \in IdsOf(rows) /\ was.origin = "merged" /\ was.thread = next.thread
           new    == Naming(rows, more, id)
<1>1. n \in Nat /\ more[n + 1] = next
  OBVIOUS
<1>2. new = IF next.title # NoTitle /\ ~leaves THEN {n + 1} ELSE {}
  BY NamingNew
<1>3. id \in IdsOf(rows) => was \in Summaries
  <2> SUFFICES ASSUME id \in IdsOf(rows) PROVE was \in Summaries
    OBVIOUS
  <2>1. PlaceOf(rows, id) \in 1..Len(rows)
    BY PlaceFacts
  <2> QED BY <2>1
<1>4. MergedRow(rows, next).title =
        IF id \in IdsOf(rows)
          THEN IF leaves THEN OrElse(was.title, next.title) ELSE OrElse(next.title, was.title)
          ELSE next.title
  BY DEF MergedRow, MergeSummary, SummaryEvents
<1> HIDE DEF n, more, was, id, new
<1>5. TitleOf(rows, more, id) = IF new # {} THEN more[Latest(new)].title
                                ELSE IF id \in IdsOf(rows) THEN was.title ELSE NoTitle
  BY DEF TitleOf, new, was
<1>6. CASE next.title # NoTitle /\ ~leaves
  <2>1. Latest(new) = n + 1
    <3>1. n + 1 \in new /\ \A k \in new : k \in 1..n + 1
      BY <1>1, <1>2, <1>6
    <3> QED BY <1>1, <3>1, LatestAdded
  <2>2. TitleOf(rows, more, id) = next.title
    BY <1>1, <1>2, <1>5, <1>6, <2>1
  <2> QED BY <1>4, <1>6, <2>2 DEF OrElse, more, id
<1>7. CASE ~(next.title # NoTitle /\ ~leaves)
  <2>1. TitleOf(rows, more, id) = IF id \in IdsOf(rows) THEN was.title ELSE NoTitle
    BY <1>2, <1>5, <1>7
  <2>2. id \in IdsOf(rows) => was.title = OldTitle
    BY <1>3 DEF Summaries
  <2> QED BY <1>4, <1>7, <2>1, <2>2, MergingAssumption DEF OrElse, more, id
<1> QED BY <1>6, <1>7

\* A settled list stays settled when the next event is merged into it.
LEMMA SettledStep ==
  ASSUME NEW rows \in Seq(Summaries), DistinctIds(rows), NEW events \in Seq(SummaryEvents),
         NEW l \in Seq(RowsOf(Rows)), Settled(rows, events, l), NEW next \in SummaryEvents
  PROVE  /\ UpsertSummary(l, next) \in Seq(RowsOf(Rows))
         /\ Settled(rows, Append(events, next), UpsertSummary(l, next))
<1> DEFINE n     == Len(events)
           more  == Append(events, next)
           after == UpsertSummary(l, next)
           x     == MergedRow(l, next)
<1>1. next \in RowsOf(Rows)
  BY MergingAssumption DEF SummaryEvents, RowsOf
<1>2. /\ DistinctIds(l) /\ IdsOf(l) = IdsOf(rows) \cup IdsOf(events)
      /\ \A i \in DOMAIN l :
           l[i] = IF l[i].id \in IdsOf(events)
                    THEN [events[LastOf(events, l[i].id)] EXCEPT !.title = TitleOf(rows, events, l[i].id)]
                    ELSE rows[PlaceOf(rows, l[i].id)]
      /\ \A i, j \in DOMAIN l : i < j =>
           \/ l[i].time > l[j].time
           \/ /\ l[i].time = l[j].time
              /\ PlaceIn(rows, events, l[i].id) < PlaceIn(rows, events, l[j].id)
  BY DEF Settled
<1>3. /\ after \in Seq(RowsOf(Rows)) /\ DistinctIds(after)
      /\ IdsOf(after) = IdsOf(l) \cup {next.id}
      /\ \A i \in DOMAIN after :
           after[i] = IF after[i].id = next.id THEN x ELSE l[PlaceOf(l, after[i].id)]
      /\ \A i, j \in DOMAIN after : i < j =>
           \/ after[i].time > after[j].time
           \/ /\ after[i].time = after[j].time /\ after[i].id # next.id
              /\ \/ after[j].id = next.id
                 \/ PlaceOf(l, after[i].id) < PlaceOf(l, after[j].id)
  BY <1>1, <1>2, UpsertFacts
<1>4. /\ IdsOf(more) = IdsOf(events) \cup {next.id}
      /\ LastOf(more, next.id) = n + 1 /\ more[n + 1] = next
      /\ \A id \in IdsOf(events) : id # next.id =>
           /\ LastOf(more, id) = LastOf(events, id)
           /\ LastOf(events, id) \in 1..n
           /\ more[LastOf(events, id)] = events[LastOf(events, id)]
  BY HeardAppended
<1>5. \A id \in IdsOf(events) :
        TitleOf(rows, more, id) = IF id = next.id THEN OrElse(next.title, TitleOf(rows, events, id))
                                                  ELSE TitleOf(rows, events, id)
  BY TitleAppended
<1>6. n \in Nat /\ Len(rows) \in Nat /\ DOMAIN l = 1..Len(l) /\ DOMAIN after = 1..Len(after)
  BY <1>3
<1>7. x = [next EXCEPT !.title = TitleOf(rows, more, next.id)]
  <2>1. x = [next EXCEPT !.title = x.title]
    BY <1>1, MergedFacts
  <2>2. x.title = TitleOf(rows, more, next.id)
    <3>1. CASE next.id \in IdsOf(events)
      <4> DEFINE i == PlaceOf(l, next.id)
      <4>1. next.id \in IdsOf(l)
        BY <1>2, <3>1
      <4>2. i \in DOMAIN l /\ l[i].id = next.id
        BY <1>6, <4>1, PlaceFacts
      <4> HIDE DEF i
      <4>3. l[i] = [events[LastOf(events, next.id)] EXCEPT !.title = TitleOf(rows, events, next.id)]
        BY <1>2, <3>1, <4>2
      <4>4. LastOf(events, next.id) \in 1..n
        <5> DEFINE T == {k \in DOMAIN events : events[k].id = next.id}
        <5>1. T # {} /\ T \in SUBSET (1..n)
          BY <3>1 DEF IdsOf
        <5> HIDE DEF T
        <5>2. Latest(T) \in T
          BY <1>6, <5>1, LatestFacts
        <5> QED BY <5>1, <5>2 DEF LastOf, T
      <4>5. events[LastOf(events, next.id)] \in SummaryEvents
        BY <4>4
      <4>6. l[i].origin = "local" /\ l[i].title = TitleOf(rows, events, next.id)
        BY <4>3, <4>5 DEF SummaryEvents
      <4>7. x = MergeSummary(l[i], next)
        BY <4>1 DEF MergedRow, i
      <4>8. x.title = OrElse(next.title, TitleOf(rows, events, next.id))
        BY <4>6, <4>7 DEF MergeSummary, SummaryEvents
      <4> QED BY <1>5, <3>1, <4>8
    <3>2. CASE next.id \notin IdsOf(events)
      <4>1. TitleOf(rows, more, next.id) = MergedRow(rows, next).title
        BY <3>2, TitleNew
      <4>2. next.id \in IdsOf(l) <=> next.id \in IdsOf(rows)
        BY <1>2, <3>2
      <4>3. next.id \in IdsOf(l) => l[PlaceOf(l, next.id)] = rows[PlaceOf(rows, next.id)]
        <5> SUFFICES ASSUME next.id \in IdsOf(l)
                     PROVE  l[PlaceOf(l, next.id)] = rows[PlaceOf(rows, next.id)]
          OBVIOUS
        <5>1. PlaceOf(l, next.id) \in DOMAIN l /\ l[PlaceOf(l, next.id)].id = next.id
          BY <1>6, PlaceFacts
        <5> QED BY <1>2, <3>2, <5>1
      <4> QED BY <4>1, <4>2, <4>3 DEF MergedRow
    <3> QED BY <3>1, <3>2
  <2> QED BY <2>1, <2>2
<1> HIDE DEF n, more, after, x
<1>8. IdsOf(after) = IdsOf(rows) \cup IdsOf(more)
  BY <1>2, <1>3, <1>4
<1>9. ASSUME NEW i \in DOMAIN after
      PROVE  /\ after[i].id # next.id => /\ after[i].id \in IdsOf(l) /\ after[i] = l[PlaceOf(l, after[i].id)]
                                         /\ PlaceOf(l, after[i].id) \in DOMAIN l
                                         /\ l[PlaceOf(l, after[i].id)].id = after[i].id
             /\ after[i].id = next.id => after[i] = x
  <2> SUFFICES ASSUME after[i].id # next.id
               PROVE  /\ after[i].id \in IdsOf(l) /\ after[i] = l[PlaceOf(l, after[i].id)]
                      /\ PlaceOf(l, after[i].id) \in DOMAIN l
                      /\ l[PlaceOf(l, after[i].id)].id = after[i].id
    BY <1>3
  <2>1. after[i].id \in IdsOf(after)
    BY DEF IdsOf
  <2>2. after[i].id \in IdsOf(l)
    BY <1>3, <2>1
  <2> QED BY <1>3, <1>6, <2>2, PlaceFacts
<1>10. ASSUME NEW i \in DOMAIN after
       PROVE  after[i] = IF after[i].id \in IdsOf(more)
                THEN [more[LastOf(more, after[i].id)] EXCEPT !.title = TitleOf(rows, more, after[i].id)]
                ELSE rows[PlaceOf(rows, after[i].id)]
  <2>1. CASE after[i].id = next.id
    BY <1>4, <1>7, <1>9, <2>1
  <2>2. CASE after[i].id # next.id
    <3> DEFINE id == after[i].id
               k  == PlaceOf(l, id)
    <3>1. after[i] = l[k] /\ k \in DOMAIN l /\ l[k].id = id
      BY <1>9, <2>2
    <3>2. id \in IdsOf(more) <=> id \in IdsOf(events)
      BY <1>4, <2>2
    <3>3. l[k] = IF id \in IdsOf(events)
                    THEN [events[LastOf(events, id)] EXCEPT !.title = TitleOf(rows, events, id)]
                    ELSE rows[PlaceOf(rows, id)]
      BY <1>2, <3>1
    <3> HIDE DEF id, k
    <3>4. id \in IdsOf(events) => /\ more[LastOf(more, id)] = events[LastOf(events, id)]
                                  /\ TitleOf(rows, more, id) = TitleOf(rows, events, id)
      BY <1>4, <1>5, <2>2 DEF id
    <3>5. after[i] = IF id \in IdsOf(more)
                THEN [more[LastOf(more, id)] EXCEPT !.title = TitleOf(rows, more, id)]
                ELSE rows[PlaceOf(rows, id)]
      BY <3>1, <3>2, <3>3, <3>4
    <3> QED BY <3>5 DEF id
  <2> QED BY <2>1, <2>2
<1>11. ASSUME NEW id \in IdsOf(l), id # next.id
       PROVE  /\ PlaceIn(rows, more, id) = PlaceIn(rows, events, id)
              /\ PlaceIn(rows, events, id) < PlaceIn(rows, more, next.id)
  <2>1. PlaceIn(rows, more, next.id) = Len(rows) + (n + 1)
    BY <1>4 DEF PlaceIn
  <2>2. CASE id \in IdsOf(events)
    <3>1. /\ PlaceIn(rows, events, id) = Len(rows) + LastOf(events, id)
          /\ PlaceIn(rows, more, id) = Len(rows) + LastOf(events, id)
          /\ LastOf(events, id) \in 1..n
      BY <1>4, <1>11, <2>2 DEF PlaceIn
    <3> QED BY <1>6, <2>1, <3>1
  <2>3. CASE id \notin IdsOf(events)
    <3>1. id \in IdsOf(rows) /\ id \notin IdsOf(more)
      BY <1>2, <1>4, <1>11, <2>3
    <3>2. PlaceOf(rows, id) \in 1..Len(rows)
      BY <3>1, PlaceFacts
    <3>3. PlaceIn(rows, events, id) = PlaceOf(rows, id) /\ PlaceIn(rows, more, id) = PlaceOf(rows, id)
      BY <2>3, <3>1 DEF PlaceIn
    <3> QED BY <1>6, <2>1, <3>2, <3>3
  <2> QED BY <2>2, <2>3
<1>12. ASSUME NEW i \in DOMAIN after, NEW j \in DOMAIN after, i < j
       PROVE  \/ after[i].time > after[j].time
              \/ /\ after[i].time = after[j].time
                 /\ PlaceIn(rows, more, after[i].id) < PlaceIn(rows, more, after[j].id)
  <2>1. SUFFICES ASSUME after[i].time = after[j].time, after[i].id # next.id,
                        \/ after[j].id = next.id
                        \/ PlaceOf(l, after[i].id) < PlaceOf(l, after[j].id),
                        ~(after[i].time > after[j].time)
                 PROVE  PlaceIn(rows, more, after[i].id) < PlaceIn(rows, more, after[j].id)
    BY <1>3, <1>12
  <2>2. after[i].id \in IdsOf(l)
    BY <1>9, <2>1
  <2>3. CASE after[j].id = next.id
    <3>1. /\ PlaceIn(rows, more, after[i].id) = PlaceIn(rows, events, after[i].id)
          /\ PlaceIn(rows, events, after[i].id) < PlaceIn(rows, more, next.id)
      BY <1>11, <2>1, <2>2
    <3> QED BY <2>3, <3>1
  <2>4. CASE after[j].id # next.id
    <3> DEFINE a == PlaceOf(l, after[i].id)
               b == PlaceOf(l, after[j].id)
    <3>1. /\ a \in DOMAIN l /\ l[a] = after[i] /\ b \in DOMAIN l /\ l[b] = after[j] /\ a < b
          /\ after[j].id \in IdsOf(l)
      BY <1>9, <2>1, <2>4
    <3> HIDE DEF a, b
    <3>2. PlaceIn(rows, events, after[i].id) < PlaceIn(rows, events, after[j].id)
      BY <1>2, <2>1, <3>1
    <3>3. /\ PlaceIn(rows, more, after[i].id) = PlaceIn(rows, events, after[i].id)
          /\ PlaceIn(rows, more, after[j].id) = PlaceIn(rows, events, after[j].id)
      BY <1>11, <2>1, <2>2, <2>4, <3>1
    <3> QED BY <3>2, <3>3
  <2> QED BY <2>3, <2>4
<1>13. Settled(rows, more, after)
  BY <1>3, <1>8, <1>10, <1>12 DEF Settled
<1> QED BY <1>3, <1>13 DEF more, after

\* The first events, one more at a time.
LEMMA Prefixes ==
  ASSUME NEW R, NEW s \in Seq(R)
  PROVE  /\ SubSeq(s, 1, 0) = <<>> /\ SubSeq(s, 1, Len(s)) = s
         /\ \A n \in 0..Len(s) : SubSeq(s, 1, n) \in Seq(R) /\ Len(SubSeq(s, 1, n)) = n
         /\ \A n \in 0..Len(s) - 1 :
              s[n + 1] \in R /\ SubSeq(s, 1, n + 1) = Append(SubSeq(s, 1, n), s[n + 1])
<1>1. SubSeq(s, 1, 0) = <<>>
  OBVIOUS
<1>2. Len(s) \in Nat /\ \A i \in 1..Len(s) : s[i] \in R
  OBVIOUS
<1>3. ASSUME NEW n \in 0..Len(s)
      PROVE  /\ SubSeq(s, 1, n) \in Seq(R) /\ Len(SubSeq(s, 1, n)) = n
             /\ \A i \in 1..n : SubSeq(s, 1, n)[i] = s[i]
  <2>1. n \in Int /\ 1 \in Int /\ \A i \in 1..n : s[i] \in R /\ 1 + i - 1 = i
    BY <1>2
  <2> QED BY <1>2, <2>1, SubSeqProperties
<1>4. SubSeq(s, 1, Len(s)) = s
  BY SubSeqFull
<1>5. ASSUME NEW n \in 0..Len(s) - 1
      PROVE  s[n + 1] \in R /\ SubSeq(s, 1, n + 1) = Append(SubSeq(s, 1, n), s[n + 1])
  <2> DEFINE a == SubSeq(s, 1, n)
             b == SubSeq(s, 1, n + 1)
             c == Append(a, s[n + 1])
  <2>1. n \in 0..Len(s) /\ n + 1 \in 0..Len(s) /\ n + 1 \in 1..Len(s) /\ n \in Nat
    BY <1>2
  <2>2. a \in Seq(R) /\ Len(a) = n /\ \A i \in 1..n : a[i] = s[i]
    BY <1>3, <2>1
  <2>3. b \in Seq(R) /\ Len(b) = n + 1 /\ \A i \in 1..n + 1 : b[i] = s[i]
    BY <1>3, <2>1
  <2> HIDE DEF a, b
  <2>4. c \in Seq(R) /\ Len(c) = n + 1 /\ c[n + 1] = s[n + 1] /\ \A i \in 1..n : c[i] = s[i]
    BY <1>2, <2>1, <2>2
  <2> HIDE DEF c
  <2>5. \A i \in 1..n + 1 : b[i] = c[i]
    <3> TAKE i \in 1..n + 1
    <3>1. CASE i = n + 1
      BY <2>1, <2>3, <2>4, <3>1
    <3>2. CASE i # n + 1
      BY <2>1, <2>3, <2>4, <3>2
    <3> QED BY <3>1, <3>2
  <2>6. b = c
    BY <2>3, <2>4, <2>5, SeqEqual
  <2> QED BY <1>2, <2>1, <2>6 DEF a, b, c
<1> QED BY <1>1, <1>3, <1>4, <1>5

\* Merging events, one after the other, keeps the list settled.
LEMMA UpsertedSettled ==
  ASSUME NEW rows \in Seq(Summaries), DistinctIds(rows),
         \A i, j \in DOMAIN rows : i < j => rows[i].time >= rows[j].time,
         NEW events \in Seq(SummaryEvents)
  PROVE  Settled(rows, events, Upserted(rows, events))
<1> DEFINE L == Len(events)
           R == RowsOf(Rows)
           F(f) == [n \in 0..L |-> IF n = 0 THEN rows ELSE UpsertSummary(f[n - 1], events[n])]
           u == CHOOSE f : f = F(f)
           S == {l \in Seq(R) : DistinctIds(l)}
           first(n) == SubSeq(events, 1, n)
           G == {n \in 0..L : u[n] \in Seq(R) /\ Settled(rows, first(n), u[n])}
<1>1. L \in Nat /\ \A n \in 1..L : events[n] \in SummaryEvents
  OBVIOUS
<1>2. Summaries \subseteq R /\ SummaryEvents \subseteq R
  BY MergingAssumption DEF Summaries, SummaryEvents, RowsOf
<1>3. rows \in S
  BY <1>2
<1>4. \E f : f = F(f)
  <2> DEFINE h == [n \in 1..L |-> [l \in S |-> UpsertSummary(l, events[n])]]
  <2>1. h \in [1..L -> [S -> S]]
    <3> SUFFICES ASSUME NEW n \in 1..L, NEW l \in S PROVE UpsertSummary(l, events[n]) \in S
      OBVIOUS
    <3>1. l \in Seq(R) /\ DistinctIds(l) /\ events[n] \in R
      BY <1>1, <1>2
    <3> QED BY <3>1, UpsertFacts
  <2> HIDE DEF S, h, L
  <2>2. \E f : Follows(f, L, S, rows, h)
    BY <1>1, <1>3, <2>1, Iterated
  <2>3. PICK f : f \in [0..L -> S] /\ f[0] = rows /\ \A i \in 1..L : f[i] = h[i][f[i - 1]]
    BY <2>2 DEF Follows
  <2>4. ASSUME NEW n \in 0..L
        PROVE  f[n] = IF n = 0 THEN rows ELSE UpsertSummary(f[n - 1], events[n])
    <3>1. CASE n = 0
      BY <2>3, <3>1
    <3>2. CASE n # 0
      <4>1. n \in 1..L /\ f[n - 1] \in S
        BY <1>1, <2>3, <3>2
      <4> QED BY <2>3, <3>2, <4>1 DEF h
    <3> QED BY <3>1, <3>2
  <2>5. f = F(f)
    BY <2>3, <2>4
  <2> QED BY <2>5
<1>5. u = F(u)
  BY <1>4
<1>6. Upserted(rows, events) = u[L]
  BY DEF Upserted
<1> HIDE DEF u
<1>7. u[0] = rows /\ \A n \in 1..L : u[n] = UpsertSummary(u[n - 1], events[n])
  <2>1. \A n \in 0..L : u[n] = IF n = 0 THEN rows ELSE UpsertSummary(u[n - 1], events[n])
    BY <1>5
  <2> HIDE DEF F, L
  <2> QED BY <1>1, <2>1
<1> HIDE DEF L, F
<1>8. /\ first(0) = <<>> /\ first(L) = events /\ \A n \in 0..L : first(n) \in Seq(SummaryEvents)
      /\ \A n \in 0..L - 1 : first(n + 1) = Append(first(n), events[n + 1])
  BY Prefixes DEF L
<1> HIDE DEF first
<1>9. Settled(rows, <<>>, rows)
  <2>1. IdsOf(<<>>) = {}
    BY DEF IdsOf
  <2>2. \A i \in DOMAIN rows : rows[i].time \in Nat /\ PlaceOf(rows, rows[i].id) = i /\ i \in Nat
    BY <1>2, PlaceIsOnly DEF R, RowsOf
  <2>3. \A i \in DOMAIN rows : PlaceIn(rows, <<>>, rows[i].id) = i
    BY <2>1, <2>2 DEF PlaceIn
  <2> QED BY <2>1, <2>2, <2>3 DEF Settled
<1>10. 0 \in G
  BY <1>1, <1>3, <1>7, <1>8, <1>9
<1>11. ASSUME NEW n \in 0..L - 1, n \in G PROVE n + 1 \in G
  <2> DEFINE l == u[n]
             k == n + 1
  <2>1. /\ k \in 0..L /\ k \in 1..L /\ k - 1 = n /\ events[k] \in SummaryEvents
        /\ first(n) \in Seq(SummaryEvents) /\ first(k) = Append(first(n), events[k])
    BY <1>1, <1>8
  <2>2. l \in Seq(R) /\ Settled(rows, first(n), l)
    BY <1>11
  <2>3. u[k] = UpsertSummary(l, events[k])
    BY <1>7, <2>1
  <2> HIDE DEF l, k
  <2>4. /\ UpsertSummary(l, events[k]) \in Seq(R)
        /\ Settled(rows, Append(first(n), events[k]), UpsertSummary(l, events[k]))
    BY <2>1, <2>2, SettledStep
  <2>5. k \in G
    BY <2>1, <2>3, <2>4
  <2> QED BY <2>5 DEF k
<1>12. L \in G
  <2> HIDE DEF G
  <2>1. L \in 0..L
    BY <1>1
  <2> QED BY <1>1, <1>10, <1>11, <2>1, Upward
<1> QED BY <1>6, <1>8, <1>12

\* A delta keeps the transcript one of what was heard.
LEMMA TranscribedStep ==
  ASSUME NEW R, NEW events \in Seq(R), NEW l \in Seq(R), Transcribed(events, l), NEW next \in R
  PROVE  /\ MergeMessages(l, next) \in Seq(R)
         /\ Transcribed(Append(events, next), MergeMessages(l, next))
<1> DEFINE n     == Len(events)
           m     == Len(l)
           more  == Append(events, next)
           after == MergeMessages(l, next)
           p     == PlaceOf(l, next.id)
<1>1. /\ n \in Nat /\ m \in Nat /\ DOMAIN l = 1..m /\ \A i \in 1..m : l[i] \in R /\ l[i].id \in IdsOf(l)
  BY DEF IdsOf
<1>2. /\ IdsOf(l) = IdsOf(events)
      /\ \A i \in 1..m : l[i] = events[LastOf(events, l[i].id)]
      /\ \A i, j \in 1..m : i < j => PlaceOf(events, l[i].id) < PlaceOf(events, l[j].id)
  BY <1>1 DEF Transcribed
<1>3. /\ IdsOf(more) = IdsOf(events) \cup {next.id}
      /\ LastOf(more, next.id) = n + 1 /\ more[n + 1] = next
      /\ \A id \in IdsOf(events) : id # next.id =>
           /\ LastOf(more, id) = LastOf(events, id)
           /\ LastOf(events, id) \in 1..n
           /\ more[LastOf(events, id)] = events[LastOf(events, id)]
  BY HeardAppended
<1>4. \A id \in IdsOf(events) : PlaceOf(more, id) = PlaceOf(events, id) /\ PlaceOf(events, id) \in 1..n
  BY PlaceAppended, PlaceFacts
<1>5. \A i \in 1..m : l[i].id # next.id => l[i] = more[LastOf(more, l[i].id)]
  BY <1>1, <1>2, <1>3
<1>6. CASE next.id \in IdsOf(l)
  <2>1. p \in 1..m /\ l[p].id = next.id
    BY <1>6, PlaceFacts
  <2>2. after = [l EXCEPT ![p] = next]
    BY <1>6 DEF MergeMessages
  <2> HIDE DEF n, m, more, after, p
  <2>3. after \in Seq(R) /\ DOMAIN after = 1..m
    BY <1>1, <2>1, <2>2
  <2>4. \A i \in 1..m : after[i] = (IF i = p THEN next ELSE l[i]) /\ after[i].id = l[i].id
    BY <1>1, <2>1, <2>2
  <2>5. \A i \in 1..m : i # p => l[i].id # next.id
    <3> SUFFICES ASSUME NEW i \in 1..m, i # p, l[i].id = next.id PROVE FALSE
      OBVIOUS
    <3>1. i < p \/ p < i
      BY <1>1, <2>1
    <3>2. PlaceOf(events, next.id) \in 1..n
      BY <1>2, <1>4, <1>6
    <3> QED BY <1>1, <1>2, <2>1, <3>1, <3>2
  <2>6. IdsOf(after) = IdsOf(more)
    <3>1. IdsOf(after) = IdsOf(l)
      BY <1>1, <2>3, <2>4 DEF IdsOf
    <3> QED BY <1>2, <1>3, <1>6, <3>1
  <2>7. \A i \in 1..m : after[i] = more[LastOf(more, after[i].id)]
    BY <1>3, <1>5, <2>1, <2>4, <2>5
  <2>8. \A i, j \in 1..m : i < j => PlaceOf(more, after[i].id) < PlaceOf(more, after[j].id)
    BY <1>1, <1>2, <1>4, <2>4
  <2> QED BY <2>3, <2>6, <2>7, <2>8 DEF Transcribed, after, more
<1>7. CASE next.id \notin IdsOf(l)
  <2>1. after = Append(l, next)
    BY <1>7 DEF MergeMessages
  <2>2. /\ after \in Seq(R) /\ DOMAIN after = 1..m + 1 /\ after[m + 1] = next
        /\ \A i \in 1..m : after[i] = l[i]
    BY <2>1
  <2>3. PlaceOf(more, next.id) = n + 1
    BY <1>2, <1>7, PlaceOfNew
  <2>4. IdsOf(after) = IdsOf(l) \cup {next.id}
    BY <2>1, HeardAppended
  <2> HIDE DEF n, m, more, after, p
  <2>5. \A i \in 1..m + 1 : i \in 1..m \/ i = m + 1
    BY <1>1
  <2>6. \A i \in 1..m + 1 : after[i] = more[LastOf(more, after[i].id)]
    <3> TAKE i \in 1..m + 1
    <3>1. CASE i = m + 1
      BY <1>3, <2>2, <3>1
    <3>2. CASE i \in 1..m
      BY <1>1, <1>5, <1>7, <2>2, <3>2
    <3> QED BY <2>5, <3>1, <3>2
  <2>7. ASSUME NEW i \in 1..m + 1, NEW j \in 1..m + 1, i < j
        PROVE  PlaceOf(more, after[i].id) < PlaceOf(more, after[j].id)
    <3>1. i \in 1..m
      BY <1>1, <2>7
    <3>2. /\ PlaceOf(more, after[i].id) = PlaceOf(events, l[i].id)
          /\ PlaceOf(events, l[i].id) \in 1..n
      BY <1>1, <1>2, <1>4, <2>2, <3>1
    <3>3. CASE j = m + 1
      BY <1>1, <2>2, <2>3, <3>2, <3>3
    <3>4. CASE j \in 1..m
      <4>1. PlaceOf(more, after[j].id) = PlaceOf(events, l[j].id)
        BY <1>1, <1>2, <1>4, <2>2, <3>4
      <4> QED BY <1>2, <2>7, <3>1, <3>2, <3>4, <4>1
    <3> QED BY <2>5, <3>3, <3>4
  <2>8. IdsOf(after) = IdsOf(more)
    BY <1>2, <1>3, <2>4
  <2> QED BY <2>2, <2>6, <2>7, <2>8 DEF Transcribed, after, more
<1> QED BY <1>6, <1>7

\* A transcript with one more message is a transcript.
LEMMA MergeType ==
  ASSUME NEW R, NEW l \in Seq(R), NEW next \in R
  PROVE  MergeMessages(l, next) \in Seq(R)
<1>1. CASE next.id \in IdsOf(l)
  <2> DEFINE p == PlaceOf(l, next.id)
  <2>1. MergeMessages(l, next) = [l EXCEPT ![p] = next] /\ p \in 1..Len(l)
    BY <1>1, PlaceFacts DEF MergeMessages
  <2> HIDE DEF p
  <2> QED BY <2>1
<1>2. CASE next.id \notin IdsOf(l)
  BY <1>2 DEF MergeMessages
<1> QED BY <1>1, <1>2

\* A transcript holds what was heard, however often and in what order.
LEMMA TranscriptIs ==
  ASSUME NEW R, NEW events \in Seq(R)
  PROVE  Transcribed(events, Transcript(events))
<1> DEFINE L == Len(events)
           F(f) == [n \in 0..L |-> IF n = 0 THEN <<>> ELSE MergeMessages(f[n - 1], events[n])]
           u == CHOOSE f : f = F(f)
           S == Seq(R)
           none == <<>>
           first(n) == SubSeq(events, 1, n)
           G == {n \in 0..L : u[n] \in S /\ Transcribed(first(n), u[n])}
<1>1. L \in Nat /\ \A n \in 1..L : events[n] \in R
  OBVIOUS
<1>2. none \in S
  OBVIOUS
<1>3. \E f : f = F(f)
  <2> DEFINE h == [n \in 1..L |-> [l \in S |-> MergeMessages(l, events[n])]]
  <2>1. h \in [1..L -> [S -> S]]
    <3> SUFFICES ASSUME NEW n \in 1..L, NEW l \in S PROVE MergeMessages(l, events[n]) \in S
      OBVIOUS
    <3>1. events[n] \in R
      BY <1>1
    <3>2. l \in Seq(R)
      OBVIOUS
    <3> QED BY <3>1, <3>2, MergeType
  <2> HIDE DEF S, h, L, none
  <2>2. \E f : Follows(f, L, S, none, h)
    BY <1>1, <1>2, <2>1, Iterated
  <2>3. PICK f : f \in [0..L -> S] /\ f[0] = none /\ \A i \in 1..L : f[i] = h[i][f[i - 1]]
    BY <2>2 DEF Follows
  <2>4. ASSUME NEW n \in 0..L
        PROVE  f[n] = IF n = 0 THEN <<>> ELSE MergeMessages(f[n - 1], events[n])
    <3>1. CASE n = 0
      BY <2>3, <3>1 DEF none
    <3>2. CASE n # 0
      <4>1. n \in 1..L /\ f[n - 1] \in S
        BY <1>1, <2>3, <3>2
      <4> QED BY <2>3, <3>2, <4>1 DEF h
    <3> QED BY <3>1, <3>2
  <2>5. f = F(f)
    BY <2>3, <2>4
  <2> QED BY <2>5
<1>4. u = F(u)
  BY <1>3
<1>5. Transcript(events) = u[L]
  BY DEF Transcript
<1> HIDE DEF u
<1>6. u[0] = <<>> /\ \A n \in 1..L : u[n] = MergeMessages(u[n - 1], events[n])
  <2>1. \A n \in 0..L : u[n] = IF n = 0 THEN <<>> ELSE MergeMessages(u[n - 1], events[n])
    BY <1>4
  <2> HIDE DEF F, L
  <2> QED BY <1>1, <2>1
<1> HIDE DEF L, F
<1>7. /\ first(0) = <<>> /\ first(L) = events /\ \A n \in 0..L : first(n) \in Seq(R)
      /\ \A n \in 0..L - 1 : first(n + 1) = Append(first(n), events[n + 1])
  BY Prefixes DEF L
<1> HIDE DEF first
<1>8. Transcribed(<<>>, <<>>)
  BY DEF Transcribed
<1>9. 0 \in G
  BY <1>1, <1>2, <1>6, <1>7, <1>8
<1>10. ASSUME NEW n \in 0..L - 1, n \in G PROVE n + 1 \in G
  <2> DEFINE l == u[n]
             k == n + 1
  <2>1. /\ k \in 0..L /\ k \in 1..L /\ k - 1 = n /\ events[k] \in R
        /\ first(n) \in Seq(R) /\ first(k) = Append(first(n), events[k])
    BY <1>1, <1>7
  <2>2. l \in S /\ Transcribed(first(n), l)
    BY <1>10
  <2>3. u[k] = MergeMessages(l, events[k])
    BY <1>6, <2>1
  <2> HIDE DEF l, k
  <2>4. /\ MergeMessages(l, events[k]) \in S
        /\ Transcribed(Append(first(n), events[k]), MergeMessages(l, events[k]))
    BY <2>1, <2>2, TranscribedStep
  <2>5. k \in G
    BY <2>1, <2>3, <2>4
  <2> QED BY <2>5 DEF k
<1>11. L \in G
  <2> HIDE DEF G
  <2>1. L \in 0..L
    BY <1>1
  <2> QED BY <1>1, <1>9, <1>10, <2>1, Upward
<1> QED BY <1>5, <1>7, <1>11

\* The comparison, over every sequence of events and on the console.
LEMMA MergingHolds ==
  ASSUME queue \in Seq(Events)
  PROVE  MergingAgrees
<1>1. ASSUME NEW S, NEW length, NEW l \in ListsOver(S, length) PROVE l \in Seq(S)
  <2>1. PICK n \in 0..length : l \in [1..n -> S]
    BY <1>1 DEF ListsOver
  <2>2. n \in Nat
    BY <2>1
  <2> QED BY <2>1, <2>2
<1>2. EveryUpsert
  <2> SUFFICES ASSUME NEW rows \in Listings, NEW events \in ListsOver(SummaryEvents, MaxEvents)
               PROVE  Settled(rows, events, Upserted(rows, events))
    BY DEF EveryUpsert
  <2>1. rows \in ListsOver(Summaries, Cardinality(Rows))
    BY DEF Listings
  <2>2. rows \in Seq(Summaries) /\ events \in Seq(SummaryEvents)
    BY <1>1, <2>1
  <2>3. DistinctIds(rows) /\ \A i, j \in DOMAIN rows : i < j => rows[i].time >= rows[j].time
    BY DEF Listings
  <2> QED BY <2>2, <2>3, UpsertedSettled
<1>3. EveryDelta
  <2> SUFFICES ASSUME NEW events \in ListsOver([id: Rows, text: Times], MaxEvents + 1)
               PROVE  Transcribed(events, Transcript(events))
    BY DEF EveryDelta
  <2> DEFINE R == [id: Rows, text: Times]
  <2> HIDE DEF R
  <2>1. events \in Seq(R)
    BY <1>1 DEF R
  <2> QED BY <2>1, TranscriptIs
<1>4. /\ \A i \in DOMAIN queue : queue[i].conv \in Convs /\ queue[i].status \in Shown
      /\ Len(queue) \in Nat /\ DOMAIN queue = 1..Len(queue)
  <2>1. Len(queue) \in Nat /\ DOMAIN queue = 1..Len(queue) /\ \A i \in DOMAIN queue : queue[i] \in Events
    OBVIOUS
  <2> QED BY <2>1 DEF Events
<1>5. ASSUME NEW c, NEW t \in {OldTitle, NewTitle} PROVE RowOf(c, t) \in RowsOf({c}) /\ RowOf(c, t).id = c
  <2>1. \E x \in Times : \A y \in Times : x <= y
    BY MergingAssumption, LeastOf
  <2>2. (CHOOSE x \in Times : \A y \in Times : x <= y) \in Nat
    BY <2>1, MergingAssumption
  <2> QED BY <1>5, <2>2 DEF RowOf, RowsOf
<1>6. ASSUME NEW i \in DOMAIN queue, NEW rows \in Listed
      PROVE  LET after == UpsertSummary(rows, RowOf(queue[i].conv, NewTitle))
             IN DistinctIds(after) /\ IdsOf(after) = InList(list) \cup {queue[i].conv}
  <2> DEFINE R == {RowOf(c, OldTitle) : c \in InList(list)}
             e == RowOf(queue[i].conv, NewTitle)
  <2>1. rows \in ListsOver(R, Cardinality(Convs)) /\ DistinctIds(rows) /\ IdsOf(rows) = InList(list)
    BY DEF Listed
  <2>2. R \subseteq RowsOf(Convs)
    BY <1>5 DEF InList, RowsOf
  <2>3. e \in RowsOf(Convs) /\ e.id = queue[i].conv
    BY <1>4, <1>5 DEF RowsOf
  <2> HIDE DEF R, e
  <2>4. rows \in Seq(RowsOf(Convs))
    <3>1. rows \in Seq(R)
      BY <1>1, <2>1
    <3> QED BY <2>2, <3>1
  <2>5. DistinctIds(UpsertSummary(rows, e)) /\ IdsOf(UpsertSummary(rows, e)) = IdsOf(rows) \cup {e.id}
    BY <2>1, <2>3, <2>4, UpsertFacts
  <2> QED BY <2>1, <2>3, <2>5 DEF e
<1>7. LET heard == [i \in DOMAIN queue |-> [id |-> queue[i].conv, text |-> queue[i].status]]
      IN Transcribed(heard, Transcript(heard))
  <2> DEFINE R == [id: Convs, text: Shown]
             heard == [i \in DOMAIN queue |-> [id |-> queue[i].conv, text |-> queue[i].status]]
  <2>1. heard \in Seq(R)
    <3>1. \A i \in 1..Len(queue) : [id |-> queue[i].conv, text |-> queue[i].status] \in R
      BY <1>4
    <3>2. heard = [i \in 1..Len(queue) |-> [id |-> queue[i].conv, text |-> queue[i].status]]
      BY <1>4
    <3> HIDE DEF R
    <3> QED BY <1>4, <3>1, <3>2
  <2> HIDE DEF R, heard
  <2>2. Transcribed(heard, Transcript(heard))
    BY <2>1, TranscriptIs
  <2> QED BY <2>2 DEF heard
<1> QED BY <1>2, <1>3, <1>6, <1>7 DEF MergingAgrees, UpsertsAgree, DeltasAgree

\* Merging any sequence of events leaves the list and the transcripts that a reader
\* of the events expects, and landing an event adds at most its own conversation to
\* the list on screen (upsertConversationSummary, mergeConversationMessages).
THEOREM MergingAlways == Spec => []MergingAgrees
<1>1. IInv => MergingAgrees
  BY MergingHolds DEF IInv, TypeOK
<1> QED BY Inductive, <1>1, PTL
==============================================================================
