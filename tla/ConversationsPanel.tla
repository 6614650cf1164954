-------------------------- MODULE ConversationsPanel --------------------------
(* The conversations tab (conversations-panel.tsx) over the conversation    *)
(* half of the hook (use-admin-console.ts): the list and the details it     *)
(* keeps, fed by reads and by the event stream, the selection, and single   *)
(* and batch deletion. Reads, deletions and events land in any order; the   *)
(* order of the list is left out: what the code takes from its top is any   *)
(* conversation of it.                                                      *)
EXTENDS Integers, Sequences, FiniteSets

CONSTANTS
  Convs,
  Accounts, AccountOf,  \* the account of each conversation
  All,                  \* no account filter
  Tasks,                \* requests in flight at a time (a bound)
  MaxQueue,             \* events on their way at a time (a bound)
  Unloaded, NoConv, NoPanel

ASSUME ListAssumption ==
  /\ AccountOf \in [Convs -> Accounts] /\ All \notin Accounts
  /\ NoConv \notin Convs /\ MaxQueue \in Nat

VARIABLES
  server,    \* status of each conversation in the store
  queue,     \* events on their way to this console
  list,      \* conversations: the status shown of each, or Unloaded
  detail,    \* conversationDetails: those that have been loaded
  reading,   \* conversations whose detail is being read for a selection
  selected,  \* selectedConversationId
  panel,     \* what is checked, filtered and busy in the tab, or NoPanel
  task       \* the requests in flight

vars == <<server, queue, list, detail, reading, selected, panel, task>>

Shown == {"idle", "running"}
Panels == [checked: SUBSET Convs, filter: Accounts \cup {All}, busy: BOOLEAN]
ASSUME LeftAssumption == NoPanel \notin Panels

Lists == [Convs -> Shown \cup {Unloaded}]
Events == [conv: Convs, opens: BOOLEAN, status: Shown]
TaskRecords ==
  [op: {"none", "refresh", "delete", "batch"},
   pc: {"idle", "call", "list", "listed", "detail"},
   ids: SUBSET Convs,                         \* conversations it deletes
   left: SUBSET Convs,                        \* those the server has yet to try
   got: Lists,                                \* the list that was read
   conv: Convs \cup {NoConv},                 \* the detail its refresh reads
   own: BOOLEAN]

Empty == [c \in Convs |-> Unloaded]
Idle == [op |-> "none", pc |-> "idle", ids |-> {}, left |-> {}, got |-> Empty,
         conv |-> NoConv, own |-> FALSE]

InList(l) == {c \in Convs : l[c] # Unloaded}
Filtered(l, f) == {c \in InList(l) : f \in {All, AccountOf[c]}}
At(t, pc) == task[t].pc = pc

-----------------------------------------------------------------------------
(* Effects that follow a step *)

\* Mutant: only conversations that are gone are unchecked, not filtered ones.
PrunedListed(p, l) == [p EXCEPT !.checked = @ \cap InList(l)]

\* What is no longer on screen is not checked either.
Pruned(p, l) == [p EXCEPT !.checked = @ \cap Filtered(l, p.filter)]

\* Mutant: nothing replaces a selection that is no longer in the list.
FallbackNone(l, s, p) == {s}

\* The hook lets the selection fall back on a conversation of the list, the tab
\* on one that passes its filter.
Fallback(l, s, p) ==
  LET visible == IF p = NoPanel THEN {} ELSE Filtered(l, p.filter) IN
  CASE s \in visible -> {s}
    [] s \notin visible /\ visible # {} -> visible
    [] visible = {} /\ s \notin InList(l) \cup {NoConv} /\ InList(l) # {} -> InList(l)
    [] visible = {} /\ s \notin InList(l) \cup {NoConv} /\ InList(l) = {} -> {NoConv}
    [] OTHER -> {s}

\* What is left of a deletion that has been carried out, without its tab: a
\* refresh.
Kept(x) ==
  IF x.own \/ x.pc \in {"idle", "call"} THEN x
  ELSE [x EXCEPT !.op = "refresh", !.ids = {}]

\* A conversation that comes with a read or an event replaces its detail.
Remembered(c) == detail \cup ({c} \ {NoConv})

\* A detail that is not there is read when its conversation is selected.
Asked(c) == reading \cup ({c} \ detail')

\* The console after a step has left the list as l, the selection as s, the tab
\* as p and the tasks as ts; the step has set the details before.
Render(l, s, p, ts) ==
  /\ list' = l
  /\ panel' = IF p = NoPanel THEN NoPanel ELSE Pruned(p, l)
  /\ selected' \in Fallback(l, s, p)
  /\ reading' = IF p # NoPanel /\ selected' # s /\ selected' # NoConv
                  THEN Asked(selected') ELSE reading
  /\ task' = [t \in Tasks |-> Kept(ts[t])]

Init ==
  /\ server \in [Convs -> {"new", "idle", "running"}]
  /\ queue = <<>> /\ list = Empty /\ detail = {} /\ selected = NoConv
  /\ reading = {}
  /\ panel = NoPanel /\ task = [t \in Tasks |-> Idle]

-----------------------------------------------------------------------------
(* The operator *)

Enter ==
  /\ panel = NoPanel
  /\ detail' = detail
  /\ Render(list, selected, [checked |-> {}, filter |-> All, busy |-> FALSE], task)
  /\ UNCHANGED <<server, queue>>

Leave ==
  /\ panel # NoPanel
  /\ detail' = detail
  /\ Render(list, selected, NoPanel, [t \in Tasks |-> [task[t] EXCEPT !.own = FALSE]])
  /\ UNCHANGED <<server, queue>>

Filter(f) ==
  /\ panel # NoPanel /\ f \in {All} \cup {AccountOf[c] : c \in InList(list)}
  /\ detail' = detail
  /\ Render(list, selected, [panel EXCEPT !.filter = f], task)
  /\ UNCHANGED <<server, queue>>

Toggle(c) ==
  /\ panel # NoPanel /\ c \in Filtered(list, panel.filter)
  /\ detail' = detail
  /\ Render(list, selected,
            [panel EXCEPT !.checked = IF c \in @ THEN @ \ {c} ELSE @ \cup {c}], task)
  /\ UNCHANGED <<server, queue>>

ToggleAll ==
  /\ panel # NoPanel /\ ~panel.busy /\ InList(list) # {}
  /\ detail' = detail
  /\ LET all == Filtered(list, panel.filter) IN
     Render(list, selected,
            [panel EXCEPT !.checked = IF Cardinality(@) = Cardinality(all) THEN {} ELSE all], task)
  /\ UNCHANGED <<server, queue>>

Send(t, s, p, x) ==
  /\ At(t, "idle")
  /\ detail' = detail
  /\ Render(list, s, p, [task EXCEPT ![t] = x])
  /\ UNCHANGED <<server, queue>>

\* The mount of the console, a login, or the button of the tab.
Refresh(t) ==
  /\ panel # NoPanel => ~panel.busy
  /\ Send(t, selected, panel, [Idle EXCEPT !.op = "refresh", !.pc = "list"])

\* A conversation is opened.
Select(c) ==
  /\ panel # NoPanel /\ c \in Filtered(list, panel.filter)
  /\ selected' = c /\ detail' = detail /\ reading' = Asked(c)
  /\ UNCHANGED <<server, queue, list, panel, task>>

\* The status on screen is that of the detail where there is one, which may be
\* older or newer than the list.
ShownIdle(c) == c \in detail \/ list[c] = "idle"

Delete(t, confirmed) ==
  /\ panel # NoPanel /\ ~panel.busy /\ confirmed
  /\ selected \in Filtered(list, panel.filter) /\ ShownIdle(selected)
  /\ Send(t, selected, [panel EXCEPT !.busy = TRUE],
          [Idle EXCEPT !.op = "delete", !.pc = "call", !.ids = {selected},
                       !.left = {selected}, !.own = TRUE])

\* The button is disabled while a running conversation is among the checked
\* ones; the handler sends all that is checked.
BatchDelete(t, confirmed) ==
  /\ panel # NoPanel /\ ~panel.busy /\ confirmed
  /\ panel.checked # {}
  /\ \A c \in panel.checked \cap Filtered(list, panel.filter): list[c] # "running"
  /\ Send(t, selected, [panel EXCEPT !.busy = TRUE],
          [Idle EXCEPT !.op = "batch", !.pc = "call", !.ids = panel.checked,
                       !.left = panel.checked, !.own = TRUE])

-----------------------------------------------------------------------------
(* The server: turns, other consoles, events *)

\* An event with the conversation as it is now, which a console without a
\* selection opens if a turn has begun or ended; a slow console misses it.
Told(c, opens) ==
  \/ /\ Len(queue) < MaxQueue
     /\ queue' = Append(queue, [conv |-> c, opens |-> opens, status |-> server'[c]])
  \/ queue' = queue

Become(c, from, to, opens) ==
  /\ server[c] = from /\ server' = [server EXCEPT ![c] = to]
  /\ Told(c, opens)
  /\ UNCHANGED <<list, detail, reading, selected, panel, task>>

Create(c) == Become(c, "new", "running", TRUE)
Continue(c) == Become(c, "idle", "running", FALSE)
Complete(c) == Become(c, "running", "idle", TRUE)

Push(c) ==
  /\ server[c] = "running" /\ server' = server /\ Told(c, FALSE)
  /\ UNCHANGED <<list, detail, reading, selected, panel, task>>

\* Another console deletes a conversation. Nobody is told.
DeleteElsewhere(c) ==
  /\ server[c] = "idle" /\ server' = [server EXCEPT ![c] = "gone"]
  /\ UNCHANGED <<queue, list, detail, reading, selected, panel, task>>

\* The stream breaks and is opened again; nothing is read anew.
Reconnect ==
  /\ queue # <<>> /\ queue' = <<>>
  /\ UNCHANGED <<server, list, detail, reading, selected, panel, task>>

\* A deletion takes its conversations one by one and refuses those that run.
DeleteOne(t, c) ==
  /\ At(t, "call") /\ c \in task[t].left
  /\ server' = IF server[c] = "idle" THEN [server EXCEPT ![c] = "gone"] ELSE server
  /\ task' = [task EXCEPT ![t].left = @ \ {c}]
  /\ UNCHANGED <<queue, list, detail, reading, selected, panel>>

ReadList(t) ==
  /\ At(t, "list")
  /\ task' = [task EXCEPT ![t].pc = "listed",
                ![t].got = [c \in Convs |-> IF server[c] \in Shown THEN server[c] ELSE Unloaded]]
  /\ UNCHANGED <<server, queue, list, detail, reading, selected, panel>>

-----------------------------------------------------------------------------
(* Events and answers land *)

\* Every event brings the summary and the conversation.
LandEvent ==
  /\ queue # <<>>
  /\ LET e == Head(queue)
         first == selected = NoConv /\ e.opens IN
     /\ queue' = Tail(queue)
     /\ detail' = Remembered(e.conv)
     /\ Render([list EXCEPT ![e.conv] = e.status], IF first THEN e.conv ELSE selected,
               panel, task)
  /\ UNCHANGED <<server>>

\* The detail of a selected conversation, or no answer.
LandSelected(c) ==
  /\ c \in reading /\ reading' = reading \ {c}
  /\ detail' \in {detail, Remembered(c)}
  /\ UNCHANGED <<server, queue, list, selected, panel, task>>

\* Mutant: a refused deletion is answered like one that was carried out.
DeletedAnyway(t) ==
  LET x == task[t] IN
  /\ At(t, "call") /\ x.left = {}
  /\ detail' = detail \ x.ids
  /\ Render(list, selected, panel, [task EXCEPT ![t].pc = "list"])
  /\ UNCHANGED <<server, queue>>

\* The server has answered. It calls a batch a success whatever it refused; a
\* single deletion that was refused is an error.
Deleted(t) ==
  LET x == task[t] IN
  /\ At(t, "call") /\ x.left = {}
  /\ x.op = "delete" => \A c \in x.ids: server[c] = "gone"
  /\ detail' = detail \ x.ids
  /\ Render(list, selected, panel, [task EXCEPT ![t].pc = "list"])
  /\ UNCHANGED <<server, queue>>

\* The list replaces what is shown; the detail to be read is that of the
\* selection, or of the top of the list.
LandList(t) ==
  /\ At(t, "listed")
  /\ detail' = detail
  /\ LET l == task[t].got IN
     \E target \in IF selected \in InList(l) THEN {selected}
                   ELSE IF InList(l) = {} THEN {NoConv} ELSE InList(l):
       Render(l, target, panel,
              [task EXCEPT ![t].pc = "detail", ![t].got = Empty, ![t].conv = target])
  /\ UNCHANGED <<server, queue>>

\* Mutant: the tab stays busy when a deletion has failed.
ClosedFailing(p, x, success) ==
  IF ~x.own \/ ~success THEN p
  ELSE [p EXCEPT !.busy = FALSE,
                 !.checked = IF x.op = "batch" THEN {} ELSE @ \ x.ids]

\* The tab when a deletion of it is over.
Closed(p, x, success) ==
  CASE ~x.own -> p
    [] x.own /\ ~success -> [p EXCEPT !.busy = FALSE]
    [] x.own /\ success /\ x.op = "batch" -> [p EXCEPT !.busy = FALSE, !.checked = {}]
    [] OTHER -> [p EXCEPT !.busy = FALSE, !.checked = @ \ x.ids]

\* The refresh is over. What was to be deleted is reported as deleted.
End(t) ==
  LET x == task[t] IN
  /\ At(t, "detail")
  /\ detail' = Remembered(x.conv)
  /\ Render(list, selected, Closed(panel, x, TRUE), [task EXCEPT ![t] = Idle])
  /\ UNCHANGED <<server, queue>>

\* A call, the list or the detail fails.
Fail(t) ==
  /\ ~At(t, "idle")
  /\ detail' = detail
  /\ Render(list, selected, Closed(panel, task[t], FALSE), [task EXCEPT ![t] = Idle])
  /\ UNCHANGED <<server, queue>>

-----------------------------------------------------------------------------
Operator ==
  \/ Enter \/ Leave \/ ToggleAll \/ \E f \in Accounts \cup {All}: Filter(f)
  \/ \E c \in Convs: Toggle(c) \/ Select(c)
  \/ \E t \in Tasks: \/ Refresh(t)
                     \/ \E confirmed \in BOOLEAN: Delete(t, confirmed) \/ BatchDelete(t, confirmed)

Server ==
  \/ \E c \in Convs: \/ Create(c) \/ Continue(c) \/ Push(c) \/ Complete(c)
                     \/ DeleteElsewhere(c)
                     \/ \E t \in Tasks: DeleteOne(t, c)
  \/ \E t \in Tasks: ReadList(t)
  \/ Reconnect

Landing ==
  \/ LandEvent \/ \E c \in Convs: LandSelected(c)
  \/ \E t \in Tasks: Deleted(t) \/ LandList(t) \/ End(t) \/ Fail(t)

Next == Operator \/ Server \/ Landing

Spec == Init /\ [][Next]_vars

-----------------------------------------------------------------------------
(* Properties *)

TypeOK ==
  /\ server \in [Convs -> {"new", "idle", "running", "gone"}]
  /\ queue \in Seq(Events) /\ Len(queue) <= MaxQueue
  /\ list \in Lists /\ detail \subseteq Convs
  /\ reading \subseteq Convs
  /\ selected \in Convs \cup {NoConv} /\ panel \in Panels \cup {NoPanel}
  /\ task \in [Tasks -> TaskRecords]

\* Whatever is filtered, deleted by others or read anew after it was checked: a
\* batch deletes conversations that are on screen as it is sent, none of which is
\* shown as running ("running conversations cannot be deleted",
\* conversations-panel.tsx:237).
BatchIsOnScreen ==
  [][\A t \in Tasks: task[t].op = "none" /\ task'[t].op = "batch" =>
       /\ task'[t].ids \subseteq Filtered(list, panel.filter)
       /\ \A c \in task'[t].ids: list[c] = "idle"]_vars

\* While the list has conversations that the filter shows, one of them is
\* selected: two effects, of the hook and of the tab, agree on it, whatever the
\* stream and the reads make of the list.
SelectionIsShown ==
  /\ selected \in InList(list) \cup {NoConv}
  /\ panel # NoPanel /\ Filtered(list, panel.filter) # {} =>
       selected \in Filtered(list, panel.filter)

\* The tab is busy only while a deletion of it is under way.
BusyHasDeletion == panel # NoPanel /\ panel.busy => \E t \in Tasks: task[t].own

\* The state of the tab is sound: every value has its type, the queue of a slow
\* console no longer than its buffer (ConversationStore.Subscribe), and nothing is busy
\* for nothing.
Sound == TypeOK /\ BusyHasDeletion

\* When the tab reports a deletion as done, what was to be deleted is gone from
\* the server, a running conversation that looked idle included.
ReportIsTrue(op) ==
  \A t \in Tasks: task[t].own /\ task[t].op = op /\ End(t) =>
    \A c \in task[t].ids: server[c] = "gone"
SingleReportIsTrue == [][ReportIsTrue("delete")]_vars

\* "Deleted N conversations, locally and in Notion" (conversations-panel.tsx:165)
\* says the same of a batch.
BatchReportIsTrue == [][ReportIsTrue("batch")]_vars
===============================================================================
