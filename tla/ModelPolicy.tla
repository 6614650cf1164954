----------------------------- MODULE ModelPolicy -----------------------------
(* The model restriction of a workspace: the panels that read and edit it   *)
(* (workspace-model-policy.tsx), the handler that serialises their edits    *)
(* and keeps a restore point (workspace_model_policy.go), and Notion, where *)
(* the setting lives and which members also change directly. A setting has  *)
(* no compare-and-swap: the handler compares the revision the panel read    *)
(* and then writes.                                                         *)
EXTENDS Naturals, FiniteSets

CONSTANTS
  Scopes,      \* the two kinds of agent of a workspace, each with its setting
  FirstScope,  \* the one a panel starts with
  Models,      \* the catalogue; excluding a model stands for its provider too
  Panels,      \* browser tabs that may show the panel
  Tasks,       \* requests in flight at a time (a bound)
  Foreign,     \* settings members give the workspace in Notion (a bound)
  MaxEvents,   \* how often they do or the proxy restarts (a bound)
  DiskFails,   \* whether saving the restore points may fail
  None

VARIABLES
  policy,   \* the setting in Notion
  author,   \* what wrote it (history)
  point,    \* modelPolicyRestorePoints: the setting kept before the first lock
  disk,     \* model_policy_restore_points.json
  editing,  \* modelPolicyMu: the edit that holds it
  panel,    \* the state of each panel, None when it is not mounted
  task,     \* the requests in flight
  events    \* how many outside edits and restarts there were

vars == <<policy, author, point, disk, editing, panel, task, events>>

\* A setting that is not there excludes nothing.
Policies == [present: {TRUE}, off: SUBSET Models] \cup [present: {FALSE}, off: {{}}]
Absent == [present |-> FALSE, off |-> {}]

Edits == {"lock", "restore", "clear"}
Points == Policies \cup {None}

\* What the handler answers: the setting and its restore point. Two settings have
\* the same revision when they are equal.
Snapshots == [scope: Scopes, policy: Policies, point: Points]

PanelRecords ==
  [scope: Scopes, snapshot: Snapshots \cup {None}, model: Models \cup {None},
   inFlight: BOOLEAN]

ASSUME PolicyAssumption ==
  /\ FirstScope \in Scopes
  /\ None \notin Policies \cup Models \cup Panels \cup Tasks \cup PanelRecords
  /\ Foreign \subseteq Policies /\ DiskFails \in BOOLEAN
  /\ MaxEvents \in Nat /\ IsFiniteSet(Models)

TaskRecords ==
  [pc: {"idle", "sent", "read", "ready", "written", "answered", "failed", "refresh"},
   op: Edits \cup {"get"},
   panel: Panels \cup {None},      \* the panel that waits, None when it is gone
   scope: Scopes,
   revision: Points,               \* the setting the panel shows
   model: Models \cup {None},
   seen: Points,                   \* the setting the handler read
   wanted: Points,
   created: BOOLEAN,               \* createdRestorePoint
   answer: Snapshots \cup {None}]

Idle == [pc |-> "idle", op |-> "get", panel |-> None, scope |-> FirstScope,
         revision |-> None, model |-> None, seen |-> None, wanted |-> None,
         created |-> FALSE, answer |-> None]

Fresh(s) == [scope |-> s, snapshot |-> None, model |-> None, inFlight |-> FALSE]

Allowed(pol) == Models \ pol.off

Init ==
  /\ policy = [s \in Scopes |-> Absent] /\ author = [s \in Scopes |-> "outside"]
  /\ point = [s \in Scopes |-> None] /\ disk = point
  /\ editing = None
  /\ panel = [p \in Panels |-> None] /\ task = [t \in Tasks |-> Idle]
  /\ events = 0

-----------------------------------------------------------------------------
(* The panel *)

server == <<policy, author, point, disk, editing, events>>

Mount(p) ==
  /\ panel[p] = None
  /\ panel' = [panel EXCEPT ![p] = Fresh(FirstScope)]
  /\ UNCHANGED <<server, task>>

\* Closing the dialog or choosing another workspace: what is in flight goes on,
\* and nobody waits for it.
Unmount(p) ==
  /\ panel[p] # None
  /\ panel' = [panel EXCEPT ![p] = None]
  /\ task' = [t \in Tasks |-> IF task[t].panel = p THEN [task[t] EXCEPT !.panel = None]
                              ELSE task[t]]
  /\ UNCHANGED server

\* Mutant: the kind of agent can be changed while a request is in flight.
SetScopeAnytime(p, s) ==
  /\ panel[p] # None
  /\ panel' = [panel EXCEPT ![p] = [Fresh(s) EXCEPT !.inFlight = panel[p].inFlight]]
  /\ UNCHANGED <<server, task>>

SetScope(p, s) ==
  /\ panel[p] # None /\ ~panel[p].inFlight
  /\ panel' = [panel EXCEPT ![p] = Fresh(s)]
  /\ UNCHANGED <<server, task>>

Choose(p, m) ==
  /\ panel[p] # None /\ ~panel[p].inFlight /\ panel[p].snapshot # None
  /\ panel' = [panel EXCEPT ![p].model = m]
  /\ UNCHANGED <<server, task>>

\* A panel has one request in flight.
Send(p, t, x) ==
  /\ ~panel[p].inFlight /\ task[t].pc = "idle"
  /\ panel' = [panel EXCEPT ![p].inFlight = TRUE]
  /\ task' = [task EXCEPT ![t] = x]
  /\ UNCHANGED server

Sent(p, op) == [Idle EXCEPT !.pc = "sent", !.op = op, !.panel = p, !.scope = panel[p].scope]

Read(p, t) == panel[p] # None /\ Send(p, t, Sent(p, "get"))

\* An edit needs a setting that was read, and what it acts on: a chosen model, a
\* restore point, a setting to clear.
Offered(x, op) ==
  /\ x # None /\ x.snapshot # None
  /\ \/ op = "lock" /\ x.model # None
     \/ op = "restore" /\ x.snapshot.point # None
     \/ op = "clear" /\ x.snapshot.policy.present

Apply(p, t, op) ==
  /\ Offered(panel[p], op)
  /\ Send(p, t, [Sent(p, op) EXCEPT !.revision = panel[p].snapshot.policy,
                                    !.model = IF op = "lock" THEN panel[p].model ELSE None])

Adopt(x, snapshot) ==
  [x EXCEPT !.snapshot = snapshot,
            !.model = IF Cardinality(Allowed(snapshot.policy)) = 1
                      THEN CHOOSE m \in Models : m \in Allowed(snapshot.policy)
                      ELSE None]

\* An answer is shown; after an edit the models of the workspace are read again
\* before the panel is free.
Land(t) ==
  LET x == task[t]
      again == x.op # "get" /\ x.panel # None IN
  /\ x.pc = "answered"
  /\ panel' = IF x.panel = None THEN panel
              ELSE [panel EXCEPT ![x.panel] = [Adopt(@, x.answer) EXCEPT !.inFlight = again]]
  /\ task' = [task EXCEPT ![t] = IF again THEN [Idle EXCEPT !.pc = "refresh", !.op = x.op, !.panel = x.panel]
                                 ELSE Idle]
  /\ UNCHANGED server

\* Whatever became of the request, what is shown is not to be trusted any more.
Fails(t) ==
  LET x == task[t] IN
  /\ x.pc = "failed"
  /\ panel' = IF x.panel = None THEN panel
              ELSE [panel EXCEPT ![x.panel] = [@ EXCEPT !.snapshot = None, !.inFlight = FALSE]]
  /\ task' = [task EXCEPT ![t] = Idle]
  /\ UNCHANGED server

\* The models have been read again, or could not be: the message tells which.
Refreshed(t) ==
  LET x == task[t] IN
  /\ x.pc = "refresh"
  /\ panel' = IF x.panel = None THEN panel ELSE [panel EXCEPT ![x.panel].inFlight = FALSE]
  /\ task' = [task EXCEPT ![t] = Idle]
  /\ UNCHANGED server

-----------------------------------------------------------------------------
(* The handler *)

console == <<panel, events>>

\* The handler has ended with an error.
Failed(x) == [Idle EXCEPT !.pc = "failed", !.op = x.op, !.panel = x.panel]
End(t) == task' = [task EXCEPT ![t] = Failed(task[t])]
Answer(t, pol, pt) ==
  LET x == task[t] IN
  task' = [task EXCEPT ![t] =
    [Idle EXCEPT !.pc = "answered", !.op = x.op, !.panel = x.panel,
                 !.answer = [scope |-> x.scope, policy |-> pol, point |-> pt]]]
Unlocked(t) == IF editing = t THEN None ELSE editing

\* A set of restore points is saved as a whole; what could not be saved is only
\* in memory.
Saved == disk' = point' \/ (DiskFails /\ disk' = disk)
Keep(s, pol) == point' = [point EXCEPT ![s] = pol] /\ Saved
Drop(s) == point' = [point EXCEPT ![s] = None]
           /\ IF point[s] = None THEN disk' = disk ELSE Saved

\* Mutant: an edit does not look whether another one is going on.
FetchUnlocked(t) ==
  /\ task[t].pc = "sent"
  /\ task' = [task EXCEPT ![t] = [@ EXCEPT !.pc = "read", !.seen = policy[task[t].scope]]]
  /\ editing' = IF task[t].op = "get" THEN editing ELSE t
  /\ UNCHANGED <<policy, author, point, disk, console>>

\* The request arrives: an edit takes the lock or is refused at once. The setting
\* is read from Notion.
Fetch(t) ==
  /\ task[t].pc = "sent"
  /\ \/ /\ task[t].op = "get" \/ editing = None
        /\ task' = [task EXCEPT ![t] = [@ EXCEPT !.pc = "read", !.seen = policy[task[t].scope]]]
        /\ editing' = IF task[t].op = "get" THEN editing ELSE t
     \/ /\ task[t].op # "get" /\ editing # None
        /\ End(t) /\ UNCHANGED editing
  /\ UNCHANGED <<policy, author, point, disk, console>>

\* Mutant: a refused edit leaves the lock taken.
RefuseLocked(t) ==
  /\ task[t].pc \in {"sent", "read"}
  /\ End(t)
  /\ UNCHANGED <<policy, author, point, disk, editing, console>>

\* No account, a cooldown, no right to edit, a model that cannot be had, an error
\* of Notion while it is read: refused before anything is changed.
Refuse(t) ==
  /\ task[t].pc \in {"sent", "read"}
  /\ End(t)
  /\ editing' = Unlocked(t)
  /\ UNCHANGED <<policy, author, point, disk, console>>

Get(t) ==
  /\ task[t].pc = "read" /\ task[t].op = "get"
  /\ Answer(t, task[t].seen, point[task[t].scope])
  /\ UNCHANGED <<policy, author, point, disk, editing, console>>

\* lockWorkspaceModel: every model of the catalogue but one is excluded.
Wanted(x) ==
  CASE x.op = "lock" -> [present |-> TRUE, off |-> Models \ {x.model}]
    [] x.op = "restore" -> point[x.scope]
    [] x.op = "clear" -> Absent

\* The panel showed the setting that is there, and there is something to restore.
ReadyToEdit(t) ==
  LET x == task[t] IN
  /\ x.pc = "read" /\ x.op # "get" /\ x.revision = x.seen
  /\ x.op = "restore" => point[x.scope] # None

Conflict(t) ==
  /\ task[t].pc = "read" /\ task[t].op # "get" /\ ~ReadyToEdit(t)
  /\ End(t)
  /\ editing' = Unlocked(t)
  /\ UNCHANGED <<policy, author, point, disk, console>>

\* The setting is already the wanted one: a restore or a clear that finds it so is
\* done, and its restore point goes.
AlreadySo(t) ==
  LET x == task[t] IN
  /\ ReadyToEdit(t) /\ Wanted(x) = x.seen
  /\ IF x.op = "lock" THEN UNCHANGED <<author, point, disk>>
     ELSE /\ Drop(x.scope)
          /\ author' = [author EXCEPT ![x.scope] = x.op]
  /\ Answer(t, x.seen, point'[x.scope])
  /\ editing' = Unlocked(t)
  /\ UNCHANGED <<policy, console>>

\* The first lock keeps the setting it is about to replace; when that cannot be
\* saved nothing is written.
Prepare(t) ==
  LET x == task[t]
      first == x.op = "lock" /\ point[x.scope] = None IN
  /\ ReadyToEdit(t) /\ Wanted(x) # x.seen
  /\ IF first THEN Keep(x.scope, x.seen) ELSE UNCHANGED <<point, disk>>
  /\ IF disk' = point' \/ ~first
     THEN /\ task' = [task EXCEPT ![t] = [@ EXCEPT !.pc = "ready", !.wanted = Wanted(x), !.created = first]]
          /\ UNCHANGED editing
     ELSE End(t) /\ editing' = Unlocked(t)
  /\ UNCHANGED <<policy, author, console>>

\* Notion has carried the write out and its answer agrees.
Write(t) ==
  LET x == task[t] IN
  /\ x.pc = "ready"
  /\ policy' = [policy EXCEPT ![x.scope] = x.wanted]
  /\ author' = [author EXCEPT ![x.scope] = x.op]
  /\ task' = [task EXCEPT ![t].pc = "written"]
  /\ UNCHANGED <<point, disk, editing, console>>

\* An error or a timeout after the write was sent: it may have been carried out.
Unconfirmed(t) ==
  LET x == task[t] IN
  /\ x.pc = "ready"
  /\ \/ /\ policy' = [policy EXCEPT ![x.scope] = x.wanted]
        /\ author' = [author EXCEPT ![x.scope] = x.op]
     \/ UNCHANGED <<policy, author>>
  /\ End(t)
  /\ editing' = Unlocked(t)
  /\ UNCHANGED <<point, disk, console>>

\* Mutant: a rejected write deletes the restore point it has not created.
RejectedDropping(t) ==
  LET x == task[t] IN
  /\ x.pc = "ready"
  /\ Drop(x.scope)
  /\ End(t)
  /\ editing' = Unlocked(t)
  /\ UNCHANGED <<policy, author, console>>

\* Notion refuses the write: there is nothing to restore from it.
Rejected(t) ==
  LET x == task[t] IN
  /\ x.pc = "ready"
  /\ IF x.created THEN Drop(x.scope) ELSE UNCHANGED <<point, disk>>
  /\ End(t)
  /\ editing' = Unlocked(t)
  /\ UNCHANGED <<policy, author, console>>

\* Once a restore or a clear is confirmed the restore point goes.
Confirm(t) ==
  LET x == task[t] IN
  /\ x.pc = "written"
  /\ IF x.op = "lock" THEN UNCHANGED <<point, disk>> ELSE Drop(x.scope)
  /\ Answer(t, x.wanted, point'[x.scope])
  /\ editing' = Unlocked(t)
  /\ UNCHANGED <<policy, author, console>>

-----------------------------------------------------------------------------
(* The world around them *)

\* A member of the workspace changes the setting in Notion.
Outside(s, pol) ==
  /\ events < MaxEvents /\ policy[s] # pol
  /\ policy' = [policy EXCEPT ![s] = pol]
  /\ author' = [author EXCEPT ![s] = "outside"]
  /\ events' = events + 1
  /\ UNCHANGED <<point, disk, editing, panel, task>>

\* The proxy restarts: the restore points are read from their file, and the
\* requests it was serving end without an answer.
Restart ==
  /\ events < MaxEvents
  /\ point' = disk /\ editing' = None
  /\ task' = [t \in Tasks |-> IF task[t].pc \in {"idle", "failed", "answered", "refresh"} THEN task[t]
                              ELSE Failed(task[t])]
  /\ events' = events + 1
  /\ UNCHANGED <<policy, author, disk, panel>>

Use(p) ==
  \/ Mount(p) \/ Unmount(p)
  \/ \E s \in Scopes : SetScope(p, s)
  \/ \E m \in Models : Choose(p, m)
  \/ \E t \in Tasks : Read(p, t) \/ \E op \in Edits : Apply(p, t, op)

Serve(t) ==
  \/ Fetch(t) \/ Refuse(t) \/ Get(t) \/ Conflict(t) \/ AlreadySo(t) \/ Prepare(t)
  \/ Write(t) \/ Unconfirmed(t) \/ Rejected(t) \/ Confirm(t)
  \/ Land(t) \/ Fails(t) \/ Refreshed(t)

Next ==
  \/ \E p \in Panels : Use(p)
  \/ \E t \in Tasks : Serve(t)
  \/ \E s \in Scopes, pol \in Foreign : Outside(s, pol)
  \/ Restart

Spec == Init /\ [][Next]_vars

-----------------------------------------------------------------------------
(* Properties *)

TypeOK ==
  /\ policy \in [Scopes -> Policies]
  /\ author \in [Scopes -> Edits \cup {"outside"}]
  /\ point \in [Scopes -> Points] /\ disk \in [Scopes -> Points]
  /\ editing \in Tasks \cup {None}
  /\ panel \in [Panels -> PanelRecords \cup {None}]
  /\ task \in [Tasks -> TaskRecords]
  /\ events \in 0..MaxEvents

\* As long as a lock made here is in force there is a way back: the restore
\* point survives errors, later locks and a restart of the proxy.
WayBack == \A s \in Scopes : author[s] = "lock" => point[s] # None

\* What a panel shows and would edit is the setting of the kind of agent that is
\* selected in it.
SnapshotIsOwn ==
  \A p \in Panels : panel[p] # None /\ panel[p].snapshot # None
                    => panel[p].snapshot.scope = panel[p].scope

\* A panel is blocked exactly while a request it waits for is in flight, and it
\* has one such request: no error leaves it blocked for good.
BlockedByOne ==
  \A p \in Panels :
    Cardinality({t \in Tasks : task[t].panel = p}) =
      IF panel[p] # None /\ panel[p].inFlight THEN 1 ELSE 0

\* The lock of the edits is held by the edit that is being carried out, and by
\* none once it has ended, however it ended.
LockIsHeld ==
  \A t \in Tasks :
    editing = t <=> task[t].op # "get" /\ task[t].pc \in {"read", "ready", "written"}

\* A write made here replaces the setting its panel showed, unless a member has
\* changed it in Notion since the handler compared the two: the edits of two
\* panels never overwrite each other unseen.
SeenBefore ==
  [][\A t \in Tasks :
       task[t].pc = "ready" /\ policy' # policy /\ task'[t].pc # "ready"
         => \/ policy[task[t].scope] = task[t].revision
            \/ author[task[t].scope] = "outside"]_vars

\* Together inductive, and more than the properties above.

\* What each stage of a request has to go by.
Staged ==
  \A t \in Tasks :
    LET x == task[t] IN
    /\ x.pc \in {"read", "ready", "written"} => x.seen \in Policies
    /\ x.pc \in {"ready", "written"} => x.op # "get" /\ x.wanted \in Policies
    /\ x.pc = "answered" => x.answer \in Snapshots

\* A request that is waited for belongs to one panel, which still shows what the
\* request is about.
Waited ==
  /\ \A t \in Tasks :
       LET x == task[t] IN
       x.panel # None =>
         /\ x.pc # "idle" /\ panel[x.panel] # None /\ panel[x.panel].inFlight
         /\ x.pc \in {"sent", "read", "ready", "written"} => x.scope = panel[x.panel].scope
         /\ x.pc = "answered" => x.answer.scope = panel[x.panel].scope
  /\ \A t, u \in Tasks : task[t].panel # None /\ task[t].panel = task[u].panel => t = u
  /\ \A p \in Panels :
       panel[p] # None /\ panel[p].inFlight => \E t \in Tasks : task[t].panel = p

\* Until an edit writes, the setting is the one it has read, or a member's.
Compared ==
  \A t \in Tasks :
    LET x == task[t] IN
    x.op # "get" =>
      /\ x.pc \in {"read", "ready"} => policy[x.scope] = x.seen \/ author[x.scope] = "outside"
      /\ x.pc = "ready" => x.revision = x.seen

\* The restore points are those of the file; an edit that is going to lock has one,
\* and one that is about to drop it does not leave a lock behind.
Kept ==
  /\ disk = point
  /\ \A t \in Tasks :
       LET x == task[t] IN
       /\ x.pc = "ready" /\ x.op = "lock" => point[x.scope] # None
       /\ x.pc = "ready" /\ x.created => author[x.scope] # "lock"
       /\ x.pc = "written" /\ x.op # "lock" => author[x.scope] # "lock"

IInv ==
  /\ TypeOK /\ LockIsHeld /\ SnapshotIsOwn /\ Staged /\ Waited /\ Compared
  /\ ~DiskFails => Kept /\ WayBack
===============================================================================
