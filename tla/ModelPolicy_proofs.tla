-------------------------- MODULE ModelPolicy_proofs --------------------------
(***************************************************************************)
(* For every catalogue, every number of panels and requests and everything *)
(* members do in Notion: the edits of a setting exclude each other, what a *)
(* panel shows is its own, no edit overwrites what its panel has not seen, *)
(* and a lock leaves a way back as long as the restore points can be       *)
(* saved.                                                                  *)
(***************************************************************************)
EXTENDS ModelPolicy, FiniteSetTheorems, TLAPS

USE PolicyAssumption

(* Request t is at p now; what it is about and everything else in flight   *)
(* stays.                                                                  *)
Advanced(t, p) ==
  /\ \A u \in Tasks : u # t => task'[u] = task[u]
  /\ task'[t].pc = p /\ task'[t].op = task[t].op /\ task'[t].panel = task[t].panel
  /\ task'[t].scope = task[t].scope /\ task'[t].revision = task[t].revision
  /\ task'[t].model = task[t].model /\ task'[t].answer = task[t].answer

LEMMA ReadEffect ==
  ASSUME TypeOK, NEW t \in Tasks, NEW v,
         task' = [task EXCEPT ![t] = [@ EXCEPT !.pc = "read", !.seen = v]]
  PROVE  Advanced(t, "read") /\ task'[t].seen = v /\ task'[t].wanted = task[t].wanted
<1> DEFINE x == task[t]
           y == [x EXCEPT !.pc = "read", !.seen = v]
<1>1. x \in TaskRecords
  BY DEF TypeOK
<1>2. task'[t] = y /\ \A u \in Tasks : u # t => task'[u] = task[u]
  BY Zenon DEF TypeOK
<1> HIDE DEF x
<1>3. /\ y.pc = "read" /\ y.op = x.op /\ y.panel = x.panel /\ y.scope = x.scope
      /\ y.revision = x.revision /\ y.model = x.model /\ y.answer = x.answer
      /\ y.seen = v /\ y.wanted = x.wanted
  BY <1>1 DEF TaskRecords
<1> QED BY <1>2, <1>3, Zenon DEF Advanced, x

LEMMA ReadyEffect ==
  ASSUME TypeOK, NEW t \in Tasks,
         task' = [task EXCEPT ![t] =
                   [@ EXCEPT !.pc = "ready", !.wanted = Wanted(task[t]),
                     !.created = task[t].op = "lock" /\ point[task[t].scope] = None]]
  PROVE  /\ Advanced(t, "ready") /\ task'[t].seen = task[t].seen
         /\ task'[t].wanted = Wanted(task[t])
         /\ task'[t].created = (task[t].op = "lock" /\ point[task[t].scope] = None)
<1> DEFINE x == task[t]
           v == Wanted(x)
           c == x.op = "lock" /\ point[x.scope] = None
           y == [x EXCEPT !.pc = "ready", !.wanted = v, !.created = c]
<1>1. x \in TaskRecords
  BY DEF TypeOK
<1>2. task'[t] = y /\ \A u \in Tasks : u # t => task'[u] = task[u]
  BY Zenon DEF TypeOK
<1> HIDE DEF x, v, c
<1>3. /\ y.pc = "ready" /\ y.op = x.op /\ y.panel = x.panel /\ y.scope = x.scope
      /\ y.revision = x.revision /\ y.model = x.model /\ y.answer = x.answer
      /\ y.seen = x.seen /\ y.wanted = v /\ y.created = c
  BY <1>1 DEF TaskRecords
<1>4. task'[t] = y /\ \A u \in Tasks : u # t => task'[u] = task[u]
  BY <1>2
<1> HIDE DEF y
<1>5. /\ Advanced(t, "ready") /\ task'[t].seen = task[t].seen
      /\ task'[t].wanted = v /\ task'[t].created = c
  BY <1>3, <1>4, Zenon DEF Advanced, x
<1> QED BY <1>5, Zenon DEF v, c, x

(* What an edit is about to write is a setting.                            *)
LEMMA WantedIsPolicy ==
  ASSUME TypeOK, Staged, NEW t \in Tasks, ReadyToEdit(t)
  PROVE  Wanted(task[t]) \in Policies /\ task[t].seen \in Policies
<1> DEFINE x == task[t]
<1>1. /\ x.op \in {"lock", "restore", "clear"} /\ x.seen \in Policies
      /\ x.op = "restore" => point[x.scope] # None
      /\ point[x.scope] \in Points
  BY DEF TypeOK, TaskRecords, Edits, ReadyToEdit, Staged
<1> HIDE DEF x
<1>2. Absent \in Policies
  BY DEF Absent, Policies
<1>3. [present |-> TRUE, off |-> Models \ {x.model}] \in Policies
  BY DEF Policies
<1>4. CASE x.op = "lock"
  BY <1>1, <1>3, <1>4 DEF Wanted, x
<1>5. CASE x.op = "restore"
  BY <1>1, <1>5 DEF Wanted, Points, x
<1>6. CASE x.op = "clear"
  BY <1>1, <1>2, <1>6 DEF Wanted, x
<1> QED BY <1>1, <1>4, <1>5, <1>6 DEF x

(* While an edit is carried out no other one is.                           *)
Sole(t) ==
  /\ editing = t /\ task[t].op # "get"
  /\ \A u \in Tasks : u # t =>
       \/ task[u].op = "get" /\ task[u].pc \notin {"ready", "written"}
       \/ task[u].pc \notin {"read", "ready", "written"}

LEMMA OneEdit ==
  ASSUME Staged, LockIsHeld, NEW t \in Tasks,
         task[t].pc \in {"ready", "written"} \/ (task[t].pc = "read" /\ task[t].op # "get")
  PROVE  Sole(t)
BY DEF Staged, LockIsHeld, Sole

(* A request arrives and is read or refused.                               *)
Fetched(t) ==
  /\ task[t].op = "get" \/ editing = None
  /\ Advanced(t, "read") /\ task'[t].seen = policy[task[t].scope]
  /\ task'[t].wanted = task[t].wanted
  /\ editing' = IF task[t].op = "get" THEN editing ELSE t

Ended(t) == task' = [task EXCEPT ![t] = Failed(task[t])]

LEMMA FetchEffect ==
  ASSUME TypeOK, NEW t \in Tasks, Fetch(t)
  PROVE  /\ task[t].pc = "sent" /\ UNCHANGED <<policy, author, point, disk, panel, events>>
         /\ \/ Fetched(t)
            \/ Ended(t) /\ task[t].op # "get" /\ editing # None /\ editing' = editing
<1>1. task[t].pc = "sent" /\ UNCHANGED <<policy, author, point, disk, panel, events>>
  BY DEF Fetch, console
<1>2. CASE /\ task[t].op = "get" \/ editing = None
           /\ task' = [task EXCEPT ![t] = [@ EXCEPT !.pc = "read",
                                                    !.seen = policy[task[t].scope]]]
           /\ editing' = IF task[t].op = "get" THEN editing ELSE t
  BY <1>1, <1>2, ReadEffect, Zenon DEF Fetched
<1>3. CASE task[t].op # "get" /\ editing # None /\ End(t) /\ UNCHANGED editing
  BY <1>1, <1>3, Zenon DEF End, Ended
<1> QED BY <1>2, <1>3, Zenon DEF Fetch

(* An edit that agrees with what is there goes on with a restore point, or *)
(* ends when that cannot be saved.                                         *)
First(x) == x.op = "lock" /\ point[x.scope] = None

Prepared(t) ==
  LET x == task[t] IN
  /\ Advanced(t, "ready") /\ task'[t].seen = x.seen
  /\ task'[t].wanted = Wanted(x) /\ task'[t].created = First(x)
  /\ editing' = editing

LEMMA PrepareEffect ==
  ASSUME TypeOK, NEW t \in Tasks, Prepare(t)
  PROVE  /\ ReadyToEdit(t) /\ UNCHANGED <<policy, author, panel, events>>
         /\ IF First(task[t]) THEN Keep(task[t].scope, task[t].seen)
            ELSE UNCHANGED <<point, disk>>
         /\ \/ Prepared(t)
            \/ Ended(t) /\ editing' = Unlocked(t) /\ First(task[t]) /\ disk' # point'
<1> DEFINE x == task[t]
<1>1. /\ ReadyToEdit(t) /\ UNCHANGED <<policy, author, panel, events>>
      /\ IF First(x) THEN Keep(x.scope, x.seen) ELSE UNCHANGED <<point, disk>>
  BY Zenon DEF Prepare, console, First
<1>2. CASE disk' = point' \/ ~First(x)
  <2>1. task' = [task EXCEPT ![t] =
                  [@ EXCEPT !.pc = "ready", !.wanted = Wanted(x),
                    !.created = x.op = "lock" /\ point[x.scope] = None]]
        /\ editing' = editing
    BY <1>2, Zenon DEF Prepare, First
  <2>2. Prepared(t)
    BY <2>1, ReadyEffect, Zenon DEF Prepared, First
  <2> QED BY <1>1, <2>2, Zenon
<1>3. CASE ~(disk' = point' \/ ~First(x))
  <2>1. Ended(t) /\ editing' = Unlocked(t)
    BY <1>3, Zenon DEF Prepare, End, Ended, First
  <2> QED BY <1>1, <1>3, <2>1, Zenon
<1> QED BY <1>2, <1>3, Zenon

(* The records that the steps make.                                        *)
LEMMA TaskTypes ==
  /\ Idle \in TaskRecords
  /\ \A x \in TaskRecords, pol \in Policies, pt \in Points :
       [Idle EXCEPT !.pc = "answered", !.op = x.op, !.panel = x.panel,
                    !.answer = [scope |-> x.scope, policy |-> pol, point |-> pt]] \in TaskRecords
  /\ \A x \in TaskRecords :
       /\ Failed(x) \in TaskRecords
       /\ [x EXCEPT !.panel = None] \in TaskRecords
       /\ [x EXCEPT !.pc = "written"] \in TaskRecords
       /\ [Idle EXCEPT !.pc = "refresh", !.op = x.op, !.panel = x.panel] \in TaskRecords
<1>1. Idle \in TaskRecords
  BY DEF Idle, TaskRecords, Points, Edits
<1>2. ASSUME NEW x \in TaskRecords, NEW pol \in Policies, NEW pt \in Points
      PROVE  [Idle EXCEPT !.pc = "answered", !.op = x.op, !.panel = x.panel,
                          !.answer = [scope |-> x.scope, policy |-> pol, point |-> pt]] \in TaskRecords
  <2>1. [scope |-> x.scope, policy |-> pol, point |-> pt] \in Snapshots
    BY DEF TaskRecords, Snapshots
  <2> QED BY <2>1 DEF Idle, TaskRecords, Points
<1>3. ASSUME NEW x \in TaskRecords
      PROVE  /\ Failed(x) \in TaskRecords
             /\ [x EXCEPT !.panel = None] \in TaskRecords
             /\ [x EXCEPT !.pc = "written"] \in TaskRecords
             /\ [Idle EXCEPT !.pc = "refresh", !.op = x.op, !.panel = x.panel] \in TaskRecords
  <2>1. Failed(x) \in TaskRecords
    BY DEF Failed, Idle, TaskRecords, Points
  <2>2. [x EXCEPT !.panel = None] \in TaskRecords /\ [x EXCEPT !.pc = "written"] \in TaskRecords
    BY DEF TaskRecords
  <2>3. [Idle EXCEPT !.pc = "refresh", !.op = x.op, !.panel = x.panel] \in TaskRecords
    BY DEF Idle, TaskRecords, Points
  <2> QED BY <2>1, <2>2, <2>3
<1> QED BY <1>1, <1>2, <1>3

LEMMA SentTypes ==
  ASSUME NEW p \in Panels, NEW op \in Edits \cup {"get"}, NEW s \in Scopes,
         NEW r \in Points, NEW m \in Models \cup {None}
  PROVE  [[Idle EXCEPT !.pc = "sent", !.op = op, !.panel = p, !.scope = s]
            EXCEPT !.revision = r, !.model = m] \in TaskRecords
BY DEF Idle, TaskRecords, Points

LEMMA ReadTypes ==
  ASSUME NEW x \in TaskRecords, NEW v \in Points, NEW c \in BOOLEAN
  PROVE  /\ [x EXCEPT !.pc = "read", !.seen = v] \in TaskRecords
         /\ [x EXCEPT !.pc = "ready", !.wanted = v, !.created = c] \in TaskRecords
BY DEF TaskRecords

LEMMA PanelTypes ==
  /\ \A s \in Scopes : Fresh(s) \in PanelRecords
  /\ \A x \in PanelRecords, b \in BOOLEAN :
       /\ [x EXCEPT !.inFlight = b] \in PanelRecords
       /\ [x EXCEPT !.snapshot = None, !.inFlight = b] \in PanelRecords
       /\ \A m \in Models \cup {None} : [x EXCEPT !.model = m] \in PanelRecords
       /\ \A a \in Snapshots : [Adopt(x, a) EXCEPT !.inFlight = b] \in PanelRecords
<1>1. \A s \in Scopes : Fresh(s) \in PanelRecords
  BY DEF Fresh, PanelRecords
<1>2. ASSUME NEW x \in PanelRecords, NEW b \in BOOLEAN
      PROVE  /\ [x EXCEPT !.inFlight = b] \in PanelRecords
             /\ [x EXCEPT !.snapshot = None, !.inFlight = b] \in PanelRecords
             /\ \A m \in Models \cup {None} : [x EXCEPT !.model = m] \in PanelRecords
  BY DEF PanelRecords
<1>3. ASSUME NEW x \in PanelRecords, NEW b \in BOOLEAN, NEW a \in Snapshots
      PROVE  [Adopt(x, a) EXCEPT !.inFlight = b] \in PanelRecords
  <2> DEFINE left == Allowed(a.policy)
             m == IF Cardinality(left) = 1 THEN CHOOSE n \in Models : n \in left ELSE None
  <2>1. left \subseteq Models /\ IsFiniteSet(left)
    BY FS_Subset DEF Allowed
  <2>2. m \in Models \cup {None}
    <3>1. CASE Cardinality(left) = 1
      <4>1. PICK n : left = {n}
        BY <2>1, <3>1, FS_Singleton
      <4> QED BY <2>1, <3>1, <4>1
    <3> QED BY <3>1
  <2>3. Adopt(x, a) = [x EXCEPT !.snapshot = a, !.model = m]
    BY DEF Adopt
  <2> HIDE DEF m
  <2>4. Adopt(x, a) \in PanelRecords
    BY <2>2, <2>3 DEF PanelRecords
  <2> QED BY <2>4, <1>2
<1> QED BY <1>1, <1>2, <1>3

TasksOK == task \in [Tasks -> TaskRecords]

PanelsOK == panel \in [Panels -> PanelRecords \cup {None}]

(* What does not concern the requests and the panels keeps its type.       *)
RestOK ==
  /\ policy \in [Scopes -> Policies]
  /\ author \in [Scopes -> Edits \cup {"outside"}]
  /\ point \in [Scopes -> Points] /\ disk \in [Scopes -> Points]
  /\ editing \in Tasks \cup {None}
  /\ events \in 0..MaxEvents

(* The types, part by part.                                                *)
(* The requests.                                                           *)
LEMMA TaskTypeStep ==
  ASSUME TypeOK, Staged, [Next]_vars
  PROVE  TasksOK'
<1>1. ASSUME NEW p \in Panels, Mount(p) PROVE TasksOK'
  BY <1>1 DEF Mount, server, Fresh, TypeOK, TasksOK
<1>2. ASSUME NEW p \in Panels, Unmount(p) PROVE TasksOK'
  BY <1>2, TaskTypes DEF Unmount, TypeOK, TasksOK
<1>3. ASSUME NEW p \in Panels, NEW s \in Scopes, SetScope(p, s) PROVE TasksOK'
  BY <1>3 DEF SetScope, server, Fresh, TypeOK, TasksOK
<1>4. ASSUME NEW p \in Panels, NEW m \in Models, Choose(p, m) PROVE TasksOK'
  BY <1>4 DEF Choose, server, TypeOK, TasksOK
<1>5. ASSUME NEW p \in Panels, NEW t \in Tasks, Read(p, t) PROVE TasksOK'
  <2>1. panel[p].scope \in Scopes
    BY <1>5 DEF Read, TypeOK, PanelRecords
  <2>2. Sent(p, "get") \in TaskRecords
    BY <2>1 DEF Sent, Idle, TaskRecords, Points
  <2> QED BY <1>5, <2>2 DEF Read, Send, TypeOK, TasksOK
<1>6. ASSUME NEW p \in Panels, NEW t \in Tasks, NEW op \in Edits, Apply(p, t, op)
      PROVE  TasksOK'
  <2>1. panel[p] \in PanelRecords /\ panel[p].snapshot \in Snapshots
    BY <1>6 DEF Apply, Offered, TypeOK, PanelRecords
  <2>2. /\ panel[p].scope \in Scopes /\ panel[p].snapshot.policy \in Points
        /\ (IF op = "lock" THEN panel[p].model ELSE None) \in Models \cup {None}
    BY <2>1 DEF PanelRecords, Snapshots, Points
  <2>3. [Sent(p, op) EXCEPT !.revision = panel[p].snapshot.policy,
                            !.model = IF op = "lock" THEN panel[p].model ELSE None] \in TaskRecords
    BY <2>2, SentTypes DEF Sent
  <2> QED BY <1>6, <2>3 DEF Apply, Send, TypeOK, TasksOK
<1>7. ASSUME NEW t \in Tasks, Fetch(t) PROVE TasksOK'
  <2>1. task[t] \in TaskRecords /\ policy[task[t].scope] \in Points
    BY DEF TypeOK, TaskRecords, Points
  <2>2. [task[t] EXCEPT !.pc = "read", !.seen = policy[task[t].scope]] \in TaskRecords
    BY <2>1, ReadTypes
  <2> QED BY <1>7, <2>1, <2>2, TaskTypes DEF Fetch, End, TypeOK, TasksOK
<1>8. ASSUME NEW t \in Tasks, Refuse(t) PROVE TasksOK'
  BY <1>8, TaskTypes DEF Refuse, End, TypeOK, TasksOK
<1>9. ASSUME NEW t \in Tasks, Get(t) PROVE TasksOK'
  <2>1. task[t] \in TaskRecords /\ task[t].seen \in Policies /\ point[task[t].scope] \in Points
    BY <1>9 DEF Get, Staged, TypeOK, TaskRecords
  <2> QED BY <1>9, <2>1, TaskTypes DEF Get, Answer, TypeOK, TasksOK
<1>10. ASSUME NEW t \in Tasks, Conflict(t) PROVE TasksOK'
  BY <1>10, TaskTypes DEF Conflict, End, TypeOK, TasksOK
<1>11. ASSUME NEW t \in Tasks, AlreadySo(t) PROVE TasksOK'
  <2>1. task[t] \in TaskRecords /\ task[t].seen \in Policies
    BY <1>11, WantedIsPolicy DEF AlreadySo, TypeOK
  <2>2. point'[task[t].scope] \in Points
    BY <1>11, <2>1 DEF AlreadySo, Drop, TypeOK, TaskRecords, Points
  <2> QED BY <1>11, <2>1, <2>2, TaskTypes DEF AlreadySo, Answer, TypeOK, TasksOK
<1>12. ASSUME NEW t \in Tasks, Prepare(t) PROVE TasksOK'
  <2>1. task[t] \in TaskRecords /\ Wanted(task[t]) \in Points
    BY <1>12, WantedIsPolicy DEF TypeOK, Prepare, Points
  <2>2. \A c \in BOOLEAN :
          [task[t] EXCEPT !.pc = "ready", !.wanted = Wanted(task[t]), !.created = c] \in TaskRecords
    BY <2>1, ReadTypes
  <2>3. [task[t] EXCEPT !.pc = "ready", !.wanted = Wanted(task[t]),
                        !.created = task[t].op = "lock" /\ point[task[t].scope] = None]
          \in TaskRecords
    BY <2>2
  <2> QED BY <1>12, <2>1, <2>3, TaskTypes DEF Prepare, End, TypeOK, TasksOK
<1>13. ASSUME NEW t \in Tasks, Write(t) PROVE TasksOK'
  BY <1>13, TaskTypes DEF Write, TypeOK, TasksOK
<1>14. ASSUME NEW t \in Tasks, Unconfirmed(t) PROVE TasksOK'
  BY <1>14, TaskTypes DEF Unconfirmed, End, TypeOK, TasksOK
<1>15. ASSUME NEW t \in Tasks, Rejected(t) PROVE TasksOK'
  BY <1>15, TaskTypes DEF Rejected, End, TypeOK, TasksOK
<1>16. ASSUME NEW t \in Tasks, Confirm(t) PROVE TasksOK'
  <2>1. task[t] \in TaskRecords /\ task[t].wanted \in Policies
    BY <1>16 DEF Confirm, Staged, TypeOK
  <2>2. point'[task[t].scope] \in Points
    BY <1>16, <2>1 DEF Confirm, Drop, TypeOK, TaskRecords, Points
  <2> QED BY <1>16, <2>1, <2>2, TaskTypes DEF Confirm, Answer, TypeOK, TasksOK
<1>17. ASSUME NEW t \in Tasks, Land(t) PROVE TasksOK'
  BY <1>17, TaskTypes DEF Land, TypeOK, TasksOK
<1>18. ASSUME NEW t \in Tasks, Fails(t) PROVE TasksOK'
  BY <1>18, TaskTypes DEF Fails, TypeOK, TasksOK
<1>19. ASSUME NEW t \in Tasks, Refreshed(t) PROVE TasksOK'
  BY <1>19, TaskTypes DEF Refreshed, TypeOK, TasksOK
<1>20. ASSUME NEW s \in Scopes, NEW pol \in Foreign, Outside(s, pol) PROVE TasksOK'
  BY <1>20 DEF Outside, TypeOK, TasksOK
<1>21. CASE Restart
  BY <1>21, TaskTypes DEF Restart, TypeOK, TasksOK
<1>22. CASE UNCHANGED vars
  BY <1>22 DEF vars, TypeOK, TasksOK
<1> QED
  BY <1>1, <1>2, <1>3, <1>4, <1>5, <1>6, <1>7, <1>8, <1>9, <1>10, <1>11,
     <1>12, <1>13, <1>14, <1>15, <1>16, <1>17, <1>18, <1>19, <1>20, <1>21, <1>22
  DEF Next, Use, Serve

(* The panels.                                                             *)
LEMMA PanelTypeStep ==
  ASSUME TypeOK, Staged, Waited, [Next]_vars
  PROVE  PanelsOK'
<1>1. ASSUME NEW p \in Panels, Mount(p) PROVE PanelsOK'
  BY <1>1, PanelTypes DEF Mount, TypeOK, PanelsOK
<1>2. ASSUME NEW p \in Panels, Unmount(p) PROVE PanelsOK'
  BY <1>2, PanelTypes DEF Unmount, TypeOK, PanelsOK
<1>3. ASSUME NEW p \in Panels, NEW s \in Scopes, SetScope(p, s) PROVE PanelsOK'
  BY <1>3, PanelTypes DEF SetScope, TypeOK, PanelsOK
<1>4. ASSUME NEW p \in Panels, NEW m \in Models, Choose(p, m) PROVE PanelsOK'
  BY <1>4, PanelTypes DEF Choose, TypeOK, PanelsOK
<1>5. ASSUME NEW p \in Panels, NEW t \in Tasks, Read(p, t) PROVE PanelsOK'
  BY <1>5, PanelTypes DEF Read, Send, TypeOK, PanelsOK
<1>6. ASSUME NEW p \in Panels, NEW t \in Tasks, NEW op \in Edits, Apply(p, t, op)
      PROVE  PanelsOK'
  BY <1>6, PanelTypes DEF Apply, Offered, Send, TypeOK, PanelsOK
<1>7. ASSUME NEW t \in Tasks, Fetch(t) PROVE PanelsOK'
  BY <1>7 DEF Fetch, console, TypeOK, PanelsOK
<1>8. ASSUME NEW t \in Tasks, Refuse(t) PROVE PanelsOK'
  BY <1>8 DEF Refuse, console, TypeOK, PanelsOK
<1>9. ASSUME NEW t \in Tasks, Get(t) PROVE PanelsOK'
  BY <1>9 DEF Get, console, TypeOK, PanelsOK
<1>10. ASSUME NEW t \in Tasks, Conflict(t) PROVE PanelsOK'
  BY <1>10 DEF Conflict, console, TypeOK, PanelsOK
<1>11. ASSUME NEW t \in Tasks, AlreadySo(t) PROVE PanelsOK'
  BY <1>11 DEF AlreadySo, console, TypeOK, PanelsOK
<1>12. ASSUME NEW t \in Tasks, Prepare(t) PROVE PanelsOK'
  BY <1>12 DEF Prepare, console, TypeOK, PanelsOK
<1>13. ASSUME NEW t \in Tasks, Write(t) PROVE PanelsOK'
  BY <1>13 DEF Write, console, TypeOK, PanelsOK
<1>14. ASSUME NEW t \in Tasks, Unconfirmed(t) PROVE PanelsOK'
  BY <1>14 DEF Unconfirmed, console, TypeOK, PanelsOK
<1>15. ASSUME NEW t \in Tasks, Rejected(t) PROVE PanelsOK'
  BY <1>15 DEF Rejected, console, TypeOK, PanelsOK
<1>16. ASSUME NEW t \in Tasks, Confirm(t) PROVE PanelsOK'
  BY <1>16 DEF Confirm, console, TypeOK, PanelsOK
<1>17. ASSUME NEW t \in Tasks, Land(t) PROVE PanelsOK'
  <2>1. task[t].panel \in Panels \cup {None} /\ task[t].answer \in Snapshots
    BY <1>17 DEF Land, Staged, TypeOK, TaskRecords
  <2>2. task[t].panel # None => panel[task[t].panel] \in PanelRecords
    BY <1>17, <2>1 DEF Waited, TypeOK
  <2> QED BY <1>17, <2>1, <2>2, PanelTypes DEF Land, TypeOK, PanelsOK
<1>18. ASSUME NEW t \in Tasks, Fails(t) PROVE PanelsOK'
  <2>1. task[t].panel \in Panels \cup {None}
    BY DEF TypeOK, TaskRecords
  <2>2. task[t].panel # None => panel[task[t].panel] \in PanelRecords
    BY <1>18, <2>1 DEF Fails, Waited, TypeOK
  <2> QED BY <1>18, <2>1, <2>2, PanelTypes DEF Fails, TypeOK, PanelsOK
<1>19. ASSUME NEW t \in Tasks, Refreshed(t) PROVE PanelsOK'
  <2>1. task[t].panel \in Panels \cup {None}
    BY DEF TypeOK, TaskRecords
  <2>2. task[t].panel # None => panel[task[t].panel] \in PanelRecords
    BY <1>19, <2>1 DEF Refreshed, Waited, TypeOK
  <2> QED BY <1>19, <2>1, <2>2, PanelTypes DEF Refreshed, TypeOK, PanelsOK
<1>20. ASSUME NEW s \in Scopes, NEW pol \in Foreign, Outside(s, pol) PROVE PanelsOK'
  BY <1>20 DEF Outside, TypeOK, PanelsOK
<1>21. CASE Restart
  BY <1>21 DEF Restart, TypeOK, PanelsOK
<1>22. CASE UNCHANGED vars
  BY <1>22 DEF vars, TypeOK, PanelsOK
<1> QED
  BY <1>1, <1>2, <1>3, <1>4, <1>5, <1>6, <1>7, <1>8, <1>9, <1>10, <1>11,
     <1>12, <1>13, <1>14, <1>15, <1>16, <1>17, <1>18, <1>19, <1>20, <1>21, <1>22
  DEF Next, Use, Serve

(* The rest.                                                               *)
LEMMA RestStep ==
  ASSUME TypeOK, Staged, [Next]_vars
  PROVE  RestOK'
<1>1. ASSUME NEW p \in Panels, Mount(p) PROVE RestOK'
  BY <1>1 DEF Mount, server, TypeOK, RestOK
<1>2. ASSUME NEW p \in Panels, Unmount(p) PROVE RestOK'
  BY <1>2 DEF Unmount, server, TypeOK, RestOK
<1>3. ASSUME NEW p \in Panels, NEW s \in Scopes, SetScope(p, s) PROVE RestOK'
  BY <1>3 DEF SetScope, server, TypeOK, RestOK
<1>4. ASSUME NEW p \in Panels, NEW m \in Models, Choose(p, m) PROVE RestOK'
  BY <1>4 DEF Choose, server, TypeOK, RestOK
<1>5. ASSUME NEW p \in Panels, NEW t \in Tasks, Read(p, t) PROVE RestOK'
  BY <1>5 DEF Read, Send, server, TypeOK, RestOK
<1>6. ASSUME NEW p \in Panels, NEW t \in Tasks, NEW op \in Edits, Apply(p, t, op)
      PROVE  RestOK'
  BY <1>6 DEF Apply, Send, server, TypeOK, RestOK
<1>7. ASSUME NEW t \in Tasks, Fetch(t) PROVE RestOK'
  BY <1>7 DEF Fetch, console, TypeOK, RestOK
<1>8. ASSUME NEW t \in Tasks, Refuse(t) PROVE RestOK'
  BY <1>8 DEF Refuse, Unlocked, console, TypeOK, RestOK
<1>9. ASSUME NEW t \in Tasks, Get(t) PROVE RestOK'
  BY <1>9 DEF Get, console, TypeOK, RestOK
<1>10. ASSUME NEW t \in Tasks, Conflict(t) PROVE RestOK'
  BY <1>10 DEF Conflict, Unlocked, console, TypeOK, RestOK
<1>11. ASSUME NEW t \in Tasks, AlreadySo(t) PROVE RestOK'
  <2>1. task[t].op \in Edits
    BY <1>11 DEF AlreadySo, ReadyToEdit, TypeOK, TaskRecords
  <2> QED BY <1>11, <2>1 DEF AlreadySo, Drop, Saved, Unlocked, console, TypeOK, RestOK,
        Points
<1>12. ASSUME NEW t \in Tasks, Prepare(t) PROVE RestOK'
  <2>1. task[t].scope \in Scopes /\ task[t].seen \in Points
    BY DEF TypeOK, TaskRecords
  <2> QED BY <1>12, <2>1 DEF Prepare, Keep, Saved, End, Unlocked, console, TypeOK, RestOK
<1>13. ASSUME NEW t \in Tasks, Write(t) PROVE RestOK'
  <2>1. task[t].wanted \in Policies /\ task[t].op \in Edits
    BY <1>13 DEF Write, Staged, TypeOK, TaskRecords
  <2> QED BY <1>13, <2>1 DEF Write, Unlocked, console, TypeOK, RestOK
<1>14. ASSUME NEW t \in Tasks, Unconfirmed(t) PROVE RestOK'
  <2>1. task[t].wanted \in Policies /\ task[t].op \in Edits
    BY <1>14 DEF Unconfirmed, Staged, TypeOK, TaskRecords
  <2> QED BY <1>14, <2>1 DEF Unconfirmed, Unlocked, console, TypeOK, RestOK
<1>15. ASSUME NEW t \in Tasks, Rejected(t) PROVE RestOK'
  BY <1>15 DEF Rejected, Drop, Saved, Unlocked, console, TypeOK, RestOK, Points
<1>16. ASSUME NEW t \in Tasks, Confirm(t) PROVE RestOK'
  BY <1>16 DEF Confirm, Drop, Saved, Unlocked, console, TypeOK, RestOK, Points
<1>17. ASSUME NEW t \in Tasks, Land(t) PROVE RestOK'
  BY <1>17 DEF Land, server, TypeOK, RestOK
<1>18. ASSUME NEW t \in Tasks, Fails(t) PROVE RestOK'
  BY <1>18 DEF Fails, server, TypeOK, RestOK
<1>19. ASSUME NEW t \in Tasks, Refreshed(t) PROVE RestOK'
  BY <1>19 DEF Refreshed, server, TypeOK, RestOK
<1>20. ASSUME NEW s \in Scopes, NEW pol \in Foreign, Outside(s, pol) PROVE RestOK'
  BY <1>20 DEF Outside, TypeOK, RestOK
<1>21. CASE Restart
  BY <1>21 DEF Restart, TypeOK, RestOK
<1>22. CASE UNCHANGED vars
  BY <1>22 DEF vars, TypeOK, RestOK
<1> QED
  BY <1>1, <1>2, <1>3, <1>4, <1>5, <1>6, <1>7, <1>8, <1>9, <1>10, <1>11,
     <1>12, <1>13, <1>14, <1>15, <1>16, <1>17, <1>18, <1>19, <1>20, <1>21, <1>22
  DEF Next, Use, Serve

(* Every step hands the lock over as the stages of the edits say.          *)
LEMMA LockStep ==
  ASSUME TypeOK, Staged, LockIsHeld, [Next]_vars
  PROVE  LockIsHeld'
<1>1. ASSUME NEW p \in Panels, Mount(p) PROVE LockIsHeld'
  BY <1>1 DEF Mount, server, Fresh, LockIsHeld, TypeOK, TaskRecords
<1>2. ASSUME NEW p \in Panels, Unmount(p) PROVE LockIsHeld'
  BY <1>2 DEF Unmount, server, LockIsHeld, TypeOK, TaskRecords
<1>3. ASSUME NEW p \in Panels, NEW s \in Scopes, SetScope(p, s) PROVE LockIsHeld'
  BY <1>3 DEF SetScope, server, Fresh, LockIsHeld, TypeOK, TaskRecords
<1>4. ASSUME NEW p \in Panels, NEW m \in Models, Choose(p, m) PROVE LockIsHeld'
  BY <1>4 DEF Choose, server, LockIsHeld, TypeOK, TaskRecords
<1>5. ASSUME NEW p \in Panels, NEW t \in Tasks, Read(p, t) PROVE LockIsHeld'
  BY <1>5 DEF Read, Send, Sent, Idle, server, LockIsHeld, TypeOK, TaskRecords
<1>6. ASSUME NEW p \in Panels, NEW t \in Tasks, NEW op \in Edits, Apply(p, t, op)
      PROVE  LockIsHeld'
  BY <1>6 DEF Apply, Offered, Send, Sent, Idle, server, Edits, LockIsHeld, TypeOK,
     TaskRecords
<1>7. ASSUME NEW t \in Tasks, Fetch(t) PROVE LockIsHeld'
  <2>1. task[t].pc = "sent" /\ UNCHANGED <<policy, author, point, disk, panel, events>>
    BY <1>7, FetchEffect, Zenon
  <2>2. CASE Fetched(t)
    BY <2>1, <2>2 DEF Fetched, Advanced, LockIsHeld, TypeOK, TaskRecords
  <2>3. CASE Ended(t) /\ task[t].op # "get" /\ editing # None /\ editing' = editing
    BY <2>1, <2>3 DEF Ended, Failed, Idle, LockIsHeld, TypeOK, TaskRecords
  <2> QED BY <1>7, <2>2, <2>3, FetchEffect, Zenon
<1>8. ASSUME NEW t \in Tasks, Refuse(t) PROVE LockIsHeld'
  BY <1>8 DEF Refuse, End, Failed, Idle, Unlocked, console, LockIsHeld, TypeOK, TaskRecords
<1>9. ASSUME NEW t \in Tasks, Get(t) PROVE LockIsHeld'
  BY <1>9 DEF Get, Answer, Idle, console, LockIsHeld, TypeOK, TaskRecords
<1>10. ASSUME NEW t \in Tasks, Conflict(t) PROVE LockIsHeld'
  BY <1>10 DEF Conflict, End, Failed, Idle, Unlocked, console, LockIsHeld, TypeOK,
     TaskRecords
<1>11. ASSUME NEW t \in Tasks, AlreadySo(t) PROVE LockIsHeld'
  BY <1>11 DEF AlreadySo, ReadyToEdit, Wanted, Drop, Saved, Answer, Idle, Unlocked,
     console, LockIsHeld, TypeOK, TaskRecords
<1>12. ASSUME NEW t \in Tasks, Prepare(t) PROVE LockIsHeld'
  <2>1. /\ ReadyToEdit(t) /\ UNCHANGED <<policy, author, panel, events>>
        /\ IF First(task[t]) THEN Keep(task[t].scope, task[t].seen)
           ELSE UNCHANGED <<point, disk>>
    BY <1>12, PrepareEffect, Zenon
  <2>2. CASE Prepared(t)
    BY <2>1, <2>2 DEF Prepared, Advanced, ReadyToEdit, LockIsHeld, TypeOK, TaskRecords
  <2>3. CASE Ended(t) /\ editing' = Unlocked(t) /\ First(task[t]) /\ disk' # point'
    BY <2>1, <2>3 DEF Ended, Failed, Idle, Unlocked, ReadyToEdit, LockIsHeld, TypeOK,
       TaskRecords
  <2> QED BY <1>12, <2>2, <2>3, PrepareEffect, Zenon
<1>13. ASSUME NEW t \in Tasks, Write(t) PROVE LockIsHeld'
  BY <1>13 DEF Write, console, LockIsHeld, TypeOK, TaskRecords
<1>14. ASSUME NEW t \in Tasks, Unconfirmed(t) PROVE LockIsHeld'
  BY <1>14 DEF Unconfirmed, End, Failed, Idle, Unlocked, console, LockIsHeld, TypeOK,
     TaskRecords
<1>15. ASSUME NEW t \in Tasks, Rejected(t) PROVE LockIsHeld'
  BY <1>15 DEF Rejected, Drop, Saved, End, Failed, Idle, Unlocked, console, LockIsHeld,
     TypeOK, TaskRecords
<1>16. ASSUME NEW t \in Tasks, Confirm(t) PROVE LockIsHeld'
  BY <1>16 DEF Confirm, Drop, Saved, Answer, Idle, Unlocked, console, LockIsHeld,
     TypeOK, TaskRecords
<1>17. ASSUME NEW t \in Tasks, Land(t) PROVE LockIsHeld'
  BY <1>17 DEF Land, Adopt, Idle, server, LockIsHeld, TypeOK, TaskRecords
<1>18. ASSUME NEW t \in Tasks, Fails(t) PROVE LockIsHeld'
  BY <1>18 DEF Fails, Idle, server, LockIsHeld, TypeOK, TaskRecords
<1>19. ASSUME NEW t \in Tasks, Refreshed(t) PROVE LockIsHeld'
  BY <1>19 DEF Refreshed, Idle, server, LockIsHeld, TypeOK, TaskRecords
<1>20. ASSUME NEW s \in Scopes, NEW pol \in Foreign, Outside(s, pol) PROVE LockIsHeld'
  BY <1>20 DEF Outside, LockIsHeld, TypeOK, TaskRecords
<1>21. CASE Restart
  BY <1>21 DEF Restart, Failed, Idle, LockIsHeld, TypeOK, TaskRecords
<1>22. CASE UNCHANGED vars
  BY <1>22 DEF vars, LockIsHeld, TypeOK, TaskRecords
<1> QED
  BY <1>1, <1>2, <1>3, <1>4, <1>5, <1>6, <1>7, <1>8, <1>9, <1>10, <1>11,
     <1>12, <1>13, <1>14, <1>15, <1>16, <1>17, <1>18, <1>19, <1>20, <1>21, <1>22
  DEF Next, Use, Serve

(* An answer is for what its panel still shows.                            *)
LEMMA SnapshotStep ==
  ASSUME TypeOK, Staged, Waited, SnapshotIsOwn, [Next]_vars
  PROVE  SnapshotIsOwn'
<1>1. ASSUME NEW p \in Panels, Mount(p) PROVE SnapshotIsOwn'
  BY <1>1 DEF Mount, server, Fresh, SnapshotIsOwn, Waited, TypeOK, TaskRecords,
     PanelRecords, Snapshots
<1>2. ASSUME NEW p \in Panels, Unmount(p) PROVE SnapshotIsOwn'
  BY <1>2 DEF Unmount, server, SnapshotIsOwn, Waited, TypeOK, TaskRecords, PanelRecords,
     Snapshots
<1>3. ASSUME NEW p \in Panels, NEW s \in Scopes, SetScope(p, s) PROVE SnapshotIsOwn'
  BY <1>3 DEF SetScope, server, Fresh, SnapshotIsOwn, Waited, TypeOK, TaskRecords,
     PanelRecords, Snapshots
<1>4. ASSUME NEW p \in Panels, NEW m \in Models, Choose(p, m) PROVE SnapshotIsOwn'
  BY <1>4 DEF Choose, server, SnapshotIsOwn, Waited, TypeOK, TaskRecords, PanelRecords,
     Snapshots
<1>5. ASSUME NEW p \in Panels, NEW t \in Tasks, Read(p, t) PROVE SnapshotIsOwn'
  BY <1>5 DEF Read, Send, Sent, Idle, server, SnapshotIsOwn, Waited, TypeOK,
     TaskRecords, PanelRecords, Snapshots
<1>6. ASSUME NEW p \in Panels, NEW t \in Tasks, NEW op \in Edits, Apply(p, t, op)
      PROVE  SnapshotIsOwn'
  BY <1>6 DEF Apply, Offered, Send, Sent, Idle, server, Edits, SnapshotIsOwn, Waited,
     TypeOK, TaskRecords, PanelRecords, Snapshots
<1>7. ASSUME NEW t \in Tasks, Fetch(t) PROVE SnapshotIsOwn'
  <2>1. task[t].pc = "sent" /\ UNCHANGED <<policy, author, point, disk, panel, events>>
    BY <1>7, FetchEffect, Zenon
  <2>2. CASE Fetched(t)
    BY <2>1, <2>2 DEF Fetched, Advanced, SnapshotIsOwn, Waited, TypeOK, TaskRecords,
       PanelRecords, Snapshots
  <2>3. CASE Ended(t) /\ task[t].op # "get" /\ editing # None /\ editing' = editing
    BY <2>1, <2>3 DEF Ended, Failed, Idle, SnapshotIsOwn, Waited, TypeOK, TaskRecords,
       PanelRecords, Snapshots
  <2> QED BY <1>7, <2>2, <2>3, FetchEffect, Zenon
<1>8. ASSUME NEW t \in Tasks, Refuse(t) PROVE SnapshotIsOwn'
  BY <1>8 DEF Refuse, End, Failed, Idle, Unlocked, console, SnapshotIsOwn, Waited,
     TypeOK, TaskRecords, PanelRecords, Snapshots
<1>9. ASSUME NEW t \in Tasks, Get(t) PROVE SnapshotIsOwn'
  BY <1>9 DEF Get, Answer, Idle, console, SnapshotIsOwn, Waited, TypeOK, TaskRecords,
     PanelRecords, Snapshots
<1>10. ASSUME NEW t \in Tasks, Conflict(t) PROVE SnapshotIsOwn'
  BY <1>10 DEF Conflict, End, Failed, Idle, Unlocked, console, SnapshotIsOwn, Waited,
     TypeOK, TaskRecords, PanelRecords, Snapshots
<1>11. ASSUME NEW t \in Tasks, AlreadySo(t) PROVE SnapshotIsOwn'
  BY <1>11 DEF AlreadySo, ReadyToEdit, Wanted, Drop, Saved, Answer, Idle, Unlocked,
     console, SnapshotIsOwn, Waited, TypeOK, TaskRecords, PanelRecords, Snapshots
<1>12. ASSUME NEW t \in Tasks, Prepare(t) PROVE SnapshotIsOwn'
  <2>1. /\ ReadyToEdit(t) /\ UNCHANGED <<policy, author, panel, events>>
        /\ IF First(task[t]) THEN Keep(task[t].scope, task[t].seen)
           ELSE UNCHANGED <<point, disk>>
    BY <1>12, PrepareEffect, Zenon
  <2>2. CASE Prepared(t)
    BY <2>1, <2>2 DEF Prepared, Advanced, ReadyToEdit, SnapshotIsOwn, Waited, TypeOK,
       TaskRecords, PanelRecords, Snapshots
  <2>3. CASE Ended(t) /\ editing' = Unlocked(t) /\ First(task[t]) /\ disk' # point'
    BY <2>1, <2>3 DEF Ended, Failed, Idle, Unlocked, ReadyToEdit, SnapshotIsOwn,
       Waited, TypeOK, TaskRecords, PanelRecords, Snapshots
  <2> QED BY <1>12, <2>2, <2>3, PrepareEffect, Zenon
<1>13. ASSUME NEW t \in Tasks, Write(t) PROVE SnapshotIsOwn'
  BY <1>13 DEF Write, console, SnapshotIsOwn, Waited, TypeOK, TaskRecords, PanelRecords,
     Snapshots
<1>14. ASSUME NEW t \in Tasks, Unconfirmed(t) PROVE SnapshotIsOwn'
  BY <1>14 DEF Unconfirmed, End, Failed, Idle, Unlocked, console, SnapshotIsOwn, Waited,
     TypeOK, TaskRecords, PanelRecords, Snapshots
<1>15. ASSUME NEW t \in Tasks, Rejected(t) PROVE SnapshotIsOwn'
  BY <1>15 DEF Rejected, Drop, Saved, End, Failed, Idle, Unlocked, console,
     SnapshotIsOwn, Waited, TypeOK, TaskRecords, PanelRecords, Snapshots
<1>16. ASSUME NEW t \in Tasks, Confirm(t) PROVE SnapshotIsOwn'
  BY <1>16 DEF Confirm, Drop, Saved, Answer, Idle, Unlocked, console, SnapshotIsOwn,
     Waited, TypeOK, TaskRecords, PanelRecords, Snapshots
<1>17. ASSUME NEW t \in Tasks, Land(t) PROVE SnapshotIsOwn'
  BY <1>17 DEF Land, Adopt, Idle, server, SnapshotIsOwn, Waited, TypeOK, TaskRecords,
     PanelRecords, Snapshots
<1>18. ASSUME NEW t \in Tasks, Fails(t) PROVE SnapshotIsOwn'
  BY <1>18 DEF Fails, Idle, server, SnapshotIsOwn, Waited, TypeOK, TaskRecords,
     PanelRecords, Snapshots
<1>19. ASSUME NEW t \in Tasks, Refreshed(t) PROVE SnapshotIsOwn'
  BY <1>19 DEF Refreshed, Idle, server, SnapshotIsOwn, Waited, TypeOK, TaskRecords,
     PanelRecords, Snapshots
<1>20. ASSUME NEW s \in Scopes, NEW pol \in Foreign, Outside(s, pol) PROVE SnapshotIsOwn'
  BY <1>20 DEF Outside, SnapshotIsOwn, Waited, TypeOK, TaskRecords, PanelRecords, Snapshots
<1>21. CASE Restart
  BY <1>21 DEF Restart, Failed, Idle, SnapshotIsOwn, Waited, TypeOK, TaskRecords,
     PanelRecords, Snapshots
<1>22. CASE UNCHANGED vars
  BY <1>22 DEF vars, SnapshotIsOwn, Waited, TypeOK, TaskRecords, PanelRecords, Snapshots
<1> QED
  BY <1>1, <1>2, <1>3, <1>4, <1>5, <1>6, <1>7, <1>8, <1>9, <1>10, <1>11,
     <1>12, <1>13, <1>14, <1>15, <1>16, <1>17, <1>18, <1>19, <1>20, <1>21, <1>22
  DEF Next, Use, Serve

(* Each stage of a request has what the next one goes by.                  *)
LEMMA StagedStep ==
  ASSUME TypeOK, Staged, [Next]_vars
  PROVE  Staged'
<1>1. ASSUME NEW p \in Panels, Mount(p) PROVE Staged'
  BY <1>1 DEF Mount, server, Fresh, Staged, TypeOK, TaskRecords, Points, Snapshots
<1>2. ASSUME NEW p \in Panels, Unmount(p) PROVE Staged'
  BY <1>2 DEF Unmount, server, Staged, TypeOK, TaskRecords, Points, Snapshots
<1>3. ASSUME NEW p \in Panels, NEW s \in Scopes, SetScope(p, s) PROVE Staged'
  BY <1>3 DEF SetScope, server, Fresh, Staged, TypeOK, TaskRecords, Points, Snapshots
<1>4. ASSUME NEW p \in Panels, NEW m \in Models, Choose(p, m) PROVE Staged'
  BY <1>4 DEF Choose, server, Staged, TypeOK, TaskRecords, Points, Snapshots
<1>5. ASSUME NEW p \in Panels, NEW t \in Tasks, Read(p, t) PROVE Staged'
  BY <1>5 DEF Read, Send, Sent, Idle, server, Staged, TypeOK, TaskRecords, Points, Snapshots
<1>6. ASSUME NEW p \in Panels, NEW t \in Tasks, NEW op \in Edits, Apply(p, t, op)
      PROVE  Staged'
  BY <1>6 DEF Apply, Offered, Send, Sent, Idle, server, Edits, Staged, TypeOK,
     TaskRecords, Points, Snapshots
<1>7. ASSUME NEW t \in Tasks, Fetch(t) PROVE Staged'
  <2>1. task[t].pc = "sent" /\ UNCHANGED <<policy, author, point, disk, panel, events>>
    BY <1>7, FetchEffect, Zenon
  <2>2. CASE Fetched(t)
    BY <2>1, <2>2 DEF Fetched, Advanced, Staged, TypeOK, TaskRecords, Points, Snapshots
  <2>3. CASE Ended(t) /\ task[t].op # "get" /\ editing # None /\ editing' = editing
    BY <2>1, <2>3 DEF Ended, Failed, Idle, Staged, TypeOK, TaskRecords, Points, Snapshots
  <2> QED BY <1>7, <2>2, <2>3, FetchEffect, Zenon
<1>8. ASSUME NEW t \in Tasks, Refuse(t) PROVE Staged'
  BY <1>8 DEF Refuse, End, Failed, Idle, Unlocked, console, Staged, TypeOK, TaskRecords,
     Points, Snapshots
<1>9. ASSUME NEW t \in Tasks, Get(t) PROVE Staged'
  BY <1>9 DEF Get, Answer, Idle, console, Staged, TypeOK, TaskRecords, Points, Snapshots
<1>10. ASSUME NEW t \in Tasks, Conflict(t) PROVE Staged'
  BY <1>10 DEF Conflict, End, Failed, Idle, Unlocked, console, Staged, TypeOK,
     TaskRecords, Points, Snapshots
<1>11. ASSUME NEW t \in Tasks, AlreadySo(t) PROVE Staged'
  BY <1>11 DEF AlreadySo, ReadyToEdit, Wanted, Drop, Saved, Answer, Idle, Unlocked,
     console, Staged, TypeOK, TaskRecords, Points, Snapshots
<1>12. ASSUME NEW t \in Tasks, Prepare(t) PROVE Staged'
  <2>1. /\ ReadyToEdit(t) /\ UNCHANGED <<policy, author, panel, events>>
        /\ IF First(task[t]) THEN Keep(task[t].scope, task[t].seen)
           ELSE UNCHANGED <<point, disk>>
    BY <1>12, PrepareEffect, Zenon
  <2>2. CASE Prepared(t)
    BY <2>1, <2>2, WantedIsPolicy DEF Prepared, Advanced, ReadyToEdit, Staged, TypeOK,
       TaskRecords, Points, Snapshots
  <2>3. CASE Ended(t) /\ editing' = Unlocked(t) /\ First(task[t]) /\ disk' # point'
    BY <2>1, <2>3 DEF Ended, Failed, Idle, Unlocked, ReadyToEdit, Staged, TypeOK,
       TaskRecords, Points, Snapshots
  <2> QED BY <1>12, <2>2, <2>3, PrepareEffect, Zenon
<1>13. ASSUME NEW t \in Tasks, Write(t) PROVE Staged'
  BY <1>13 DEF Write, console, Staged, TypeOK, TaskRecords, Points, Snapshots
<1>14. ASSUME NEW t \in Tasks, Unconfirmed(t) PROVE Staged'
  BY <1>14 DEF Unconfirmed, End, Failed, Idle, Unlocked, console, Staged, TypeOK,
     TaskRecords, Points, Snapshots
<1>15. ASSUME NEW t \in Tasks, Rejected(t) PROVE Staged'
  BY <1>15 DEF Rejected, Drop, Saved, End, Failed, Idle, Unlocked, console, Staged,
     TypeOK, TaskRecords, Points, Snapshots
<1>16. ASSUME NEW t \in Tasks, Confirm(t) PROVE Staged'
  BY <1>16 DEF Confirm, Drop, Saved, Answer, Idle, Unlocked, console, Staged, TypeOK,
     TaskRecords, Points, Snapshots
<1>17. ASSUME NEW t \in Tasks, Land(t) PROVE Staged'
  BY <1>17 DEF Land, Adopt, Idle, server, Staged, TypeOK, TaskRecords, Points, Snapshots
<1>18. ASSUME NEW t \in Tasks, Fails(t) PROVE Staged'
  BY <1>18 DEF Fails, Idle, server, Staged, TypeOK, TaskRecords, Points, Snapshots
<1>19. ASSUME NEW t \in Tasks, Refreshed(t) PROVE Staged'
  BY <1>19 DEF Refreshed, Idle, server, Staged, TypeOK, TaskRecords, Points, Snapshots
<1>20. ASSUME NEW s \in Scopes, NEW pol \in Foreign, Outside(s, pol) PROVE Staged'
  BY <1>20 DEF Outside, Staged, TypeOK, TaskRecords, Points, Snapshots
<1>21. CASE Restart
  BY <1>21 DEF Restart, Failed, Idle, Staged, TypeOK, TaskRecords, Points, Snapshots
<1>22. CASE UNCHANGED vars
  BY <1>22 DEF vars, Staged, TypeOK, TaskRecords, Points, Snapshots
<1> QED
  BY <1>1, <1>2, <1>3, <1>4, <1>5, <1>6, <1>7, <1>8, <1>9, <1>10, <1>11,
     <1>12, <1>13, <1>14, <1>15, <1>16, <1>17, <1>18, <1>19, <1>20, <1>21, <1>22
  DEF Next, Use, Serve

(* Only the edit that holds the lock writes; a member's change is marked.  *)
LEMMA ComparedStep ==
  ASSUME TypeOK, Staged, LockIsHeld, Compared, [Next]_vars
  PROVE  Compared'
<1>1. ASSUME NEW p \in Panels, Mount(p) PROVE Compared'
  BY <1>1 DEF Mount, server, Fresh, Compared, LockIsHeld, TypeOK, TaskRecords
<1>2. ASSUME NEW p \in Panels, Unmount(p) PROVE Compared'
  BY <1>2 DEF Unmount, server, Compared, LockIsHeld, TypeOK, TaskRecords
<1>3. ASSUME NEW p \in Panels, NEW s \in Scopes, SetScope(p, s) PROVE Compared'
  BY <1>3 DEF SetScope, server, Fresh, Compared, LockIsHeld, TypeOK, TaskRecords
<1>4. ASSUME NEW p \in Panels, NEW m \in Models, Choose(p, m) PROVE Compared'
  BY <1>4 DEF Choose, server, Compared, LockIsHeld, TypeOK, TaskRecords
<1>5. ASSUME NEW p \in Panels, NEW t \in Tasks, Read(p, t) PROVE Compared'
  BY <1>5 DEF Read, Send, Sent, Idle, server, Compared, LockIsHeld, TypeOK, TaskRecords
<1>6. ASSUME NEW p \in Panels, NEW t \in Tasks, NEW op \in Edits, Apply(p, t, op)
      PROVE  Compared'
  BY <1>6 DEF Apply, Offered, Send, Sent, Idle, server, Edits, Compared, LockIsHeld,
     TypeOK, TaskRecords
<1>7. ASSUME NEW t \in Tasks, Fetch(t) PROVE Compared'
  <2>1. task[t].pc = "sent" /\ UNCHANGED <<policy, author, point, disk, panel, events>>
    BY <1>7, FetchEffect, Zenon
  <2>2. CASE Fetched(t)
    BY <2>1, <2>2 DEF Fetched, Advanced, Compared, LockIsHeld, TypeOK, TaskRecords
  <2>3. CASE Ended(t) /\ task[t].op # "get" /\ editing # None /\ editing' = editing
    BY <2>1, <2>3 DEF Ended, Failed, Idle, Compared, LockIsHeld, TypeOK, TaskRecords
  <2> QED BY <1>7, <2>2, <2>3, FetchEffect, Zenon
<1>8. ASSUME NEW t \in Tasks, Refuse(t) PROVE Compared'
  BY <1>8 DEF Refuse, End, Failed, Idle, Unlocked, console, Compared, LockIsHeld,
     TypeOK, TaskRecords
<1>9. ASSUME NEW t \in Tasks, Get(t) PROVE Compared'
  BY <1>9 DEF Get, Answer, Idle, console, Compared, LockIsHeld, TypeOK, TaskRecords
<1>10. ASSUME NEW t \in Tasks, Conflict(t) PROVE Compared'
  BY <1>10 DEF Conflict, End, Failed, Idle, Unlocked, console, Compared, LockIsHeld,
     TypeOK, TaskRecords
<1>11. ASSUME NEW t \in Tasks, AlreadySo(t) PROVE Compared'
  BY <1>11 DEF AlreadySo, ReadyToEdit, Wanted, Drop, Saved, Answer, Idle, Unlocked,
     console, Compared, LockIsHeld, TypeOK, TaskRecords
<1>12. ASSUME NEW t \in Tasks, Prepare(t) PROVE Compared'
  <2>1. /\ ReadyToEdit(t) /\ UNCHANGED <<policy, author, panel, events>>
        /\ IF First(task[t]) THEN Keep(task[t].scope, task[t].seen)
           ELSE UNCHANGED <<point, disk>>
    BY <1>12, PrepareEffect, Zenon
  <2>2. CASE Prepared(t)
    BY <2>1, <2>2 DEF Prepared, Advanced, ReadyToEdit, Compared, LockIsHeld, TypeOK,
       TaskRecords
  <2>3. CASE Ended(t) /\ editing' = Unlocked(t) /\ First(task[t]) /\ disk' # point'
    BY <2>1, <2>3 DEF Ended, Failed, Idle, Unlocked, ReadyToEdit, Compared,
       LockIsHeld, TypeOK, TaskRecords
  <2> QED BY <1>12, <2>2, <2>3, PrepareEffect, Zenon
<1>13. ASSUME NEW t \in Tasks, Write(t) PROVE Compared'
  <2>1. task[t].pc = "ready"
    BY <1>13 DEF Write
  <2>2. Sole(t)
    BY <2>1, OneEdit
  <2> QED BY <1>13, <2>1, <2>2 DEF Sole, Write, console, Compared, LockIsHeld, TypeOK,
        TaskRecords
<1>14. ASSUME NEW t \in Tasks, Unconfirmed(t) PROVE Compared'
  <2>1. task[t].pc = "ready"
    BY <1>14 DEF Unconfirmed
  <2>2. Sole(t)
    BY <2>1, OneEdit
  <2> QED BY <1>14, <2>1, <2>2 DEF Sole, Unconfirmed, End, Failed, Idle, Unlocked,
        console, Compared, LockIsHeld, TypeOK, TaskRecords
<1>15. ASSUME NEW t \in Tasks, Rejected(t) PROVE Compared'
  BY <1>15 DEF Rejected, Drop, Saved, End, Failed, Idle, Unlocked, console, Compared,
     LockIsHeld, TypeOK, TaskRecords
<1>16. ASSUME NEW t \in Tasks, Confirm(t) PROVE Compared'
  BY <1>16 DEF Confirm, Drop, Saved, Answer, Idle, Unlocked, console, Compared,
     LockIsHeld, TypeOK, TaskRecords
<1>17. ASSUME NEW t \in Tasks, Land(t) PROVE Compared'
  BY <1>17 DEF Land, Adopt, Idle, server, Compared, LockIsHeld, TypeOK, TaskRecords
<1>18. ASSUME NEW t \in Tasks, Fails(t) PROVE Compared'
  BY <1>18 DEF Fails, Idle, server, Compared, LockIsHeld, TypeOK, TaskRecords
<1>19. ASSUME NEW t \in Tasks, Refreshed(t) PROVE Compared'
  BY <1>19 DEF Refreshed, Idle, server, Compared, LockIsHeld, TypeOK, TaskRecords
<1>20. ASSUME NEW s \in Scopes, NEW pol \in Foreign, Outside(s, pol) PROVE Compared'
  BY <1>20 DEF Outside, Compared, LockIsHeld, TypeOK, TaskRecords
<1>21. CASE Restart
  BY <1>21 DEF Restart, Failed, Idle, Compared, LockIsHeld, TypeOK, TaskRecords
<1>22. CASE UNCHANGED vars
  BY <1>22 DEF vars, Compared, LockIsHeld, TypeOK, TaskRecords
<1> QED
  BY <1>1, <1>2, <1>3, <1>4, <1>5, <1>6, <1>7, <1>8, <1>9, <1>10, <1>11,
     <1>12, <1>13, <1>14, <1>15, <1>16, <1>17, <1>18, <1>19, <1>20, <1>21, <1>22
  DEF Next, Use, Serve

(* A panel and the request it waits for come and go together.              *)
LEMMA WaitedStep ==
  ASSUME TypeOK, Staged, Waited, [Next]_vars
  PROVE  Waited'
<1>1. ASSUME NEW p \in Panels, Mount(p) PROVE Waited'
  BY <1>1 DEF Mount, server, Fresh, Waited, TypeOK, TaskRecords, PanelRecords
<1>2. ASSUME NEW p \in Panels, Unmount(p) PROVE Waited'
  BY <1>2 DEF Unmount, server, Waited, TypeOK, TaskRecords, PanelRecords
<1>3. ASSUME NEW p \in Panels, NEW s \in Scopes, SetScope(p, s) PROVE Waited'
  BY <1>3 DEF SetScope, server, Fresh, Waited, TypeOK, TaskRecords, PanelRecords
<1>4. ASSUME NEW p \in Panels, NEW m \in Models, Choose(p, m) PROVE Waited'
  BY <1>4 DEF Choose, server, Waited, TypeOK, TaskRecords, PanelRecords
<1>5. ASSUME NEW p \in Panels, NEW t \in Tasks, Read(p, t) PROVE Waited'
  <2> DEFINE z == Sent(p, "get")
  <2>1. /\ panel[p] # None /\ ~panel[p].inFlight /\ task[t].pc = "idle"
        /\ task' = [task EXCEPT ![t] = z]
        /\ panel' = [panel EXCEPT ![p].inFlight = TRUE]
    BY <1>5 DEF Read, Send
  <2>2. z.panel = p /\ z.pc = "sent"
        /\ z.scope = panel[p].scope
    BY DEF Sent, Idle
  <2> HIDE DEF z
  <2>3. panel[p] \in PanelRecords
    BY <2>1 DEF TypeOK
  <2>4. /\ panel'[p] # None /\ panel'[p].inFlight /\ panel'[p].scope = panel[p].scope
        /\ \A q \in Panels : q # p => panel'[q] = panel[q]
    BY <2>1, <2>3 DEF TypeOK, PanelRecords
  <2>5. /\ task'[t].panel = p /\ task'[t].pc = "sent" /\ task'[t].scope = panel[p].scope
        /\ \A u \in Tasks : u # t => task'[u] = task[u]
    BY <2>1, <2>2 DEF TypeOK
  <2>6. \A u \in Tasks : task[u].panel \in Panels \cup {None} /\ task[u].panel # p
    BY <2>1 DEF Waited, TypeOK, TaskRecords
  <2>7. task[t].panel = None
    BY <2>1, <2>6 DEF Waited
  <2> QED BY <2>4, <2>5, <2>6, <2>7 DEF Waited
<1>6. ASSUME NEW p \in Panels, NEW t \in Tasks, NEW op \in Edits, Apply(p, t, op)
      PROVE  Waited'
  <2> DEFINE z == [Sent(p, op) EXCEPT !.revision = panel[p].snapshot.policy,
                      !.model = IF op = "lock" THEN panel[p].model ELSE None]
  <2>1. /\ panel[p] # None /\ ~panel[p].inFlight /\ task[t].pc = "idle"
        /\ task' = [task EXCEPT ![t] = z]
        /\ panel' = [panel EXCEPT ![p].inFlight = TRUE]
    BY <1>6 DEF Apply, Offered, Send
  <2>2. z.panel = p /\ z.pc = "sent"
        /\ z.scope = panel[p].scope
    BY DEF Sent, Idle
  <2> HIDE DEF z
  <2>3. panel[p] \in PanelRecords
    BY <2>1 DEF TypeOK
  <2>4. /\ panel'[p] # None /\ panel'[p].inFlight /\ panel'[p].scope = panel[p].scope
        /\ \A q \in Panels : q # p => panel'[q] = panel[q]
    BY <2>1, <2>3 DEF TypeOK, PanelRecords
  <2>5. /\ task'[t].panel = p /\ task'[t].pc = "sent" /\ task'[t].scope = panel[p].scope
        /\ \A u \in Tasks : u # t => task'[u] = task[u]
    BY <2>1, <2>2 DEF TypeOK
  <2>6. \A u \in Tasks : task[u].panel \in Panels \cup {None} /\ task[u].panel # p
    BY <2>1 DEF Waited, TypeOK, TaskRecords
  <2>7. task[t].panel = None
    BY <2>1, <2>6 DEF Waited
  <2> QED BY <2>4, <2>5, <2>6, <2>7 DEF Waited
<1>7. ASSUME NEW t \in Tasks, Fetch(t) PROVE Waited'
  <2>1. task[t].pc = "sent" /\ UNCHANGED <<policy, author, point, disk, panel, events>>
    BY <1>7, FetchEffect, Zenon
  <2>2. CASE Fetched(t)
    BY <2>1, <2>2 DEF Fetched, Advanced, Waited, TypeOK, TaskRecords, PanelRecords
  <2>3. CASE Ended(t) /\ task[t].op # "get" /\ editing # None /\ editing' = editing
    BY <2>1, <2>3 DEF Ended, Failed, Idle, Waited, TypeOK, TaskRecords, PanelRecords
  <2> QED BY <1>7, <2>2, <2>3, FetchEffect, Zenon
<1>8. ASSUME NEW t \in Tasks, Refuse(t) PROVE Waited'
  BY <1>8 DEF Refuse, End, Failed, Idle, Unlocked, console, Waited, TypeOK, TaskRecords,
     PanelRecords
<1>9. ASSUME NEW t \in Tasks, Get(t) PROVE Waited'
  BY <1>9 DEF Get, Answer, Idle, console, Waited, TypeOK, TaskRecords, PanelRecords
<1>10. ASSUME NEW t \in Tasks, Conflict(t) PROVE Waited'
  BY <1>10 DEF Conflict, End, Failed, Idle, Unlocked, console, Waited, TypeOK,
     TaskRecords, PanelRecords
<1>11. ASSUME NEW t \in Tasks, AlreadySo(t) PROVE Waited'
  BY <1>11 DEF AlreadySo, ReadyToEdit, Wanted, Drop, Saved, Answer, Idle, Unlocked,
     console, Waited, TypeOK, TaskRecords, PanelRecords
<1>12. ASSUME NEW t \in Tasks, Prepare(t) PROVE Waited'
  <2>1. /\ ReadyToEdit(t) /\ UNCHANGED <<policy, author, panel, events>>
        /\ IF First(task[t]) THEN Keep(task[t].scope, task[t].seen)
           ELSE UNCHANGED <<point, disk>>
    BY <1>12, PrepareEffect, Zenon
  <2>2. CASE Prepared(t)
    BY <2>1, <2>2 DEF Prepared, Advanced, ReadyToEdit, Waited, TypeOK, TaskRecords,
       PanelRecords
  <2>3. CASE Ended(t) /\ editing' = Unlocked(t) /\ First(task[t]) /\ disk' # point'
    BY <2>1, <2>3 DEF Ended, Failed, Idle, Unlocked, ReadyToEdit, Waited, TypeOK,
       TaskRecords, PanelRecords
  <2> QED BY <1>12, <2>2, <2>3, PrepareEffect, Zenon
<1>13. ASSUME NEW t \in Tasks, Write(t) PROVE Waited'
  BY <1>13 DEF Write, console, Waited, TypeOK, TaskRecords, PanelRecords
<1>14. ASSUME NEW t \in Tasks, Unconfirmed(t) PROVE Waited'
  BY <1>14 DEF Unconfirmed, End, Failed, Idle, Unlocked, console, Waited, TypeOK,
     TaskRecords, PanelRecords
<1>15. ASSUME NEW t \in Tasks, Rejected(t) PROVE Waited'
  BY <1>15 DEF Rejected, Drop, Saved, End, Failed, Idle, Unlocked, console, Waited,
     TypeOK, TaskRecords, PanelRecords
<1>16. ASSUME NEW t \in Tasks, Confirm(t) PROVE Waited'
  BY <1>16 DEF Confirm, Drop, Saved, Answer, Idle, Unlocked, console, Waited, TypeOK,
     TaskRecords, PanelRecords
<1>17. ASSUME NEW t \in Tasks, Land(t) PROVE Waited'
  <2> DEFINE x == task[t]
             again == x.op # "get" /\ x.panel # None
             y == IF again THEN [Idle EXCEPT !.pc = "refresh", !.op = x.op, !.panel = x.panel] ELSE Idle
  <2>1. /\ x.pc = "answered" /\ x.panel \in Panels \cup {None} /\ task' = [task EXCEPT ![t] = y]
    BY <1>17 DEF Land, TypeOK, TaskRecords
  <2>2. (again => y.panel = x.panel /\ y.pc = "refresh") /\ (~again => y.panel = None)
    BY DEF Idle
  <2>3. /\ task'[t].panel = IF again THEN x.panel ELSE None
        /\ again => task'[t].pc = "refresh"
        /\ \A u \in Tasks : u # t => task'[u] = task[u]
    BY <2>1, <2>2 DEF TypeOK
  <2>4. CASE x.panel = None
    <3>1. panel' = panel
      BY <1>17, <2>4 DEF Land
    <3> QED BY <2>1, <2>3, <2>4, <3>1 DEF Waited
  <2>5. CASE x.panel # None
    <3>1. panel' = [panel EXCEPT ![x.panel] = [Adopt(panel[x.panel], x.answer) EXCEPT !.inFlight = again]]
      BY <1>17, <2>5 DEF Land
    <3>2. x.panel \in Panels /\ panel[x.panel] \in PanelRecords
      BY <2>1, <2>5 DEF Waited, TypeOK
    <3>3. [Adopt(panel[x.panel], x.answer) EXCEPT !.inFlight = again] \in PanelRecords
      BY <1>17, <3>2, PanelTypes DEF Land, Staged
    <3>4. LET z == [Adopt(panel[x.panel], x.answer) EXCEPT !.inFlight = again] IN
          z.inFlight = again /\ z.scope = panel[x.panel].scope
      BY <3>2 DEF Adopt, PanelRecords
    <3>5. /\ panel'[x.panel] \in PanelRecords /\ panel'[x.panel].inFlight = again
          /\ panel'[x.panel].scope = panel[x.panel].scope
          /\ \A q \in Panels : q # x.panel => panel'[q] = panel[q]
      BY <3>1, <3>2, <3>3, <3>4 DEF TypeOK
    <3>6. panel'[x.panel] # None
      BY <3>5 DEF PanelRecords
    <3>7. \A u \in Tasks : u # t => task[u].panel # x.panel /\ task[u].panel \in Panels \cup {None}
      BY <2>5 DEF Waited, TypeOK, TaskRecords
    <3>8. CASE again
      <4>1. task'[t].panel = x.panel /\ task'[t].pc = "refresh" /\ panel'[x.panel].inFlight
        BY <2>3, <3>5, <3>8
      <4>2. \A u \in Tasks : task'[u].panel = task[u].panel
        BY <2>3, <4>1
      <4>3. \A u \in Tasks : u # t /\ task[u].panel # None =>
              task'[u] = task[u] /\ panel'[task[u].panel] = panel[task[u].panel]
        BY <2>3, <3>5, <3>7
      <4>4. \A q \in Panels : panel'[q] # None /\ panel'[q].inFlight
              => q = x.panel \/ (panel[q] # None /\ panel[q].inFlight)
        BY <3>5
      <4> HIDE DEF again
      <4>5. ASSUME NEW u \in Tasks, task'[u].panel # None
            PROVE  LET z == task'[u] IN
                   /\ z.pc # "idle" /\ panel'[z.panel] # None /\ panel'[z.panel].inFlight
                   /\ z.pc \in {"sent", "read", "ready", "written"} => z.scope = panel'[z.panel].scope
                   /\ z.pc = "answered" => z.answer.scope = panel'[z.panel].scope
        BY <3>6, <4>1, <4>2, <4>3, <4>5 DEF Waited
      <4>6. \A u, v \in Tasks :
              task'[u].panel # None /\ task'[u].panel = task'[v].panel => u = v
        BY <4>2 DEF Waited
      <4>7. \A q \in Panels :
              panel'[q] # None /\ panel'[q].inFlight => \E u \in Tasks : task'[u].panel = q
        BY <4>2, <4>4 DEF Waited
      <4> QED BY <4>5, <4>6, <4>7 DEF Waited
    <3>9. CASE ~again
      <4>1. task'[t].panel = None /\ ~panel'[x.panel].inFlight
        BY <2>3, <3>5, <3>9
      <4>2. \A u \in Tasks : task'[u].panel # None =>
              u # t /\ task'[u] = task[u] /\ panel'[task[u].panel] = panel[task[u].panel]
        BY <2>3, <3>5, <3>7, <4>1
      <4> HIDE DEF again
      <4> QED BY <2>3, <2>5, <3>2, <3>5, <3>7, <4>1, <4>2 DEF Waited
    <3> QED BY <3>8, <3>9
  <2> QED BY <2>4, <2>5
<1>18. ASSUME NEW t \in Tasks, Fails(t) PROVE Waited'
  BY <1>18 DEF Fails, Idle, server, Waited, TypeOK, TaskRecords, PanelRecords
<1>19. ASSUME NEW t \in Tasks, Refreshed(t) PROVE Waited'
  BY <1>19 DEF Refreshed, Idle, server, Waited, TypeOK, TaskRecords, PanelRecords
<1>20. ASSUME NEW s \in Scopes, NEW pol \in Foreign, Outside(s, pol) PROVE Waited'
  BY <1>20 DEF Outside, Waited, TypeOK, TaskRecords, PanelRecords
<1>21. CASE Restart
  BY <1>21 DEF Restart, Failed, Idle, Waited, TypeOK, TaskRecords, PanelRecords
<1>22. CASE UNCHANGED vars
  BY <1>22 DEF vars, Waited, TypeOK, TaskRecords, PanelRecords
<1> QED
  BY <1>1, <1>2, <1>3, <1>4, <1>5, <1>6, <1>7, <1>8, <1>9, <1>10, <1>11,
     <1>12, <1>13, <1>14, <1>15, <1>16, <1>17, <1>18, <1>19, <1>20, <1>21, <1>22
  DEF Next, Use, Serve

(* The restore points on disk are those in memory, and an edit that is     *)
(* about to lock has one.                                                  *)
LEMMA KeptStep ==
  ASSUME ~DiskFails, TypeOK, Staged, LockIsHeld, Kept, WayBack, [Next]_vars
  PROVE  Kept'
<1>1. ASSUME NEW p \in Panels, Mount(p) PROVE Kept'
  BY <1>1 DEF Mount, server, Fresh, Kept, TypeOK, TaskRecords, LockIsHeld, WayBack
<1>2. ASSUME NEW p \in Panels, Unmount(p) PROVE Kept'
  BY <1>2 DEF Unmount, server, Kept, TypeOK, TaskRecords, LockIsHeld, WayBack
<1>3. ASSUME NEW p \in Panels, NEW s \in Scopes, SetScope(p, s) PROVE Kept'
  BY <1>3 DEF SetScope, server, Fresh, Kept, TypeOK, TaskRecords, LockIsHeld, WayBack
<1>4. ASSUME NEW p \in Panels, NEW m \in Models, Choose(p, m) PROVE Kept'
  BY <1>4 DEF Choose, server, Kept, TypeOK, TaskRecords, LockIsHeld, WayBack
<1>5. ASSUME NEW p \in Panels, NEW t \in Tasks, Read(p, t) PROVE Kept'
  BY <1>5 DEF Read, Send, Sent, Idle, server, Kept, TypeOK, TaskRecords, LockIsHeld, WayBack
<1>6. ASSUME NEW p \in Panels, NEW t \in Tasks, NEW op \in Edits, Apply(p, t, op)
      PROVE  Kept'
  BY <1>6 DEF Apply, Offered, Send, Sent, Idle, server, Edits, Kept, TypeOK,
     TaskRecords, LockIsHeld, WayBack
<1>7. ASSUME NEW t \in Tasks, Fetch(t) PROVE Kept'
  <2>1. task[t].pc = "sent" /\ UNCHANGED <<policy, author, point, disk, panel, events>>
    BY <1>7, FetchEffect, Zenon
  <2>2. CASE Fetched(t)
    BY <2>1, <2>2 DEF Fetched, Advanced, Kept, TypeOK, TaskRecords, WayBack
  <2>3. CASE Ended(t) /\ task[t].op # "get" /\ editing # None /\ editing' = editing
    BY <2>1, <2>3 DEF Ended, Failed, Idle, Kept, TypeOK, TaskRecords, WayBack
  <2> QED BY <1>7, <2>2, <2>3, FetchEffect, Zenon
<1>8. ASSUME NEW t \in Tasks, Refuse(t) PROVE Kept'
  BY <1>8 DEF Refuse, End, Failed, Idle, Unlocked, console, Kept, TypeOK, TaskRecords,
     LockIsHeld, WayBack
<1>9. ASSUME NEW t \in Tasks, Get(t) PROVE Kept'
  BY <1>9 DEF Get, Answer, Idle, console, Kept, TypeOK, TaskRecords, LockIsHeld, WayBack
<1>10. ASSUME NEW t \in Tasks, Conflict(t) PROVE Kept'
  BY <1>10 DEF Conflict, End, Failed, Idle, Unlocked, console, Kept, TypeOK,
     TaskRecords, LockIsHeld, WayBack
<1>11. ASSUME NEW t \in Tasks, AlreadySo(t) PROVE Kept'
  BY <1>11 DEF AlreadySo, ReadyToEdit, Wanted, Drop, Saved, Answer, Idle, Unlocked,
     console, Kept, TypeOK, TaskRecords, LockIsHeld, WayBack
<1>12. ASSUME NEW t \in Tasks, Prepare(t) PROVE Kept'
  <2>1. /\ ReadyToEdit(t) /\ UNCHANGED <<policy, author, panel, events>>
        /\ IF First(task[t]) THEN Keep(task[t].scope, task[t].seen)
           ELSE UNCHANGED <<point, disk>>
    BY <1>12, PrepareEffect, Zenon
  <2>2. task[t].seen \in Policies /\ disk' = point'
    BY <2>1 DEF ReadyToEdit, Staged, Keep, Saved, Kept
  <2>3. Sole(t)
    BY <2>1, OneEdit DEF ReadyToEdit
  <2>4. CASE Prepared(t)
    <3>1. task[t].op = "lock" => point'[task[t].scope] # None
      BY <2>1, <2>2 DEF First, Keep, TypeOK, TaskRecords
    <3>2. First(task[t]) => author[task[t].scope] # "lock"
      BY DEF First, WayBack, TypeOK, TaskRecords
    <3> QED BY <2>1, <2>2, <2>3, <2>4, <3>1, <3>2 DEF Prepared, Advanced, Sole, Kept
  <2>5. CASE Ended(t)
    BY <2>1, <2>2, <2>3, <2>5 DEF Ended, Failed, Idle, Sole, Kept, TypeOK
  <2> QED BY <1>12, <2>4, <2>5, PrepareEffect, Zenon
<1>13. ASSUME NEW t \in Tasks, Write(t) PROVE Kept'
  <2>1. task[t].pc = "ready"
    BY <1>13 DEF Write
  <2>2. Sole(t)
    BY <2>1, OneEdit
  <2> QED BY <1>13, <2>1, <2>2 DEF Sole, Write, console, Kept, TypeOK, TaskRecords
<1>14. ASSUME NEW t \in Tasks, Unconfirmed(t) PROVE Kept'
  <2>1. task[t].pc = "ready"
    BY <1>14 DEF Unconfirmed
  <2>2. Sole(t)
    BY <2>1, OneEdit
  <2> QED BY <1>14, <2>1, <2>2 DEF Sole, Unconfirmed, End, Failed, Idle, Unlocked,
        console, Kept, TypeOK, TaskRecords
<1>15. ASSUME NEW t \in Tasks, Rejected(t) PROVE Kept'
  <2>1. task[t].pc = "ready"
    BY <1>15 DEF Rejected
  <2>2. Sole(t)
    BY <2>1, OneEdit
  <2> QED BY <1>15, <2>1, <2>2 DEF Sole, Rejected, Drop, Saved, End, Failed, Idle,
        Unlocked, console, Kept, TypeOK, TaskRecords
<1>16. ASSUME NEW t \in Tasks, Confirm(t) PROVE Kept'
  <2>1. task[t].pc = "written"
    BY <1>16 DEF Confirm
  <2>2. Sole(t)
    BY <2>1, OneEdit
  <2> QED BY <1>16, <2>1, <2>2 DEF Sole, Confirm, Drop, Saved, Answer, Idle, Unlocked,
        console, Kept, TypeOK, TaskRecords
<1>17. ASSUME NEW t \in Tasks, Land(t) PROVE Kept'
  BY <1>17 DEF Land, Adopt, Idle, server, Kept, TypeOK, TaskRecords, LockIsHeld, WayBack
<1>18. ASSUME NEW t \in Tasks, Fails(t) PROVE Kept'
  BY <1>18 DEF Fails, Idle, server, Kept, TypeOK, TaskRecords, LockIsHeld, WayBack
<1>19. ASSUME NEW t \in Tasks, Refreshed(t) PROVE Kept'
  BY <1>19 DEF Refreshed, Idle, server, Kept, TypeOK, TaskRecords, LockIsHeld, WayBack
<1>20. ASSUME NEW s \in Scopes, NEW pol \in Foreign, Outside(s, pol) PROVE Kept'
  BY <1>20 DEF Outside, Kept, TypeOK, TaskRecords, LockIsHeld, WayBack
<1>21. CASE Restart
  BY <1>21 DEF Restart, Failed, Idle, Kept, TypeOK, TaskRecords, LockIsHeld, WayBack
<1>22. CASE UNCHANGED vars
  BY <1>22 DEF vars, Kept, TypeOK, TaskRecords, LockIsHeld, WayBack
<1> QED
  BY <1>1, <1>2, <1>3, <1>4, <1>5, <1>6, <1>7, <1>8, <1>9, <1>10, <1>11,
     <1>12, <1>13, <1>14, <1>15, <1>16, <1>17, <1>18, <1>19, <1>20, <1>21, <1>22
  DEF Next, Use, Serve

(* A restore point goes only when no lock is in force.                     *)
LEMMA WayBackStep ==
  ASSUME ~DiskFails, TypeOK, Staged, LockIsHeld, Kept, WayBack, [Next]_vars
  PROVE  WayBack'
<1>1. ASSUME NEW p \in Panels, Mount(p) PROVE WayBack'
  BY <1>1 DEF Mount, server, Fresh, WayBack, Kept, TypeOK, TaskRecords
<1>2. ASSUME NEW p \in Panels, Unmount(p) PROVE WayBack'
  BY <1>2 DEF Unmount, server, WayBack, Kept, TypeOK, TaskRecords
<1>3. ASSUME NEW p \in Panels, NEW s \in Scopes, SetScope(p, s) PROVE WayBack'
  BY <1>3 DEF SetScope, server, Fresh, WayBack, Kept, TypeOK, TaskRecords
<1>4. ASSUME NEW p \in Panels, NEW m \in Models, Choose(p, m) PROVE WayBack'
  BY <1>4 DEF Choose, server, WayBack, Kept, TypeOK, TaskRecords
<1>5. ASSUME NEW p \in Panels, NEW t \in Tasks, Read(p, t) PROVE WayBack'
  BY <1>5 DEF Read, Send, Sent, Idle, server, WayBack, Kept, TypeOK, TaskRecords
<1>6. ASSUME NEW p \in Panels, NEW t \in Tasks, NEW op \in Edits, Apply(p, t, op)
      PROVE  WayBack'
  BY <1>6 DEF Apply, Offered, Send, Sent, Idle, server, Edits, WayBack, Kept, TypeOK,
     TaskRecords
<1>7. ASSUME NEW t \in Tasks, Fetch(t) PROVE WayBack'
  <2>1. task[t].pc = "sent" /\ UNCHANGED <<policy, author, point, disk, panel, events>>
    BY <1>7, FetchEffect, Zenon
  <2>2. CASE Fetched(t)
    BY <2>1, <2>2 DEF Fetched, Advanced, WayBack, Kept, TypeOK, TaskRecords
  <2>3. CASE Ended(t) /\ task[t].op # "get" /\ editing # None /\ editing' = editing
    BY <2>1, <2>3 DEF Ended, Failed, Idle, WayBack, Kept, TypeOK, TaskRecords
  <2> QED BY <1>7, <2>2, <2>3, FetchEffect, Zenon
<1>8. ASSUME NEW t \in Tasks, Refuse(t) PROVE WayBack'
  BY <1>8 DEF Refuse, End, Failed, Idle, Unlocked, console, WayBack, Kept, TypeOK,
     TaskRecords
<1>9. ASSUME NEW t \in Tasks, Get(t) PROVE WayBack'
  BY <1>9 DEF Get, Answer, Idle, console, WayBack, Kept, TypeOK, TaskRecords
<1>10. ASSUME NEW t \in Tasks, Conflict(t) PROVE WayBack'
  BY <1>10 DEF Conflict, End, Failed, Idle, Unlocked, console, WayBack, Kept, TypeOK,
     TaskRecords
<1>11. ASSUME NEW t \in Tasks, AlreadySo(t) PROVE WayBack'
  BY <1>11 DEF AlreadySo, ReadyToEdit, Wanted, Drop, Saved, Answer, Idle, Unlocked,
     console, WayBack, Kept, TypeOK, TaskRecords
<1>12. ASSUME NEW t \in Tasks, Prepare(t) PROVE WayBack'
  <2>1. /\ ReadyToEdit(t) /\ UNCHANGED <<policy, author, panel, events>>
        /\ IF First(task[t]) THEN Keep(task[t].scope, task[t].seen)
           ELSE UNCHANGED <<point, disk>>
    BY <1>12, PrepareEffect, Zenon
  <2>2. CASE Prepared(t)
    BY <2>1, <2>2 DEF Prepared, Advanced, ReadyToEdit, WayBack, Kept, TypeOK,
       TaskRecords, First, Keep, Saved, Staged
  <2>3. CASE Ended(t) /\ editing' = Unlocked(t) /\ First(task[t]) /\ disk' # point'
    BY <2>1, <2>3 DEF Ended, Failed, Idle, Unlocked, ReadyToEdit, WayBack, Kept,
       TypeOK, TaskRecords, First, Keep, Saved, Staged
  <2> QED BY <1>12, <2>2, <2>3, PrepareEffect, Zenon
<1>13. ASSUME NEW t \in Tasks, Write(t) PROVE WayBack'
  BY <1>13 DEF Write, console, WayBack, Kept, TypeOK, TaskRecords
<1>14. ASSUME NEW t \in Tasks, Unconfirmed(t) PROVE WayBack'
  BY <1>14 DEF Unconfirmed, End, Failed, Idle, Unlocked, console, WayBack, Kept, TypeOK,
     TaskRecords
<1>15. ASSUME NEW t \in Tasks, Rejected(t) PROVE WayBack'
  BY <1>15 DEF Rejected, Drop, Saved, End, Failed, Idle, Unlocked, console, WayBack,
     Kept, TypeOK, TaskRecords
<1>16. ASSUME NEW t \in Tasks, Confirm(t) PROVE WayBack'
  BY <1>16 DEF Confirm, Drop, Saved, Answer, Idle, Unlocked, console, WayBack, Kept,
     TypeOK, TaskRecords
<1>17. ASSUME NEW t \in Tasks, Land(t) PROVE WayBack'
  BY <1>17 DEF Land, Adopt, Idle, server, WayBack, Kept, TypeOK, TaskRecords
<1>18. ASSUME NEW t \in Tasks, Fails(t) PROVE WayBack'
  BY <1>18 DEF Fails, Idle, server, WayBack, Kept, TypeOK, TaskRecords
<1>19. ASSUME NEW t \in Tasks, Refreshed(t) PROVE WayBack'
  BY <1>19 DEF Refreshed, Idle, server, WayBack, Kept, TypeOK, TaskRecords
<1>20. ASSUME NEW s \in Scopes, NEW pol \in Foreign, Outside(s, pol) PROVE WayBack'
  BY <1>20 DEF Outside, WayBack, Kept, TypeOK, TaskRecords
<1>21. CASE Restart
  BY <1>21 DEF Restart, Failed, Idle, WayBack, Kept, TypeOK, TaskRecords
<1>22. CASE UNCHANGED vars
  BY <1>22 DEF vars, WayBack, Kept, TypeOK, TaskRecords
<1> QED
  BY <1>1, <1>2, <1>3, <1>4, <1>5, <1>6, <1>7, <1>8, <1>9, <1>10, <1>11,
     <1>12, <1>13, <1>14, <1>15, <1>16, <1>17, <1>18, <1>19, <1>20, <1>21, <1>22
  DEF Next, Use, Serve

(* Together the parts are inductive.                                       *)
LEMMA InitIInv == Init => IInv
<1> SUFFICES ASSUME Init PROVE IInv
  OBVIOUS
<1>1. Idle \in TaskRecords /\ Absent \in Policies
  BY TaskTypes DEF Absent, Policies
<1>2. TypeOK
  BY <1>1 DEF Init, TypeOK, Points
<1>3. LockIsHeld
  BY DEF Init, LockIsHeld, Idle
<1>4. SnapshotIsOwn
  BY DEF Init, SnapshotIsOwn
<1>5. Staged
  BY DEF Init, Staged, Idle
<1>6. Waited
  BY DEF Init, Waited, Idle
<1>7. Compared
  BY DEF Init, Compared, Idle
<1>8. Kept /\ WayBack
  BY DEF Init, Kept, WayBack, Idle
<1> QED BY <1>2, <1>3, <1>4, <1>5, <1>6, <1>7, <1>8 DEF IInv

LEMMA StepIInv == ASSUME IInv, [Next]_vars PROVE IInv'
<1>1. TypeOK /\ LockIsHeld /\ SnapshotIsOwn /\ Staged /\ Waited /\ Compared
  BY DEF IInv
<1>2. TypeOK'
  <2>1. TasksOK'
    BY <1>1, TaskTypeStep
  <2>2. PanelsOK'
    BY <1>1, PanelTypeStep
  <2>3. RestOK'
    BY <1>1, RestStep
  <2> QED BY <2>1, <2>2, <2>3 DEF TypeOK, TasksOK, PanelsOK, RestOK
<1>3. LockIsHeld'
  BY <1>1, LockStep
<1>4. SnapshotIsOwn'
  BY <1>1, SnapshotStep
<1>5. Staged'
  BY <1>1, StagedStep
<1>6. Waited'
  BY <1>1, WaitedStep
<1>7. Compared'
  BY <1>1, ComparedStep
<1>8. ASSUME ~DiskFails PROVE Kept' /\ WayBack'
  BY <1>1, <1>8, KeptStep, WayBackStep DEF IInv
<1> QED BY <1>2, <1>3, <1>4, <1>5, <1>6, <1>7, <1>8 DEF IInv

(* The inductive invariant holds: of every request in flight, the panels   *)
(* that wait and the restore points (workspace_model_policy.go).           *)
THEOREM SpecIInv == Spec => []IInv
<1>1. Init => IInv
  BY InitIInv
<1>2. IInv /\ [Next]_vars => IInv'
  BY StepIInv
<1> QED BY <1>1, <1>2, PTL DEF Spec

(* The variables keep their types.                                         *)
THEOREM TypeCorrect == Spec => []TypeOK
<1>1. IInv => TypeOK
  BY DEF IInv
<1> QED BY <1>1, SpecIInv, PTL

(* modelPolicyMu is held by the edit that is carried out, and by none once *)
(* it has ended, whichever way it ended.                                   *)
THEOREM TheLockIsHeld == Spec => []LockIsHeld
<1>1. IInv => LockIsHeld
  BY DEF IInv
<1> QED BY <1>1, SpecIInv, PTL

(* A panel shows the setting of the kind of agent that is selected in it.  *)
THEOREM ThePanelShowsItsOwn == Spec => []SnapshotIsOwn
<1>1. IInv => SnapshotIsOwn
  BY DEF IInv
<1> QED BY <1>1, SpecIInv, PTL

(* A panel waits for one request as long as it is blocked: no answer, error *)
(* or restart leaves it blocked for good.                                  *)
THEOREM NoPanelStaysBlocked == Spec => []BlockedByOne
<1>1. IInv => BlockedByOne
  <2> SUFFICES ASSUME IInv, NEW p \in Panels
               PROVE  Cardinality({t \in Tasks : task[t].panel = p}) =
                        IF panel[p] # None /\ panel[p].inFlight THEN 1 ELSE 0
    BY DEF BlockedByOne
  <2> DEFINE S == {t \in Tasks : task[t].panel = p}
  <2>1. Waited
    BY DEF IInv
  <2>2. CASE panel[p] # None /\ panel[p].inFlight
    <3>1. PICK t \in Tasks : task[t].panel = p
      BY <2>1, <2>2 DEF Waited
    <3>2. S = {t}
      BY <2>1, <3>1 DEF Waited
    <3> QED BY <2>2, <3>2, FS_Singleton
  <2>3. CASE ~(panel[p] # None /\ panel[p].inFlight)
    <3>1. S = {}
      BY <2>1, <2>3 DEF Waited
    <3> QED BY <2>3, <3>1, FS_EmptySet
  <2> QED BY <2>2, <2>3
<1> QED BY <1>1, SpecIInv, PTL

(* What an edit overwrites is what its panel showed, or what a member has  *)
(* changed in Notion since the two were compared.                          *)
THEOREM NothingUnseenIsOverwritten == Spec => SeenBefore
<1>1. IInv /\ [Next]_vars =>
        [\A t \in Tasks :
           task[t].pc = "ready" /\ policy' # policy /\ task'[t].pc # "ready"
             => \/ policy[task[t].scope] = task[t].revision
                \/ author[task[t].scope] = "outside"]_vars
  BY DEF IInv, Staged, Compared
<1> QED BY <1>1, SpecIInv, PTL DEF Spec, SeenBefore

(* A lock leaves a way back, across errors, later locks and restarts, as    *)
(* long as the restore points can be saved.                                *)
THEOREM ALockLeavesAWayBack == ASSUME ~DiskFails PROVE Spec => []WayBack
<1>1. IInv => WayBack
  BY DEF IInv
<1> QED BY <1>1, SpecIInv, PTL
===============================================================================
