---------------------------- MODULE ResponseLinks ----------------------------
(***************************************************************************)
(* Answers of /v1/responses are remembered twice: in memory with their body   *)
(* and as a link that continues their conversation (response_store.go), and *)
(* in a table that one goroutine writes from a queue (sqlite_writer.go). A    *)
(* full queue makes a save write by itself, and a deletion wait. Deletions,   *)
(* evictions, the clean-up loop, the shutdown and a crash meet them.          *)
(*                                                                         *)
(* Each answer is that of one turn, saved under an id of its own. Of time     *)
(* there are three ages: fresh, expired (its body is gone) and past the       *)
(* window in which a link is kept. Settings do not change.                    *)
(***************************************************************************)
EXTENDS Naturals, Sequences, FiniteSets

CONSTANTS
  Convs,      \* conversations
  Responses,  \* answers, each of one turn
  Home,       \* the conversation of each
  MaxQueue,   \* capacity of the writer's queue
  Nothing     \* no operation

\* What the writer is asked to do.
SaveOps == [op : {"save"}, of : Responses]
DeleteOps == [op : {"delete"}, of : Convs]
Ops == SaveOps \cup DeleteOps

ASSUME LinksAssumption ==
  /\ Home \in [Responses -> Convs] /\ MaxQueue \in Nat \ {0}
  /\ Nothing \notin Ops

VARIABLES
  conv,     \* status of each conversation
  resident, \* conversations in memory
  stored,   \* conversations with a row
  items,    \* answers in memory with their body
  links,    \* answers in memory, with or without
  age,      \* of each answer
  row,      \* of each answer: "none", "body", or "blank" once it has expired
  turn,     \* where the handler of each answer is
  del,      \* where the deletion of each conversation is
  queue,    \* operations for the writer
  hand,     \* the one it has taken
  waiters,  \* deletions that wait for room in the queue, in their order
  writer,   \* "open", "asked" (to close), "closed" or "drained"
  sweep,    \* links that the clean-up loop has found without a body
  unsaved,  \* history: answers whose row was not written, or overtook a deletion
  leaked    \* history: answers that their deletion could not reach

memory == <<items, links>>
table == <<row, unsaved, leaked>>
writing == <<queue, hand, waiters, writer>>
talk == <<conv, resident, stored>>
vars == <<talk, memory, age, table, turn, del, writing, sweep>>

Of(c) == {r \in Responses : Home[r] = c}

Save(r) == [op |-> "save", of |-> r]
Delete(c) == [op |-> "delete", of |-> c]

\* What the writer still has to do, in its order.
Pending == (IF hand = Nothing THEN <<>> ELSE <<hand>>) \o queue
IsPending(op) == \E i \in DOMAIN Pending : Pending[i] = op

Ages == {"fresh", "expired", "past"}
Older(a) == IF a = "fresh" THEN "expired" ELSE "past"
Expired(r) == age[r] # "fresh"

Init ==
  /\ conv = [c \in Convs |-> "idle"] /\ resident = Convs /\ stored = Convs
  /\ items = {} /\ links = {} /\ age = [r \in Responses |-> "fresh"]
  /\ row = [r \in Responses |-> "none"]
  /\ turn = [r \in Responses |-> "none"] /\ del = [c \in Convs |-> "none"]
  /\ queue = <<>> /\ hand = Nothing /\ waiters = <<>> /\ writer = "open"
  /\ sweep = [pc |-> "idle", found |-> {}]
  /\ unsaved = {} /\ leaked = {}

-----------------------------------------------------------------------------
(* The table *)

\* DeleteExpiredResponses: an expired body is blanked, or its row deleted if it has
\* no conversation, and a blank row is deleted past its window.
Cleaned(rows) ==
  [r \in Responses |->
     IF \/ rows[r] = "body" /\ Expired(r) /\ Home[r] \notin stored
        \/ age[r] = "past"
     THEN "none" ELSE IF rows[r] = "body" /\ Expired(r) THEN "blank" ELSE rows[r]]

\* DeleteOrphanedResponseLinks
Unorphaned(rows) ==
  [r \in Responses |-> IF rows[r] = "blank" /\ Home[r] \notin stored THEN "none" ELSE rows[r]]

\* A save writes the row and cleans up behind it; either may fail, and is logged.
Written(op) ==
  IF op.op = "delete"
    THEN {[r \in Responses |-> IF Home[r] = op.of THEN "none" ELSE row[r]]}
    ELSE LET rows == [row EXCEPT ![op.of] = "body"] IN {rows, Cleaned(rows)}

\* An error of the database is logged, and the operation not tried again.
Failed(op) ==
  /\ row' = row
  /\ unsaved' = IF op.op = "save" THEN unsaved \cup {op.of} ELSE unsaved
  /\ leaked' = IF op.op = "delete" THEN leaked \cup Of(op.of) ELSE leaked

\* An operation that the writer carries out.
Apply(op) ==
  \/ row' \in Written(op) /\ UNCHANGED <<unsaved, leaked>>
  \/ Failed(op)

\* The same by the goroutine that wants it, ahead of what is still queued.
ApplyInline(op) ==
  \/ /\ row' \in Written(op)
     /\ unsaved' = IF op.op = "save" /\ IsPending(Delete(Home[op.of]))
                     THEN unsaved \cup {op.of} ELSE unsaved
     /\ leaked' = IF op.op = "delete" /\ writer # "open"
                    THEN leaked \cup {r \in Of(op.of) : IsPending(Save(r))} ELSE leaked
  \/ Failed(op)

-----------------------------------------------------------------------------
(* The writer *)

\* Mutant: who waits is not told that a place is free.
TakeUnheard ==
  /\ hand = Nothing /\ queue # <<>>
  /\ hand' = Head(queue) /\ queue' = Tail(queue)
  /\ UNCHANGED <<talk, memory, age, table, turn, del, waiters, writer, sweep>>

\* A channel hands the place that gets free to the first who waits for it.
Take ==
  /\ hand = Nothing /\ queue # <<>>
  /\ hand' = Head(queue)
  /\ IF waiters = <<>>
       THEN queue' = Tail(queue) /\ UNCHANGED <<waiters, del>>
       ELSE /\ queue' = Append(Tail(queue), Delete(Head(waiters)))
            /\ waiters' = Tail(waiters) /\ del' = [del EXCEPT ![Head(waiters)] = "row"]
  /\ UNCHANGED <<talk, memory, age, table, turn, writer, sweep>>

Land ==
  /\ hand # Nothing /\ Apply(hand) /\ hand' = Nothing
  /\ UNCHANGED <<talk, memory, age, turn, del, queue, waiters, writer, sweep>>

\* The loop over a closed channel ends when it is empty.
Drain ==
  /\ writer = "closed" /\ hand = Nothing /\ queue = <<>>
  /\ writer' = "drained"
  /\ UNCHANGED <<talk, memory, age, table, turn, del, queue, hand, waiters, sweep>>

\* Close asks for the lock; from then on it keeps new readers out (sync.RWMutex).
AskToClose ==
  /\ writer = "open" /\ writer' = "asked"
  /\ UNCHANGED <<talk, memory, age, table, turn, del, queue, hand, waiters, sweep>>

\* It has the lock when the deletions that wait for room under theirs are through.
CloseQueue ==
  /\ writer = "asked" /\ waiters = <<>>
  /\ writer' = "closed"
  /\ UNCHANGED <<talk, memory, age, table, turn, del, queue, hand, waiters, sweep>>

CanRead == writer # "asked"
HasRoom == Len(queue) < MaxQueue
Enqueue(op) == queue' = Append(queue, op) /\ UNCHANGED <<hand, waiters, writer>>

-----------------------------------------------------------------------------
(* The answer of a turn *)

Move(r, from, to) == turn[r] = from /\ turn' = [turn EXCEPT ![r] = to]
Become(c, status) == conv' = [conv EXCEPT ![c] = status]

\* A turn begins on a conversation at rest, which is loaded if it has to be.
Begin(r) ==
  LET c == Home[r] IN
  /\ Move(r, "none", "running")
  /\ conv[c] = "idle" /\ c \in resident \cup stored
  /\ Become(c, "running") /\ resident' = resident \cup {c}
  /\ UNCHANGED <<stored, memory, age, table, del, writing, sweep>>

\* An error ends the turn; a stream that has begun also keeps what it has got.
Fail(r) ==
  /\ \E to \in {"failed", "done"} : Move(r, "running", to)
  /\ Become(Home[r], "idle")
  /\ UNCHANGED <<resident, stored, memory, age, table, del, writing, sweep>>

\* It looks for the conversation first, which may have gone by then.
Look(r) ==
  /\ Move(r, "failed", IF Home[r] \in resident THEN "found" ELSE "done")
  /\ UNCHANGED <<talk, memory, age, table, del, writing, sweep>>

\* What is in memory once expired bodies have been dropped.
Live == {r \in items : ~Expired(r)}

\* saveResponse: a success is remembered before its turn ends, a failure after.
Remember(r) ==
  /\ \/ Move(r, "running", "saved") /\ UNCHANGED leaked
     \/ Move(r, "found", "late") /\ leaked' = leaked \cup {r}
  /\ items' = Live \cup {r} /\ links' = links \cup {r}
  /\ UNCHANGED <<talk, age, row, unsaved, del, writing, sweep>>

\* Mutant: a save that finds the queue full is dropped.
SendSaveDropping(r) ==
  /\ CanRead
  /\ \/ Move(r, "saved", "sent") \/ Move(r, "late", "done")
  /\ IF writer = "open" /\ HasRoom THEN Enqueue(Save(r)) ELSE UNCHANGED writing
  /\ UNCHANGED <<talk, memory, age, table, del, sweep>>

\* EnqueueSaveResponse does not wait for room.
SendSave(r) ==
  /\ CanRead
  /\ IF writer = "open" /\ HasRoom
       THEN /\ Move(r, "saved", "sent") \/ Move(r, "late", "done")
            /\ Enqueue(Save(r))
       ELSE /\ Move(r, "saved", "inline") \/ Move(r, "late", "lateInline")
            /\ UNCHANGED writing
  /\ UNCHANGED <<talk, memory, age, table, del, sweep>>

SaveInline(r) ==
  /\ Move(r, "inline", "sent") \/ Move(r, "lateInline", "done")
  /\ ApplyInline(Save(r))
  /\ UNCHANGED <<talk, memory, age, del, writing, sweep>>

\* completeConversation
Complete(r) ==
  /\ Move(r, "sent", "done") /\ Become(Home[r], "idle")
  /\ UNCHANGED <<resident, stored, memory, age, table, del, writing, sweep>>

\* A client names the answer it continues: a link brings its conversation back.
Continue(r) ==
  /\ r \in links \ Live /\ Home[r] \in stored
  /\ items' = Live /\ resident' = resident \cup {Home[r]}
  /\ UNCHANGED <<conv, stored, links, age, table, turn, del, writing, sweep>>

-----------------------------------------------------------------------------
(* The deletion of a conversation *)

Step(c, from, to) == del[c] = from /\ del' = [del EXCEPT ![c] = to]

Claim(c) ==
  /\ Step(c, "none", "links")
  /\ conv[c] = "idle" /\ c \in resident \cup stored
  /\ Become(c, "deleting") /\ resident' = resident \cup {c}
  /\ UNCHANGED <<stored, memory, age, table, turn, writing, sweep>>

\* The thread, the session or the row could not be deleted.
Unclaim(c) ==
  /\ Step(c, "links", "none") \/ Step(c, "row", "none")
  /\ Become(c, "idle")
  /\ UNCHANGED <<resident, stored, memory, age, table, turn, writing, sweep>>

\* The thread is gone; deleteResponsesByConversationOrThread forgets the answers.
Forget(c) ==
  /\ Step(c, "links", "send")
  /\ items' = items \ Of(c) /\ links' = links \ Of(c)
  /\ UNCHANGED <<talk, age, table, turn, writing, sweep>>

\* Mutant: a deletion does not wait for room either.
SendDeleteAtOnce(c) ==
  /\ CanRead
  /\ IF writer = "open" /\ HasRoom
       THEN Step(c, "send", "row") /\ Enqueue(Delete(c))
       ELSE Step(c, "send", "inline") /\ UNCHANGED writing
  /\ UNCHANGED <<talk, memory, age, table, turn, sweep>>

\* EnqueueDeleteResponsesByConversationOrThread waits for room, its lock held.
SendDelete(c) ==
  /\ CanRead
  /\ CASE writer # "open" -> Step(c, "send", "inline") /\ UNCHANGED writing
       [] writer = "open" /\ HasRoom -> Step(c, "send", "row") /\ Enqueue(Delete(c))
       [] OTHER -> /\ Step(c, "send", "room") /\ waiters' = Append(waiters, c)
                   /\ UNCHANGED <<queue, hand, writer>>
  /\ UNCHANGED <<talk, memory, age, table, turn, sweep>>

DeleteInline(c) ==
  /\ Step(c, "inline", "row") /\ ApplyInline(Delete(c))
  /\ UNCHANGED <<talk, memory, age, turn, writing, sweep>>

DeleteRow(c) ==
  /\ Step(c, "row", "remove") /\ stored' = stored \ {c}
  /\ UNCHANGED <<conv, resident, memory, age, table, turn, writing, sweep>>

Remove(c) ==
  /\ Step(c, "remove", "none") /\ Become(c, "gone") /\ resident' = resident \ {c}
  /\ UNCHANGED <<stored, memory, age, table, turn, writing, sweep>>

-----------------------------------------------------------------------------
(* Time, the clean-up loop, eviction and restarts *)

Tick ==
  /\ \E r \in links : age[r] # "past"
  /\ age' = [r \in Responses |-> IF r \in links THEN Older(age[r]) ELSE age[r]]
  /\ UNCHANGED <<talk, memory, table, turn, del, writing, sweep>>

\* runResponseStoreCleanupOnce: expired bodies go, then the links without a body
\* are noted,
Sweep ==
  /\ sweep.pc = "idle" /\ writer = "open"
  /\ items' = Live
  /\ sweep' = [pc |-> "found", found |-> links \ Live]
  /\ UNCHANGED <<talk, links, age, table, turn, del, writing>>

\* those looked for whose conversation is not in memory,
FindOrphans ==
  /\ sweep.pc = "found"
  /\ sweep' = [pc |-> "orphans", found |-> {r \in sweep.found : Home[r] \notin resident}]
  /\ UNCHANGED <<talk, memory, age, table, turn, del, writing>>

\* and dropped.
DropOrphans ==
  /\ sweep.pc = "orphans"
  /\ links' = links \ (sweep.found \ items)
  /\ sweep' = [pc |-> "idle", found |-> {}]
  /\ UNCHANGED <<talk, items, age, table, turn, del, writing>>

\* The store is full of newer conversations.
Evict(c) ==
  /\ conv[c] = "idle" /\ c \in resident \cap stored
  /\ resident' = resident \ {c}
  /\ UNCHANGED <<conv, stored, memory, age, table, turn, del, writing, sweep>>

\* The process ends, shut down or not, and LoadResponses reads what the table has; of
\* the conversations as many as fit.
Restart ==
  /\ row' = Unorphaned(Cleaned(row))
  /\ items' = {r \in Responses : row'[r] = "body"}
  /\ links' = {r \in Responses : row'[r] # "none"}
  /\ leaked' = leaked \cup UNION {Of(c) : c \in {d \in Convs : IsPending(Delete(d))}}
  /\ conv' = [c \in Convs |-> IF c \in stored THEN "idle" ELSE "gone"]
  /\ resident' \in SUBSET stored
  /\ turn' = [r \in Responses |-> IF turn[r] = "none" THEN "none" ELSE "done"]
  /\ del' = [c \in Convs |-> "none"]
  /\ queue' = <<>> /\ hand' = Nothing /\ waiters' = <<>> /\ writer' = "open"
  /\ sweep' = [pc |-> "idle", found |-> {}] /\ unsaved' = {}
  /\ UNCHANGED <<stored, age>>

TurnStep(r) ==
  Begin(r) \/ Fail(r) \/ Look(r) \/ Remember(r) \/ SendSave(r) \/ SaveInline(r) \/ Complete(r)
    \/ Continue(r)

DeletionStep(c) ==
  Claim(c) \/ Unclaim(c) \/ Forget(c) \/ SendDelete(c) \/ DeleteInline(c)
    \/ DeleteRow(c) \/ Remove(c)

Next ==
  \/ \E r \in Responses : TurnStep(r)
  \/ \E c \in Convs : DeletionStep(c) \/ Evict(c)
  \/ Take \/ Land \/ Drain \/ AskToClose \/ CloseQueue
  \/ Tick \/ Sweep \/ FindOrphans \/ DropOrphans \/ Restart

Spec == Init /\ [][Next]_vars

\* The writer's goroutine runs, and Close gets its lock when that is free.
Fairness == WF_vars(Take \/ Land \/ Drain) /\ WF_vars(CloseQueue)

FairSpec == Spec /\ Fairness

-----------------------------------------------------------------------------
(* Properties *)

TypeOK ==
  /\ conv \in [Convs -> {"idle", "running", "deleting", "gone"}]
  /\ resident \subseteq Convs /\ stored \subseteq Convs
  /\ items \subseteq links /\ links \subseteq Responses
  /\ age \in [Responses -> Ages] /\ row \in [Responses -> {"none", "body", "blank"}]
  /\ turn \in [Responses -> {"none", "running", "failed", "found", "saved", "late",
                            "inline", "lateInline", "sent", "done"}]
  /\ del \in [Convs -> {"none", "links", "send", "room", "inline", "row", "remove"}]
  /\ queue \in Seq(Ops) /\ Len(queue) <= MaxQueue
  /\ hand \in Ops \cup {Nothing}
  /\ waiters \in Seq(Convs) /\ \A i \in DOMAIN waiters : del[waiters[i]] = "room"
  /\ writer \in {"open", "asked", "closed", "drained"}
  /\ sweep \in [pc : {"idle", "found", "orphans"}, found : SUBSET Responses]
  /\ unsaved \subseteq Responses /\ leaked \subseteq Responses

\* A deletion that is still to be carried out behind every write of the answer.
DeleteBehind(r) ==
  \E i \in DOMAIN Pending :
     /\ Pending[i] = Delete(Home[r])
     /\ \A j \in DOMAIN Pending : j > i => Pending[j] # Save(r)

\* When a conversation has been deleted, its answers are gone from memory, and from
\* the table or about to go, however saves and deletions have passed through the
\* queue or around it (EnqueueDeleteResponsesByConversationOrThread, which waits,
\* EnqueueSaveResponse, which does not). The exceptions are on record: answers of
\* turns that had failed before they were saved, and deletions that the database
\* refused, that died with the process or met the shutdown.
DeletionReachesAll ==
  \A r \in Responses \ leaked : conv[Home[r]] = "gone" =>
    /\ r \notin links
    /\ row[r] # "none" \/ IsPending(Save(r)) => DeleteBehind(r)

\* What can be continued can be continued after a restart: a link in memory has its
\* row, or the write is still to come, or it has failed or has overtaken a deletion
\* of its conversation, which is on record, or its window is over
\* (saveResponseWithAccount and the writer).
LinksAreDurable ==
  \A r \in links \ (unsaved \cup leaked) :
    \/ row[r] # "none" \/ IsPending(Save(r)) \/ turn[r] \in {"saved", "inline"}
    \/ age[r] = "past"

\* Nobody waits for the queue for ever: a deletion gets its room though Close waits
\* for it and keeps others out, and Close returns when all is written
\* (SQLiteWriter.Close, enqueueBlocking).
NobodyWaits ==
  /\ \A c \in Convs : del[c] = "room" ~> del[c] # "room"
  /\ writer = "asked" ~> writer \in {"drained", "open"}

\* A link is kept while its conversation exists and its window lasts (README.md:141),
\* whatever the clean-up loop does.
LinksAreKept ==
  [][\A r \in links : DropOrphans /\ r \notin links' => Home[r] \notin resident \cup stored \/ age[r] = "past"]_vars

\* "The link itself is kept within a bounded window only: past it the response id
\* cannot be continued" (README.md:141): none is left when the loop has cleaned up.
WindowEnds == [][DropOrphans => \A r \in links' : age[r] # "past"]_vars
===============================================================================
