--------------------------- MODULE Conversations ---------------------------
(***************************************************************************)
(* The conversation store of src/internal/app/conversations.go, the        *)
(* request handlers that run turns on it, the deletions (admin requests    *)
(* and cleanup sweeps), the admin edits, and the SQLite table that holds   *)
(* the conversations across restarts.                                      *)
(*                                                                         *)
(* A handler is one goroutine serving /v1/chat/completions,                *)
(* /v1/st/chat/completions, /v1/responses or the admin test; a deleter is  *)
(* one goroutine inside deleteConversation.  What a method of the store    *)
(* does under ConversationStore.mu is one step; persistMu, which is held   *)
(* across a SQLite write, is the variable lock.  Of an entry the model     *)
(* keeps its status and whether the row in SQLite records its content.     *)
(***************************************************************************)
EXTENDS ConversationOrder

CONSTANTS Conv,         \* conversation ids
          Handlers,     \* request handler goroutines
          Deleters,     \* goroutines running deleteConversation
          MaxResident,  \* maxConversationEntries
          NoConv,       \* "no conversation yet"
          Nobody        \* "no goroutine"

ASSUME ConstantsAssumption ==
  /\ MaxResident \in Nat \ {0}
  /\ NoConv \notin Conv
  /\ Nobody \notin Handlers \cup Deleters
  /\ Handlers \cap Deleters = {}

VARIABLES
  status,    \* items[c].Status, "absent" when c is not resident
  order,     \* ConversationStore.order
  row,       \* the status in the conversations table, "absent" without a row
  dirty,     \* persistDirty: ids whose latest deltas were throttled
  stamped,   \* the keys of persistLastAt
  lock,      \* the holder of persistMu
  hpc,       \* where each handler is
  hnext,     \* where it goes once the snapshot it owes is written
  hconv,     \* the conversation it serves
  replaying, \* the handlers that replay a stored answer (replayResult)
  hsnap,     \* the status in the snapshot it read under persistMu
  dpc,       \* where each deleter is
  dconv,     \* the conversation it deletes
  dprev,     \* previousStatus, read before the claim
  \* History variables: they record what happened and guard nothing.
  fresh,     \* conversations whose row holds the content of the entry
  current,   \* handlers whose snapshot in hand holds the content of the entry
  unsaved,   \* conversations whose last snapshot write failed
  dropped,   \* conversations that left the store before a write of them ended
  owner,     \* the handler whose turn made the entry "running"
  claimant,  \* the deleter that made the entry "deleting"
  foreign    \* conversations where a turn or a claim was ended or taken over
             \* by a goroutine it did not belong to

store    == <<status, order>>
table    == <<row, fresh, unsaved>>
throttle == <<dirty, stamped>>
handlers == <<hpc, hnext, hconv, replaying, hsnap, current>>
deleters == <<dpc, dconv, dprev>>
ghosts   == <<owner, claimant, foreign>>
vars     == <<store, table, throttle, lock, handlers, deleters, ghosts, dropped>>

Entries  == {"running", "completed", "failed", "deleting"}
(* Mutant: Continue no longer refuses a busy conversation.                 *)
FinishedOrBusy == {"running", "completed", "failed"}

Finished == {"completed", "failed"}

HandlerPc == {"idle", "resolved", "loaded", "running", "throttle",
              "persist", "write", "tail", "failing"}
DeleterPc == {"idle", "loaded", "claimed", "records", "row", "remove"}

TypeOK ==
  /\ status   \in [Conv -> Entries \cup {"absent"}]
  /\ row      \in [Conv -> Entries \cup {"absent"}]
  /\ dirty    \in SUBSET Conv
  /\ stamped  \in SUBSET Conv
  /\ lock     \in Handlers \cup {Nobody}
  /\ hpc      \in [Handlers -> HandlerPc]
  /\ hnext    \in [Handlers -> {"idle", "resolved", "running", "tail"}]
  /\ hconv    \in [Handlers -> Conv \cup {NoConv}]
  /\ replaying \in SUBSET Handlers
  /\ hsnap    \in [Handlers -> Entries \cup {"absent"}]
  /\ dpc      \in [Deleters -> DeleterPc]
  /\ dconv    \in [Deleters -> Conv \cup {NoConv}]
  /\ dprev    \in [Deleters -> Entries \cup {"absent"}]
  /\ fresh    \in SUBSET Conv
  /\ current  \in SUBSET Handlers
  /\ unsaved  \in SUBSET Conv
  /\ dropped  \in SUBSET Conv
  /\ owner    \in [Conv -> Handlers \cup {Nobody}]
  /\ claimant \in [Conv -> Deleters \cup {Nobody}]
  /\ foreign  \in SUBSET Conv

Init ==
  /\ status = [c \in Conv |-> "absent"] /\ order = <<>>
  /\ row = [c \in Conv |-> "absent"] /\ fresh = {} /\ unsaved = {}
  /\ dirty = {} /\ stamped = {} /\ lock = Nobody
  /\ hpc = [h \in Handlers |-> "idle"] /\ hnext = [h \in Handlers |-> "idle"]
  /\ hconv = [h \in Handlers |-> NoConv] /\ replaying = {}
  /\ hsnap = [h \in Handlers |-> "absent"] /\ current = {}
  /\ dpc = [d \in Deleters |-> "idle"] /\ dconv = [d \in Deleters |-> NoConv]
  /\ dprev = [d \in Deleters |-> "absent"]
  /\ owner = [c \in Conv |-> Nobody] /\ claimant = [c \in Conv |-> Nobody]
  /\ foreign = {} /\ dropped = {}

-----------------------------------------------------------------------------
(* The store under its mutex.                                              *)

(* Mutant: a claim takes a running entry.                                  *)
Resident(s)           == s # "absent"

(* conversationStatusBusy, and the entries trimLocked never drops.         *)
Busy(s)         == s = "running"
Protected(st)   == {c \in Conv : Busy(st[c]) \/ st[c] = "deleting"}

(* What ClaimForDeletion, Delete and the edits ask of an entry.            *)
AtRest(s)       == s # "absent" /\ ~Busy(s)

(* A row written by a process that died mid-turn or mid-deletion is read   *)
(* back as a failed turn.                                                  *)
Repaired(s)     == IF Busy(s) \/ s = "deleting" THEN "failed" ELSE s

(* What loadConversation returns for c: the resident entry, or the row.    *)
Loaded(c)       == IF status[c] # "absent" THEN status[c] ELSE Repaired(row[c])

(* h is to write a snapshot of c; the one it writes may be out of date.    *)
Writing(h, c)   == hconv[h] = c /\ hpc[h] \in {"throttle", "persist", "write"}
Owes(h, c)      == Writing(h, c) /\ (hpc[h] = "write" => h \in current)

(* Mutant: snapshots are read and written without persistMu.               *)
NeverLocked     == TRUE

(* persistMu is free.                                                      *)
Unlocked        == lock = Nobody

(***************************************************************************)
(* Put c into the store with status s and the list o, then trimLocked.     *)
(* keepsRow says that the entry is the one its row records.                *)
(***************************************************************************)
Insert(c, s, o, keepsRow) ==
  LET st   == [status EXCEPT ![c] = s]
      gone == Evicted(o, Protected(st), MaxResident)
  IN  /\ status'  = [x \in Conv |-> IF x \in gone THEN "absent" ELSE st[x]]
      /\ order'   = Without(o, gone)
      /\ fresh'   = (IF keepsRow THEN fresh \cup {c} ELSE fresh \ {c}) \ gone
      /\ unsaved' = unsaved \ (gone \cup {c})
      /\ dropped' = dropped \cup {x \in gone \cap Conv : \E h \in Handlers : Writing(h, x)}
      /\ current' = {h \in current : hconv[h] \notin gone}

(* loadConversation: a miss is restored from its row, once.                *)
Restore(c) ==
  IF status[c] = "absent" /\ row[c] # "absent"
  THEN Insert(c, Repaired(row[c]), MoveToFront(order, c), TRUE)
  ELSE UNCHANGED <<store, fresh, unsaved, dropped, current>>

(* A new version of the entry replaces the published one: neither the row  *)
(* nor a snapshot already in hand records it.                              *)
Rewrite(c) ==
  /\ fresh'   = fresh \ {c}
  /\ current' = {h \in current : hconv[h] # c}

(* Replace the entry of c and move it to the head of the list.             *)
Publish(c, s) ==
  /\ status' = [status EXCEPT ![c] = s]
  /\ order'  = MoveToFront(order, c)
  /\ Rewrite(c)

(* Handler h goes on at pc p; entering "persist" it returns to next.       *)
Goto(h, p)          == hpc' = [hpc EXCEPT ![h] = p] /\ UNCHANGED hnext
ThenPersist(h, next) ==
  /\ hpc'   = [hpc EXCEPT ![h] = "persist"]
  /\ hnext' = [hnext EXCEPT ![h] = next]

(* The handler returns; nothing of its request is left.                    *)
Return(h) ==
  /\ hpc'     = [hpc EXCEPT ![h] = "idle"]
  /\ hnext'   = [hnext EXCEPT ![h] = "idle"]
  /\ hconv'   = [hconv EXCEPT ![h] = NoConv]
  /\ replaying' = replaying \ {h}

-----------------------------------------------------------------------------
(* Handlers: resolving the conversation a request continues.               *)

(* resolveContinuationConversationWithExplicit finds and loads c; a        *)
(* finished answer may be picked for a replay (replayResultFromConversation *)
(* wants status "completed").  Without a match the request begins anew.    *)
Resolve(h, c) ==
  /\ hpc[h] = "idle"
  /\ Loaded(c) # "absent"
  /\ Restore(c)
  /\ hconv' = [hconv EXCEPT ![h] = c]
  /\ \/ Loaded(c) = "completed" /\ replaying' = replaying \cup {h}
     \/ UNCHANGED replaying
  /\ Goto(h, "resolved")
  /\ UNCHANGED <<row, throttle, lock, hsnap, deleters, ghosts>>

(* The admin test adopts an upstream thread that has no local record:      *)
(* ImportRemote stores the transcript, a snapshot follows.                 *)
ImportRemote(h, c) ==
  /\ hpc[h] = "idle"
  /\ Loaded(c) = "absent"
  /\ Insert(c, "completed", MoveToFront(order, c), FALSE)
  /\ hconv' = [hconv EXCEPT ![h] = c]
  /\ ThenPersist(h, "resolved")
  /\ UNCHANGED <<row, throttle, lock, replaying, hsnap, deleters, ghosts>>

(* beginConversation: Create makes a running entry under an id that is not *)
(* resident, the preferred one or a fresh one.                             *)
Begin(h, c) ==
  /\ hpc[h] = "idle"
  /\ status[c] = "absent"
  /\ Insert(c, "running", <<c>> \o order, FALSE)
  /\ owner' = [owner EXCEPT ![c] = h]
  /\ hconv' = [hconv EXCEPT ![h] = c]
  /\ ThenPersist(h, "running")
  /\ UNCHANGED <<row, throttle, lock, replaying, hsnap, deleters, claimant, foreign>>

(* startConversationTurn loads the conversation once more; a read error    *)
(* ends the request.                                                       *)
Reload(h) ==
  /\ hpc[h] = "resolved"
  /\ \/ /\ Restore(hconv[h])
        /\ Goto(h, "loaded")
        /\ UNCHANGED <<hconv, replaying>>
     \/ /\ Return(h)
        /\ UNCHANGED <<store, fresh, unsaved, dropped, current>>
  /\ UNCHANGED <<row, throttle, lock, hsnap, deleters, ghosts>>

(* Continue refuses a missing, busy or deleting entry; a replay leaves the *)
(* entry alone; otherwise the entry becomes the running turn of h.         *)
Continue(h) ==
  LET c == hconv[h] IN
  /\ hpc[h] = "loaded"
  /\ \/ /\ status[c] \notin Finished
        /\ Return(h)
        /\ UNCHANGED <<store, fresh, current, owner>>
     \/ /\ status[c] \in Finished /\ h \in replaying
        /\ ThenPersist(h, "tail")
        /\ UNCHANGED <<store, fresh, current, owner, hconv, replaying>>
     \/ /\ status[c] \in Finished /\ h \notin replaying
        /\ Publish(c, "running")
        /\ owner' = [owner EXCEPT ![c] = h]
        /\ ThenPersist(h, "running")
        /\ UNCHANGED <<hconv, replaying>>
  /\ UNCHANGED <<row, unsaved, throttle, lock, hsnap, deleters, claimant, foreign, dropped>>

-----------------------------------------------------------------------------
(* Handlers: the turn.                                                     *)

(* pushConversationDelta: AppendAssistantDelta touches only a busy entry,  *)
(* whoever runs the turn; persistConversationDelta follows.                *)
AppendDelta(h) ==
  LET c == hconv[h] IN
  /\ hpc[h] = "running"
  /\ IF Busy(status[c]) THEN Publish(c, "running")
                        ELSE UNCHANGED <<store, fresh, current>>
  /\ Goto(h, "throttle")
  /\ UNCHANGED <<row, unsaved, throttle, lock, hconv, replaying, hsnap, deleters, ghosts, dropped>>

(* persistConversationDelta: within a second of the last write the delta   *)
(* is only marked, otherwise it is written.  How long ago the last write   *)
(* was is left open.                                                       *)
ThrottleDelta(h) ==
  /\ hpc[h] = "throttle"
  /\ Unlocked
  /\ \/ /\ hconv[h] \in stamped
        /\ dirty' = dirty \cup {hconv[h]}
        /\ Goto(h, "running")
     \/ ThenPersist(h, "running") /\ UNCHANGED dirty
  /\ UNCHANGED <<store, table, stamped, lock, hconv, replaying, hsnap, current, deleters, ghosts, dropped>>

(* preparePromptExecutionTarget: SetExecutionTarget pins the thread and    *)
(* the account of a busy entry; the snapshot is written in any case.       *)
SetExecutionTarget(h) ==
  LET c == hconv[h] IN
  /\ hpc[h] = "running"
  /\ IF Busy(status[c]) THEN Rewrite(c) ELSE UNCHANGED <<fresh, current>>
  /\ ThenPersist(h, "running")
  /\ UNCHANGED <<store, row, unsaved, throttle, lock, hconv, replaying, hsnap, deleters, ghosts, dropped>>

(* markConversationEnvelope: SetEnvelopeIDs does not look at the status.   *)
(* A turn marks before it completes, a replay while it answers.            *)
SetEnvelopeIDs(h) ==
  LET c == hconv[h] IN
  /\ \/ hpc[h] = "running"
     \/ hpc[h] = "tail" /\ h \in replaying
  /\ IF status[c] # "absent" THEN Publish(c, status[c])
                             ELSE UNCHANGED <<store, fresh, current>>
  /\ ThenPersist(h, hpc[h])
  /\ UNCHANGED <<row, unsaved, throttle, lock, hconv, replaying, hsnap, deleters, ghosts, dropped>>

(* Complete and Fail set the status whatever it is.                        *)
Finish(h, s) ==
  LET c == hconv[h] IN
  /\ IF status[c] # "absent"
     THEN Publish(c, s) /\ owner' = [owner EXCEPT ![c] = Nobody]
     ELSE UNCHANGED <<store, fresh, current, owner>>
  /\ UNCHANGED <<row, unsaved, throttle, lock, hconv, replaying, hsnap, deleters, claimant, dropped>>

(* Mutant: the finished turn is not saved.                                 *)
CompleteUnsaved(h) == hpc[h] = "running" /\ Finish(h, "completed")
                      /\ Goto(h, "tail") /\ UNCHANGED foreign

(* completeConversation, failConversation: the upstream call has ended.    *)
Complete(h) == hpc[h] = "running" /\ Finish(h, "completed")
               /\ ThenPersist(h, "tail") /\ UNCHANGED foreign
Fail(h)     == hpc[h] = "running" /\ Finish(h, "failed")
               /\ ThenPersist(h, "tail") /\ UNCHANGED foreign

(* A panic or an early return: the handler unwinds with its turn open.     *)
Escape(h) ==
  /\ hpc[h] = "running"
  /\ Goto(h, "tail")
  /\ UNCHANGED <<store, table, throttle, lock, hconv, replaying, hsnap, current, deleters, ghosts, dropped>>

-----------------------------------------------------------------------------
(* Handlers: leaving (the deferred abandonConversationTurn).               *)

(* Mutant: the handler returns without looking at its entry.               *)
LeaveOpen(h) ==
  /\ hpc[h] = "tail"
  /\ Return(h)
  /\ UNCHANGED <<store, table, throttle, lock, hsnap, current, deleters, ghosts, dropped>>

(* The entry is read; a busy one is failed in a later step.                *)
Leave(h) ==
  /\ hpc[h] = "tail"
  /\ IF Busy(status[hconv[h]]) THEN Goto(h, "failing") /\ UNCHANGED <<hconv, replaying>>
                               ELSE Return(h)
  /\ UNCHANGED <<store, table, throttle, lock, hsnap, current, deleters, ghosts, dropped>>

(* failConversation(errConversationTurnAbandoned) on what is there by now. *)
Abandon(h) ==
  LET c == hconv[h] IN
  /\ hpc[h] = "failing"
  /\ Finish(h, "failed")
  /\ ThenPersist(h, "idle")
  /\ foreign' = IF status[c] = "absent" \/ (Busy(status[c]) /\ owner[c] = h)
                THEN foreign ELSE foreign \cup {c}

-----------------------------------------------------------------------------
(* Handlers: persistConversationSnapshot.                                  *)

Resume(h) == IF hnext[h] = "idle" THEN Return(h)
                                  ELSE Goto(h, hnext[h]) /\ UNCHANGED <<hconv, replaying>>

(* Under persistMu: the mark is cleared and the entry is read.             *)
ReadSnapshot(h) ==
  LET c == hconv[h] IN
  /\ hpc[h] = "persist"
  /\ Unlocked
  /\ dirty' = dirty \ {c}
  /\ IF status[c] = "absent"
     THEN /\ stamped' = stamped \ {c}
          /\ Resume(h)
          /\ UNCHANGED <<lock, hsnap, current>>
     ELSE /\ stamped' = IF Busy(status[c]) THEN stamped \cup {c} ELSE stamped \ {c}
          /\ lock' = h
          /\ hsnap' = [hsnap EXCEPT ![h] = status[c]]
          /\ current' = current \cup {h}
          /\ Goto(h, "write")
          /\ UNCHANGED <<hconv, replaying>>
  /\ UNCHANGED <<store, table, deleters, ghosts, dropped>>

(* SaveConversation, then persistMu is released; an error is only logged.  *)
WriteSnapshot(h) ==
  LET c == hconv[h] IN
  /\ hpc[h] = "write"
  /\ \/ /\ row' = [row EXCEPT ![c] = hsnap[h]]
        /\ fresh' = IF h \in current THEN fresh \cup {c} ELSE fresh \ {c}
        /\ unsaved' = unsaved \ {c}
     \/ /\ unsaved' = unsaved \cup {c}
        /\ UNCHANGED <<row, fresh>>
  /\ lock' = Nobody
  /\ hsnap' = [hsnap EXCEPT ![h] = "absent"]
  /\ current' = current \ {h}
  /\ Resume(h)
  /\ UNCHANGED <<store, throttle, deleters, ghosts, dropped>>

-----------------------------------------------------------------------------
(* Admin reads and edits.                                                  *)

(* loadAdminConversationForMutation and the other admin reads.             *)
AdminLoad(c) ==
  /\ Loaded(c) # "absent"
  /\ Restore(c)
  /\ UNCHANGED <<row, throttle, lock, hpc, hnext, hconv, replaying, hsnap, deleters, ghosts>>

(* persistMu and mu are held from the status check to the publication, so  *)
(* an edit is one step.  The new entry is saved first; a failed save       *)
(* changes nothing.                                                        *)
SaveEdit(c) ==
  /\ Unlocked
  /\ row' = [row EXCEPT ![c] = status[c]]
  /\ fresh' = fresh \cup {c}
  /\ unsaved' = unsaved \ {c}
  /\ current' = {h \in current : hconv[h] # c}
  /\ UNCHANGED <<store, throttle, lock, hpc, hnext, hconv, replaying, hsnap, deleters, ghosts, dropped>>

SetTitle(c)          == AtRest(status[c]) /\ SaveEdit(c)
SetMessageContent(c) == AtRest(status[c]) /\ SaveEdit(c)
DeleteMessage(c)     == status[c] \in Finished /\ SaveEdit(c)

-----------------------------------------------------------------------------
(* Deletions: admin requests and the cleanup sweeps run deleteConversation. *)

(* The entry is loaded and its status is kept to be restored on failure.   *)
LoadForDeletion(d, c) ==
  /\ dpc[d] = "idle"
  /\ AtRest(Loaded(c))
  /\ Restore(c)
  /\ dpc'   = [dpc EXCEPT ![d] = "loaded"]
  /\ dconv' = [dconv EXCEPT ![d] = c]
  /\ dprev' = [dprev EXCEPT ![d] = Loaded(c)]
  /\ UNCHANGED <<row, throttle, lock, hpc, hnext, hconv, replaying, hsnap, ghosts>>

(* The deletion is over.                                                   *)
EndDeletion(d) ==
  /\ dpc'      = [dpc EXCEPT ![d] = "idle"]
  /\ dconv'    = [dconv EXCEPT ![d] = NoConv]
  /\ dprev'    = [dprev EXCEPT ![d] = "absent"]

(* ClaimForDeletion refuses a missing and a busy entry, and takes any      *)
(* other one, also one that is being deleted.                              *)
ClaimForDeletion(d) ==
  LET c == dconv[d] IN
  /\ dpc[d] = "loaded"
  /\ IF ~AtRest(status[c])
     THEN EndDeletion(d) /\ UNCHANGED <<status, claimant, foreign>>
     ELSE /\ status' = [status EXCEPT ![c] = "deleting"]
          /\ claimant' = [claimant EXCEPT ![c] = d]
          /\ foreign' = IF status[c] = "deleting" THEN foreign \cup {c} ELSE foreign
          /\ dpc' = [dpc EXCEPT ![d] = "claimed"]
          /\ UNCHANGED <<dconv, dprev>>
  /\ UNCHANGED <<order, table, throttle, lock, handlers, owner, dropped>>

(* RestoreDeletionClaim puts the recorded status back, whatever is there.  *)
RestoreDeletionClaim(d) ==
  LET c == dconv[d] IN
  /\ status' = IF status[c] = "absent" THEN status
                                       ELSE [status EXCEPT ![c] = dprev[d]]
  /\ claimant' = [claimant EXCEPT ![c] = Nobody]
  /\ EndDeletion(d)
  /\ UNCHANGED <<order, row, fresh, unsaved, throttle, lock, handlers, owner, foreign, dropped>>

(* deleteConversationThread: the upstream call succeeds or fails.          *)
DeleteThread(d) ==
  /\ dpc[d] = "claimed"
  /\ \/ /\ dpc' = [dpc EXCEPT ![d] = "records"]
        /\ UNCHANGED <<store, table, throttle, lock, handlers, dconv, dprev, ghosts, dropped>>
     \/ RestoreDeletionClaim(d)

(* deleteConversationLocalRecords up to the row: response links and        *)
(* sessions go (an error stops here), then the throttle state.             *)
DeleteLinks(d) ==
  /\ dpc[d] = "records"
  /\ \/ /\ Unlocked
        /\ dirty' = dirty \ {dconv[d]}
        /\ stamped' = stamped \ {dconv[d]}
        /\ dpc' = [dpc EXCEPT ![d] = "row"]
        /\ UNCHANGED <<store, table, lock, handlers, dconv, dprev, ghosts, dropped>>
     \/ RestoreDeletionClaim(d)

(* DeleteConversation: the row goes.                                       *)
DeleteRow(d) ==
  /\ dpc[d] = "row"
  /\ \/ /\ row' = [row EXCEPT ![dconv[d]] = "absent"]
        /\ fresh' = fresh \ {dconv[d]}
        /\ dpc' = [dpc EXCEPT ![d] = "remove"]
        /\ UNCHANGED <<store, unsaved, throttle, lock, handlers, dconv, dprev, ghosts, dropped>>
     \/ RestoreDeletionClaim(d)

(* ConversationStore.Delete refuses a running entry.                       *)
Remove(d) ==
  LET c == dconv[d] IN
  /\ dpc[d] = "remove"
  /\ IF ~AtRest(status[c])
     THEN UNCHANGED <<store, fresh, unsaved, current, dropped>>
     ELSE /\ status' = [status EXCEPT ![c] = "absent"]
          /\ order' = Without(order, {c})
          /\ fresh' = fresh \ {c}
          /\ unsaved' = unsaved \ {c}
          /\ current' = {h \in current : hconv[h] # c}
          /\ dropped' = IF \E h \in Handlers : Writing(h, c) THEN dropped \cup {c} ELSE dropped
  /\ claimant' = [claimant EXCEPT ![c] = Nobody]
  /\ EndDeletion(d)
  /\ UNCHANGED <<row, throttle, lock, hpc, hnext, hconv, replaying, hsnap, owner, foreign>>

-----------------------------------------------------------------------------
(* The process stops and starts again.                                     *)

(* The rows flushConversationSnapshots leaves behind.                      *)
Flushed(c) == IF c \in dirty /\ status[c] # "absent" THEN status[c] ELSE row[c]

(***************************************************************************)
(* A crash, or a shutdown that flushes the throttled conversations first   *)
(* (handlers that outlive the drain are cut off).  newServerState then     *)
(* reads the newest MaxResident rows, in an order left open, and fails and *)
(* saves the busy ones; lost are those whose save fails.                   *)
(***************************************************************************)
Restart(flush, kept, o, lost) ==
  LET rows == IF flush THEN [c \in Conv |-> Flushed(c)] ELSE row
      all  == {c \in Conv : rows[c] # "absent"}
      cut  == {c \in kept : Busy(rows[c])}
  IN  /\ flush => Unlocked
      /\ kept \subseteq all /\ IsFiniteSet(kept)
      /\ \/ kept = all /\ Cardinality(all) <= MaxResident
         \/ Cardinality(kept) = MaxResident
      /\ DOMAIN o = 1..Cardinality(kept)
      /\ {o[i] : i \in DOMAIN o} = kept
      /\ lost \subseteq cut
      /\ status' = [c \in Conv |-> IF c \notin kept THEN "absent"
                                   ELSE IF c \in cut THEN "failed" ELSE rows[c]]
      /\ order' = o
      /\ row' = [c \in Conv |-> IF c \in cut \ lost THEN "failed" ELSE rows[c]]
      /\ fresh' = kept \ lost
      /\ unsaved' = lost
      /\ dirty' = {} /\ stamped' = {} /\ lock' = Nobody
      /\ hpc' = [h \in Handlers |-> "idle"] /\ hnext' = [h \in Handlers |-> "idle"]
      /\ hconv' = [h \in Handlers |-> NoConv] /\ replaying' = {}
      /\ hsnap' = [h \in Handlers |-> "absent"] /\ current' = {}
      /\ dpc' = [d \in Deleters |-> "idle"] /\ dconv' = [d \in Deleters |-> NoConv]
      /\ dprev' = [d \in Deleters |-> "absent"]
      /\ owner' = [c \in Conv |-> Nobody] /\ claimant' = [c \in Conv |-> Nobody]
      /\ foreign' = {} /\ dropped' = {}

-----------------------------------------------------------------------------
(* What a handler does on its own once its request is in.                  *)
HandlerStep(h) ==
  \/ Reload(h) \/ Continue(h) \/ ThrottleDelta(h)
  \/ Complete(h) \/ Fail(h) \/ Escape(h)
  \/ Leave(h) \/ Abandon(h) \/ ReadSnapshot(h) \/ WriteSnapshot(h)

(* What an upstream answer may bring any number of times.                  *)
Upstream(h) == AppendDelta(h) \/ SetExecutionTarget(h) \/ SetEnvelopeIDs(h)

Request(h, c) == Resolve(h, c) \/ ImportRemote(h, c) \/ Begin(h, c)

DeleterStep(d) == \/ ClaimForDeletion(d) \/ DeleteThread(d) \/ DeleteLinks(d)
                  \/ DeleteRow(d) \/ Remove(d)

Admin(c) == AdminLoad(c) \/ SetTitle(c) \/ SetMessageContent(c) \/ DeleteMessage(c)

AnyRestart == \E flush \in BOOLEAN, kept \in SUBSET Conv :
                \E o \in [1..Cardinality(kept) -> kept], lost \in SUBSET kept :
                   Restart(flush, kept, o, lost)

Serving == \/ \E h \in Handlers : HandlerStep(h) \/ Upstream(h)
           \/ \E h \in Handlers, c \in Conv : Request(h, c)
           \/ \E d \in Deleters : DeleterStep(d)
           \/ \E d \in Deleters, c \in Conv : LoadForDeletion(d, c)
           \/ \E c \in Conv : Admin(c)

Next == Serving \/ AnyRestart

Spec == Init /\ [][Next]_vars

(***************************************************************************)
(* The dispatch timeout ends every upstream call however much it streams,  *)
(* and a replay ends with its stored answer: a handler that is ready to    *)
(* leave its turn again and again does (Ending).  Go's mutexes do not      *)
(* starve a waiter: so is every other step.  Nothing is assumed of         *)
(* requests, edits, deletions and restarts.                                *)
(***************************************************************************)
Ending(h) == Complete(h) \/ Fail(h) \/ Escape(h) \/ Leave(h)

Fairness == \A h \in Handlers :
  /\ SF_vars(Ending(h))
  /\ SF_vars(Reload(h) \/ Continue(h) \/ ThrottleDelta(h) \/ Abandon(h)
             \/ ReadSnapshot(h) \/ WriteSnapshot(h))

FairSpec == Spec /\ Fairness

-----------------------------------------------------------------------------
(* Properties.                                                             *)

(* The upstream turn of h is open: the prompt runs, or deltas, targets and *)
(* envelope ids of it are being recorded.                                  *)
InTurn(h) == \/ hpc[h] \in {"running", "throttle"}
             \/ hpc[h] \in {"persist", "write"} /\ hnext[h] = "running"

(* h has started on its conversation and has not looked back at it yet     *)
(* (abandonConversationTurn), so it will still end a turn it left open.    *)
Answerable(h) == \/ InTurn(h)
                 \/ hpc[h] \in {"tail", "failing"}
                 \/ hpc[h] \in {"persist", "write"} /\ hnext[h] = "tail"

(* d holds its claim.                                                      *)
Claiming(d) == dpc[d] \in {"claimed", "records", "row", "remove"}

(***************************************************************************)
(* Two turns never run upstream on one conversation, unless an earlier     *)
(* turn or claim of it was ended by a goroutine it did not belong to.      *)
(* This is what Continue, Create and the claim guard together; it says     *)
(* that the deferred abandon and overlapping claims are the only holes.    *)
(***************************************************************************)
TurnsExclude ==
  \A g, h \in Handlers :
     InTurn(g) /\ InTurn(h) /\ hconv[g] = hconv[h] /\ g # h => hconv[g] \in foreign

(***************************************************************************)
(* While deleteConversation holds its claim, no turn runs on the thread it *)
(* is about to delete, the entry stays "deleting" and no second deletion   *)
(* works on it - with the same exception.                                  *)
(***************************************************************************)
ClaimExcludes ==
  \A d \in Deleters : Claiming(d) /\ dconv[d] \notin foreign =>
     /\ status[dconv[d]] = "deleting"
     /\ \A h \in Handlers : hconv[h] = dconv[d] => ~InTurn(h)
     /\ \A e \in Deleters \ {d} : Claiming(e) => dconv[e] # dconv[d]

(***************************************************************************)
(* A conversation is "running" only while a live handler will still end    *)
(* it: no step of any goroutine, no eviction, restore or restart leaves a  *)
(* turn that nobody is going to complete or fail.                          *)
(***************************************************************************)
RunningHasHandler ==
  \A c \in Conv : Busy(status[c]) =>
     \E h \in Handlers : hconv[h] = c /\ Answerable(h)

(***************************************************************************)
(* The conversations table keeps up with memory: the row of a resident     *)
(* conversation holds its latest content, or the content is marked dirty,  *)
(* or a handler is still going to write it, or its last write failed (an   *)
(* error that is only logged), or its row was just deleted.                *)
(***************************************************************************)
RowKeepsUp ==
  \A c \in Conv : status[c] # "absent" =>
     \/ c \in fresh \cup unsaved
     \/ c \in dirty /\ Busy(status[c])
     \/ \E h \in Handlers : Owes(h, c)
     \/ \E d \in Deleters : dconv[d] = c /\ dpc[d] = "remove"
     \/ c \in foreign \cup dropped

(***************************************************************************)
(* persistConversationSnapshot: an older snapshot never lands after a      *)
(* newer one - a write never replaces a row that is up to date by one that *)
(* is not.                                                                 *)
(***************************************************************************)
NoStaleOverwrite ==
  [][\A h \in Handlers : WriteSnapshot(h) /\ hconv[h] \in fresh \ dropped
                            => hconv[h] \in fresh']_vars

(* Every turn ends: a running conversation does not stay running.          *)
TurnsEnd == \A c \in Conv : Busy(status[c]) ~> ~Busy(status[c])

(***************************************************************************)
(* The recency list names resident conversations only, each one once: List *)
(* shows no conversation twice and trimLocked counts no ghost.             *)
(***************************************************************************)
OrderSound ==
  /\ \A i \in DOMAIN order : status[order[i]] # "absent"
  /\ \A i, j \in DOMAIN order : order[i] = order[j] => i = j

-----------------------------------------------------------------------------
(* What comments of the source promise and the code does not keep.         *)

(* Continue: "only a terminal status may start a new turn", since two      *)
(* turns on one conversation would interleave upstream operations.         *)
OneTurn ==
  \A g, h \in Handlers : InTurn(g) /\ InTurn(h) /\ hconv[g] = hconv[h] => g = h

(* deleteConversation keeps the claim until the row is gone so that        *)
(* nothing resurrects it: once deleted the row stays deleted.              *)
DeletedRowStaysGone ==
  \A d \in Deleters : dpc[d] = "remove" => row[dconv[d]] = "absent"

(* ClaimForDeletion "marks a conversation as being deleted upstream": one  *)
(* that is marked is being deleted by somebody, who deletes it or releases *)
(* the mark "so it can be used again".                                     *)
DeletingHasDeleter ==
  \A c \in Conv : status[c] = "deleting" => \E d \in Deleters : dconv[d] = c /\ Claiming(d)

-----------------------------------------------------------------------------
(* The inductive invariant behind the safety properties.                   *)

(* Program counters, what they serve, and persistMu; what a failed         *)
(* deletion puts back is the status of an entry at rest.                   *)
PcInv ==
  /\ \A h \in Handlers : /\ hpc[h] # "idle" => hconv[h] \in Conv
                         /\ hpc[h] = "write" <=> lock = h
  /\ \A h \in current : hpc[h] = "write"
  /\ \A d \in Deleters : dpc[d] # "idle" => dconv[d] \in Conv /\ AtRest(dprev[d])

(* A turn owns its running entry, a claim its deleting one, until somebody *)
(* else ends or takes it.                                                  *)
OwnerInv ==
  /\ \A h \in Handlers : InTurn(h) /\ hconv[h] \notin foreign =>
        status[hconv[h]] = "running" /\ owner[hconv[h]] = h
  /\ \A d \in Deleters : Claiming(d) /\ dconv[d] \notin foreign =>
        status[dconv[d]] = "deleting" /\ claimant[dconv[d]] = d

(* Whoever made an entry running still answers for it.                     *)
AnswerInv ==
  \A c \in Conv : Busy(status[c]) =>
     owner[c] \in Handlers /\ hconv[owner[c]] = c /\ Answerable(owner[c])

(* The entry of a snapshot in hand is resident.  A snapshot that is out of *)
(* date is followed by another write, and the row it is about to replace   *)
(* is out of date as well.                                                 *)
SnapshotInv ==
  \A h \in Handlers : hpc[h] = "write" /\ hconv[h] \notin dropped =>
     /\ status[hconv[h]] # "absent"
     /\ h \notin current =>
          /\ hconv[h] \notin fresh
          /\ \/ hconv[h] \in dirty /\ Busy(status[hconv[h]])
             \/ \E g \in Handlers : Owes(g, hconv[h])
             \/ hconv[h] \in foreign

(* The recency list is a list of conversations, resident ones, each once.  *)
OrderInv == order \in Seq(Conv) /\ OrderSound

IInv ==
  /\ TypeOK /\ PcInv /\ OwnerInv /\ AnswerInv /\ SnapshotInv
  /\ RowKeepsUp /\ OrderInv
============================================================================
