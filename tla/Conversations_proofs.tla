----------------------- MODULE Conversations_proofs -----------------------
(***************************************************************************)
(* The safety of Conversations for every set of conversations, handlers    *)
(* and deleters and every capacity of the store: IInv is inductive, and    *)
(* the properties the runs check follow from it.                           *)
(***************************************************************************)
EXTENDS OrderReference, TLAPS, FiniteSetTheorems, SequenceTheorems, WellFoundedInduction,
        NaturalsInduction

(* trimLocked never drops a protected entry.                               *)
LEMMA EvictedUnprotected ==
  ASSUME NEW o, NEW P, NEW max
  PROVE  \A c \in Evicted(o, P, max) : c \notin P
BY DEF Evicted

LEMMA TypeInit == Init => TypeOK
BY ConstantsAssumption DEF Init, TypeOK, HandlerPc, DeleterPc, Entries

(* What Insert and Restore leave of the store.                             *)
LEMMA InsertType ==
  ASSUME TypeOK, NEW c \in Conv, NEW s \in Entries, NEW o, NEW k \in BOOLEAN,
         Insert(c, s, o, k)
  PROVE  /\ status' \in [Conv -> Entries \cup {"absent"}]
         /\ fresh' \in SUBSET Conv /\ unsaved' \in SUBSET Conv
         /\ dropped' \in SUBSET Conv /\ current' \in SUBSET Handlers
BY DEF TypeOK, Insert

LEMMA RestoreType ==
  ASSUME TypeOK, NEW c \in Conv, Restore(c)
  PROVE  /\ status' \in [Conv -> Entries \cup {"absent"}]
         /\ fresh' \in SUBSET Conv /\ unsaved' \in SUBSET Conv
         /\ dropped' \in SUBSET Conv /\ current' \in SUBSET Handlers
<1>1. CASE status[c] = "absent" /\ row[c] # "absent"
  <2>1. Repaired(row[c]) \in Entries
    BY <1>1 DEF TypeOK, Repaired, Busy, Entries
  <2>2. Insert(c, Repaired(row[c]), MoveToFront(order, c), TRUE)
    BY <1>1 DEF Restore
  <2> QED BY <2>1, <2>2, InsertType
<1>2. CASE ~(status[c] = "absent" /\ row[c] # "absent")
  BY <1>2 DEF Restore, TypeOK, store
<1> QED BY <1>1, <1>2

(* A step keeps every variable in its type; PcInv tells that a handler or  *)
(* a deleter that is not idle has a conversation.                          *)
LEMMA TypeStep == TypeOK /\ PcInv /\ Next => TypeOK'
<1> SUFFICES ASSUME TypeOK, PcInv, Next PROVE TypeOK'
  OBVIOUS
<1> USE DEF HandlerPc, DeleterPc
<1>1. ASSUME NEW h \in Handlers, NEW c \in Conv, Resolve(h, c) PROVE TypeOK'
  BY <1>1, RestoreType DEF TypeOK, Resolve, Goto, throttle, deleters, ghosts
<1>2. ASSUME NEW h \in Handlers, NEW c \in Conv, ImportRemote(h, c) PROVE TypeOK'
  BY <1>2, InsertType DEF TypeOK, ImportRemote, ThenPersist, throttle, deleters, ghosts, Entries
<1>3. ASSUME NEW h \in Handlers, NEW c \in Conv, Begin(h, c) PROVE TypeOK'
  BY <1>3, InsertType DEF TypeOK, Begin, ThenPersist, throttle, deleters, Entries
<1>4. ASSUME NEW h \in Handlers, Reload(h) PROVE TypeOK'
  BY <1>4, RestoreType DEF TypeOK, PcInv, Reload, Goto, Return, store, throttle, deleters, ghosts
<1>5. ASSUME NEW h \in Handlers, Continue(h) PROVE TypeOK'
  BY <1>5 DEF TypeOK, PcInv, Continue, Return, ThenPersist, Publish, Rewrite, store, throttle, deleters, Entries
<1>6. ASSUME NEW h \in Handlers, AppendDelta(h) PROVE TypeOK'
  BY <1>6 DEF TypeOK, PcInv, AppendDelta, Goto, Publish, Rewrite, store, throttle, deleters, ghosts, Entries
<1>7. ASSUME NEW h \in Handlers, ThrottleDelta(h) PROVE TypeOK'
  BY <1>7 DEF TypeOK, PcInv, ThrottleDelta, Goto, ThenPersist, store, table, deleters, ghosts
<1>8. ASSUME NEW h \in Handlers, SetExecutionTarget(h) PROVE TypeOK'
  BY <1>8 DEF TypeOK, PcInv, SetExecutionTarget, Rewrite, ThenPersist, store, throttle, deleters, ghosts
<1>9. ASSUME NEW h \in Handlers, SetEnvelopeIDs(h) PROVE TypeOK'
  BY <1>9 DEF TypeOK, PcInv, SetEnvelopeIDs, Publish, Rewrite, ThenPersist, store, throttle, deleters, ghosts
<1>10. ASSUME NEW h \in Handlers, Complete(h) PROVE TypeOK'
  BY <1>10, ConstantsAssumption DEF TypeOK, PcInv, Complete, Finish, Publish, Rewrite, ThenPersist, store, throttle, deleters, Entries
<1>11. ASSUME NEW h \in Handlers, Fail(h) PROVE TypeOK'
  BY <1>11 DEF TypeOK, PcInv, Fail, Finish, Publish, Rewrite, ThenPersist, store, throttle, deleters, Entries
<1>12. ASSUME NEW h \in Handlers, Escape(h) PROVE TypeOK'
  BY <1>12 DEF TypeOK, Escape, Goto, store, table, throttle, deleters, ghosts
<1>13. ASSUME NEW h \in Handlers, Leave(h) PROVE TypeOK'
  BY <1>13 DEF TypeOK, Leave, Goto, Return, store, table, throttle, deleters, ghosts
<1>14. ASSUME NEW h \in Handlers, Abandon(h) PROVE TypeOK'
  BY <1>14 DEF TypeOK, PcInv, Abandon, Finish, Publish, Rewrite, ThenPersist, store, throttle, deleters, Entries
<1>15. ASSUME NEW h \in Handlers, ReadSnapshot(h) PROVE TypeOK'
  BY <1>15 DEF TypeOK, PcInv, ReadSnapshot, Resume, Return, Goto, store, table, deleters, ghosts
<1>16. ASSUME NEW h \in Handlers, WriteSnapshot(h) PROVE TypeOK'
  BY <1>16 DEF TypeOK, PcInv, WriteSnapshot, Resume, Return, Goto, store, throttle, deleters, ghosts
<1>17. ASSUME NEW c \in Conv, AdminLoad(c) PROVE TypeOK'
  BY <1>17, RestoreType DEF TypeOK, AdminLoad, throttle, deleters, ghosts
<1>18. ASSUME NEW c \in Conv, SaveEdit(c) PROVE TypeOK'
  BY <1>18 DEF TypeOK, SaveEdit, store, throttle, deleters, ghosts
<1>19. ASSUME NEW d \in Deleters, NEW c \in Conv, LoadForDeletion(d, c) PROVE TypeOK'
  BY <1>19, RestoreType DEF TypeOK, LoadForDeletion, Loaded, Repaired, Busy, throttle, ghosts, Entries
<1>20. ASSUME NEW d \in Deleters, ClaimForDeletion(d) PROVE TypeOK'
  BY <1>20 DEF TypeOK, PcInv, ClaimForDeletion, EndDeletion, table, throttle, handlers, Entries
<1>21. ASSUME NEW d \in Deleters, dpc[d] # "idle", RestoreDeletionClaim(d) PROVE TypeOK'
  BY <1>21 DEF TypeOK, PcInv, RestoreDeletionClaim, EndDeletion, throttle, handlers
<1>22. ASSUME NEW d \in Deleters, DeleteThread(d) PROVE TypeOK'
  BY <1>22, <1>21 DEF TypeOK, PcInv, DeleteThread, store, table, throttle, handlers, ghosts
<1>23. ASSUME NEW d \in Deleters, DeleteLinks(d) PROVE TypeOK'
  BY <1>23, <1>21 DEF TypeOK, PcInv, DeleteLinks, store, table, handlers, ghosts
<1>24. ASSUME NEW d \in Deleters, DeleteRow(d) PROVE TypeOK'
  BY <1>24, <1>21 DEF TypeOK, PcInv, DeleteRow, store, throttle, handlers, ghosts
<1>25. ASSUME NEW d \in Deleters, Remove(d) PROVE TypeOK'
  BY <1>25 DEF TypeOK, PcInv, Remove, EndDeletion, store, throttle
<1>26. ASSUME NEW flush \in BOOLEAN, NEW kept \in SUBSET Conv, NEW o,
              NEW lost \in SUBSET kept, Restart(flush, kept, o, lost)
       PROVE  TypeOK'
  BY <1>26 DEF TypeOK, Restart, Flushed, Entries
<1> QED
  BY <1>1, <1>2, <1>3, <1>4, <1>5, <1>6, <1>7, <1>8, <1>9, <1>10, <1>11, <1>12, <1>13, <1>14,
     <1>15, <1>16, <1>17, <1>18, <1>19, <1>20, <1>22, <1>23, <1>24, <1>25, <1>26
  DEF Next, Serving, HandlerStep, Upstream, Request, DeleterStep, Admin, AnyRestart,
      SetTitle, SetMessageContent, DeleteMessage

(* What the steps that put c into the store leave of the rest: an entry    *)
(* other than c can only leave the store, and only when it is not          *)
(* protected; a snapshot in hand of an entry that leaves counts as dropped. *)
Effect(c) ==
  /\ \A x \in Conv \ {c} : status'[x] # status[x] =>
        status'[x] = "absent" /\ ~Busy(status[x]) /\ status[x] # "deleting"
  /\ \A x \in Conv \ {c} : status'[x] # "absent" =>
        (x \in fresh' <=> x \in fresh) /\ (x \in unsaved' <=> x \in unsaved)
  /\ fresh' \subseteq fresh \cup {c}
  /\ dropped \subseteq dropped'
  /\ \A x \in Conv, h \in Handlers :
        status'[x] = "absent" /\ status[x] # "absent" /\ Writing(h, x) => x \in dropped'
  /\ current' \subseteq current
  /\ \A h \in current : hconv[h] \in Conv => h \in current' \/ status'[hconv[h]] = "absent"

LEMMA InsertEffect ==
  ASSUME TypeOK, NEW c \in Conv, NEW s \in Entries, NEW o, NEW k \in BOOLEAN,
         Insert(c, s, o, k)
  PROVE  /\ Effect(c)
         /\ status'[c] \in {s, "absent"}
         /\ Busy(s) => status'[c] = s
         /\ status'[c] # "absent" /\ k => c \in fresh'
         /\ ~k => c \notin fresh'
<1> DEFINE st   == [status EXCEPT ![c] = s]
           gone == Evicted(o, Protected(st), MaxResident)
<1>1. \A x \in gone \cap Conv : ~Busy(st[x]) /\ st[x] # "deleting"
  BY EvictedUnprotected DEF Protected
<1>2. st \in [Conv -> Entries \cup {"absent"}] /\ st[c] = s /\ \A x \in Conv \ {c} : st[x] = status[x]
  BY DEF TypeOK
<1>3. \A x \in Conv : status'[x] = IF x \in gone THEN "absent" ELSE st[x]
  BY DEF Insert
<1>4. /\ fresh'   = (IF k THEN fresh \cup {c} ELSE fresh \ {c}) \ gone
      /\ unsaved' = unsaved \ (gone \cup {c})
      /\ dropped' = dropped \cup {x \in gone \cap Conv : \E h \in Handlers : Writing(h, x)}
      /\ current' = {h \in current : hconv[h] \notin gone}
  BY DEF Insert
<1> HIDE DEF st, gone
<1>5. s # "absent"
  BY DEF Entries
<1>6. \A x \in Conv : status'[x] = "absent" /\ status[x] # "absent" => x \in gone
  BY <1>2, <1>3, <1>5
<1>7. \A x \in Conv : status'[x] # "absent" => x \notin gone
  BY <1>3
<1>8. \A x \in gone \cap Conv : status'[x] = "absent"
  BY <1>3
<1>9. \A x \in Conv \ {c} : status'[x] # status[x] =>
         status'[x] = "absent" /\ ~Busy(status[x]) /\ status[x] # "deleting"
  BY <1>1, <1>2, <1>3
<1>10. status'[c] \in {s, "absent"} /\ (Busy(s) => status'[c] = s)
  BY <1>1, <1>2, <1>3
<1> QED
  BY <1>4, <1>6, <1>7, <1>8, <1>9, <1>10 DEF Effect

LEMMA RestoreEffect ==
  ASSUME TypeOK, NEW c \in Conv, Restore(c)
  PROVE  \/ UNCHANGED <<status, fresh, unsaved, dropped, current>>
         \/ /\ status[c] = "absent"
            /\ Effect(c)
            /\ status'[c] \in Finished \cup {"absent"}
            /\ status'[c] # "absent" => c \in fresh'
<1>1. CASE status[c] = "absent" /\ row[c] # "absent"
  <2>1. Repaired(row[c]) \in Entries /\ Repaired(row[c]) \in Finished
    BY <1>1 DEF TypeOK, Repaired, Busy, Entries, Finished
  <2>2. Insert(c, Repaired(row[c]), MoveToFront(order, c), TRUE)
    BY <1>1 DEF Restore
  <2> QED BY <1>1, <2>1, <2>2, InsertEffect
<1>2. CASE ~(status[c] = "absent" /\ row[c] # "absent")
  BY <1>2 DEF Restore, store
<1> QED BY <1>1, <1>2

(* Program counters, their conversations and persistMu stay consistent.   *)
LEMMA PcStep == TypeOK /\ PcInv /\ Next => PcInv'
<1> SUFFICES ASSUME TypeOK, PcInv, Next PROVE PcInv'
  OBVIOUS
<1>1. ASSUME NEW h \in Handlers, NEW c \in Conv, Resolve(h, c) PROVE PcInv'
  BY <1>1, ConstantsAssumption, RestoreEffect DEF TypeOK, PcInv, Resolve, Goto, throttle,
    deleters, ghosts, Effect
<1>2. ASSUME NEW h \in Handlers, NEW c \in Conv, ImportRemote(h, c) PROVE PcInv'
  <2>1. Effect(c)
    BY <1>2, InsertEffect DEF ImportRemote, Entries
  <2> QED
    BY <1>2, <2>1, ConstantsAssumption DEF TypeOK, PcInv, ImportRemote, ThenPersist, throttle,
      deleters, ghosts, Effect
<1>3. ASSUME NEW h \in Handlers, NEW c \in Conv, Begin(h, c) PROVE PcInv'
  <2>1. Effect(c)
    BY <1>3, InsertEffect DEF Begin, Entries
  <2> QED
    BY <1>3, <2>1, ConstantsAssumption DEF TypeOK, PcInv, Begin, ThenPersist, throttle,
      deleters, Effect
<1>4. ASSUME NEW h \in Handlers, Reload(h) PROVE PcInv'
  BY <1>4, ConstantsAssumption, RestoreEffect DEF TypeOK, PcInv, Reload, Goto, Return,
    store, throttle, deleters, ghosts, Effect
<1>5. ASSUME NEW h \in Handlers, Continue(h) PROVE PcInv'
  BY <1>5, ConstantsAssumption DEF TypeOK, PcInv, Continue, Return, ThenPersist, Publish,
    Rewrite, store, throttle, deleters
<1>6. ASSUME NEW h \in Handlers, AppendDelta(h) PROVE PcInv'
  BY <1>6, ConstantsAssumption DEF TypeOK, PcInv, AppendDelta, Goto, Publish, Rewrite,
    store, throttle, deleters, ghosts
<1>7. ASSUME NEW h \in Handlers, ThrottleDelta(h) PROVE PcInv'
  BY <1>7, ConstantsAssumption DEF TypeOK, PcInv, ThrottleDelta, Goto, ThenPersist, store,
    table, deleters, ghosts
<1>8. ASSUME NEW h \in Handlers, SetExecutionTarget(h) PROVE PcInv'
  BY <1>8, ConstantsAssumption DEF TypeOK, PcInv, SetExecutionTarget, Rewrite, ThenPersist,
    store, throttle, deleters, ghosts
<1>9. ASSUME NEW h \in Handlers, SetEnvelopeIDs(h) PROVE PcInv'
  BY <1>9, ConstantsAssumption DEF TypeOK, PcInv, SetEnvelopeIDs, Publish, Rewrite,
    ThenPersist, store, throttle, deleters, ghosts
<1>10. ASSUME NEW h \in Handlers, Complete(h) PROVE PcInv'
  BY <1>10, ConstantsAssumption DEF TypeOK, PcInv, Complete, Finish, Publish, Rewrite,
    ThenPersist, store, throttle, deleters
<1>11. ASSUME NEW h \in Handlers, Fail(h) PROVE PcInv'
  BY <1>11, ConstantsAssumption DEF TypeOK, PcInv, Fail, Finish, Publish, Rewrite,
    ThenPersist, store, throttle, deleters
<1>12. ASSUME NEW h \in Handlers, Escape(h) PROVE PcInv'
  BY <1>12, ConstantsAssumption DEF TypeOK, PcInv, Escape, Goto, store, table, throttle,
    deleters, ghosts
<1>13. ASSUME NEW h \in Handlers, Leave(h) PROVE PcInv'
  BY <1>13, ConstantsAssumption DEF TypeOK, PcInv, Leave, Goto, Return, store, table,
    throttle, deleters, ghosts
<1>14. ASSUME NEW h \in Handlers, Abandon(h) PROVE PcInv'
  BY <1>14, ConstantsAssumption DEF TypeOK, PcInv, Abandon, Finish, Publish, Rewrite,
    ThenPersist, store, throttle, deleters
<1>15. ASSUME NEW h \in Handlers, ReadSnapshot(h) PROVE PcInv'
  <2>1. /\ \A g \in Handlers : hpc[g] # "write"
        /\ current = {}
        /\ hpc[h] = "persist" /\ hconv[h] \in Conv
        /\ UNCHANGED deleters
    BY <1>15, ConstantsAssumption DEF TypeOK, PcInv, ReadSnapshot, Unlocked
  <2>2. CASE status[hconv[h]] = "absent"
    BY <1>15, <2>1, <2>2, ConstantsAssumption
    DEF TypeOK, PcInv, ReadSnapshot, Resume, Return, Goto, deleters, AtRest, Busy
  <2>3. CASE status[hconv[h]] # "absent"
    BY <1>15, <2>1, <2>3, ConstantsAssumption
    DEF TypeOK, PcInv, ReadSnapshot, Goto, deleters, AtRest, Busy
  <2> QED BY <2>2, <2>3
<1>16. ASSUME NEW h \in Handlers, WriteSnapshot(h) PROVE PcInv'
  BY <1>16, ConstantsAssumption DEF TypeOK, PcInv, WriteSnapshot, Resume, Return, Goto,
    store, throttle, deleters, ghosts
<1>17. ASSUME NEW c \in Conv, AdminLoad(c) PROVE PcInv'
  BY <1>17, ConstantsAssumption, RestoreEffect DEF TypeOK, PcInv, AdminLoad, throttle,
    deleters, ghosts, Effect
<1>18. ASSUME NEW c \in Conv, SaveEdit(c) PROVE PcInv'
  BY <1>18, ConstantsAssumption DEF TypeOK, PcInv, SaveEdit, store, throttle, deleters,
    ghosts
<1>19. ASSUME NEW d \in Deleters, NEW c \in Conv, LoadForDeletion(d, c) PROVE PcInv'
  BY <1>19, ConstantsAssumption, RestoreEffect DEF TypeOK, PcInv, LoadForDeletion, throttle,
    ghosts, Effect, AtRest, Loaded
<1>20. ASSUME NEW d \in Deleters, ClaimForDeletion(d) PROVE PcInv'
  BY <1>20, ConstantsAssumption DEF TypeOK, PcInv, ClaimForDeletion, EndDeletion, table,
    throttle, handlers
<1>21. ASSUME NEW d \in Deleters, dpc[d] \in {"claimed", "records", "row"}, RestoreDeletionClaim(d) PROVE PcInv'
  BY <1>21, ConstantsAssumption DEF TypeOK, PcInv, RestoreDeletionClaim, EndDeletion,
    throttle, handlers
<1>22. ASSUME NEW d \in Deleters, DeleteThread(d) PROVE PcInv'
  BY <1>22, <1>21, ConstantsAssumption DEF TypeOK, PcInv, DeleteThread, store, table,
    throttle, handlers, ghosts
<1>23. ASSUME NEW d \in Deleters, DeleteLinks(d) PROVE PcInv'
  BY <1>23, <1>21, ConstantsAssumption DEF TypeOK, PcInv, DeleteLinks, store, table,
    handlers, ghosts
<1>24. ASSUME NEW d \in Deleters, DeleteRow(d) PROVE PcInv'
  BY <1>24, <1>21, ConstantsAssumption DEF TypeOK, PcInv, DeleteRow, store, throttle,
    handlers, ghosts
<1>25. ASSUME NEW d \in Deleters, Remove(d) PROVE PcInv'
  BY <1>25, ConstantsAssumption DEF TypeOK, PcInv, Remove, EndDeletion, store, throttle
<1>26. ASSUME NEW flush \in BOOLEAN, NEW kept \in SUBSET Conv, NEW o,
              NEW lost \in SUBSET kept, Restart(flush, kept, o, lost)
       PROVE  PcInv'
  BY <1>26, ConstantsAssumption DEF TypeOK, PcInv, Restart
<1> QED
  BY <1>1, <1>2, <1>3, <1>4, <1>5, <1>6, <1>7, <1>8, <1>9, <1>10, <1>11, <1>12, <1>13, <1>14,
     <1>15, <1>16, <1>17, <1>18, <1>19, <1>20, <1>22, <1>23, <1>24, <1>25, <1>26
  DEF Next, Serving, HandlerStep, Upstream, Request, DeleterStep, Admin, AnyRestart,
      SetTitle, SetMessageContent, DeleteMessage

(* Turns keep their entry and claims keep theirs unless foreign says else. *)
LEMMA OwnerStep == TypeOK /\ PcInv /\ OwnerInv /\ Next => OwnerInv'
<1> SUFFICES ASSUME TypeOK, PcInv, OwnerInv, Next PROVE OwnerInv'
  OBVIOUS
<1>1. ASSUME NEW h \in Handlers, NEW c \in Conv, Resolve(h, c) PROVE OwnerInv'
  BY <1>1, RestoreEffect DEF TypeOK, PcInv, OwnerInv, InTurn, Claiming, Resolve, Goto,
    throttle, deleters, ghosts, Effect, Busy, Finished
<1>2. ASSUME NEW h \in Handlers, NEW c \in Conv, ImportRemote(h, c) PROVE OwnerInv'
  <2>1. Effect(c)
    BY <1>2, InsertEffect DEF ImportRemote, Entries
  <2> QED
    BY <1>2, <2>1 DEF TypeOK, PcInv, OwnerInv, InTurn, Claiming, ImportRemote, Loaded,
      ThenPersist, deleters, ghosts, Effect, Busy
<1>3. ASSUME NEW h \in Handlers, NEW c \in Conv, Begin(h, c) PROVE OwnerInv'
  <2>1. Effect(c) /\ status'[c] = "running"
    BY <1>3, InsertEffect DEF Begin, Entries, Busy
  <2> QED
    BY <1>3, <2>1 DEF TypeOK, PcInv, OwnerInv, InTurn, Claiming, Begin, ThenPersist,
      deleters, Effect, Busy
<1>4. ASSUME NEW h \in Handlers, Reload(h) PROVE OwnerInv'
  BY <1>4, RestoreEffect DEF TypeOK, PcInv, OwnerInv, InTurn, Claiming, Reload, Goto,
    Return, store, throttle, deleters, ghosts, Effect, Busy
<1>5. ASSUME NEW h \in Handlers, Continue(h) PROVE OwnerInv'
  BY <1>5 DEF TypeOK, PcInv, OwnerInv, InTurn, Claiming, Continue, Return, ThenPersist,
    Publish, Rewrite, store, throttle, deleters, Finished
<1>6. ASSUME NEW h \in Handlers, AppendDelta(h) PROVE OwnerInv'
  BY <1>6 DEF TypeOK, PcInv, OwnerInv, InTurn, Claiming, AppendDelta, Goto, Publish,
    Rewrite, store, throttle, deleters, ghosts, Busy
<1>7. ASSUME NEW h \in Handlers, ThrottleDelta(h) PROVE OwnerInv'
  BY <1>7 DEF TypeOK, PcInv, OwnerInv, InTurn, Claiming, ThrottleDelta, Goto, ThenPersist,
    store, table, deleters, ghosts
<1>8. ASSUME NEW h \in Handlers, SetExecutionTarget(h) PROVE OwnerInv'
  BY <1>8 DEF TypeOK, PcInv, OwnerInv, InTurn, Claiming, SetExecutionTarget, Rewrite,
    ThenPersist, store, throttle, deleters, ghosts, Busy
<1>9. ASSUME NEW h \in Handlers, SetEnvelopeIDs(h) PROVE OwnerInv'
  BY <1>9 DEF TypeOK, PcInv, OwnerInv, InTurn, Claiming, SetEnvelopeIDs, Publish, Rewrite,
    ThenPersist, store, throttle, deleters, ghosts, Busy
<1>10. ASSUME NEW h \in Handlers, Complete(h) PROVE OwnerInv'
  BY <1>10 DEF TypeOK, PcInv, OwnerInv, InTurn, Claiming, Complete, Finish, Publish,
    Rewrite, ThenPersist, store, throttle, deleters
<1>11. ASSUME NEW h \in Handlers, Fail(h) PROVE OwnerInv'
  BY <1>11 DEF TypeOK, PcInv, OwnerInv, InTurn, Claiming, Fail, Finish, Publish, Rewrite,
    ThenPersist, store, throttle, deleters
<1>12. ASSUME NEW h \in Handlers, Escape(h) PROVE OwnerInv'
  BY <1>12 DEF TypeOK, PcInv, OwnerInv, InTurn, Claiming, Escape, Goto, store, table,
    throttle, deleters, ghosts
<1>13. ASSUME NEW h \in Handlers, Leave(h) PROVE OwnerInv'
  BY <1>13 DEF TypeOK, PcInv, OwnerInv, InTurn, Claiming, Leave, Goto, Return, store, table,
    throttle, deleters, ghosts
<1>14. ASSUME NEW h \in Handlers, Abandon(h) PROVE OwnerInv'
  BY <1>14 DEF TypeOK, PcInv, OwnerInv, InTurn, Claiming, Abandon, Finish, Publish, Rewrite,
    ThenPersist, store, throttle, deleters, Busy
<1>15. ASSUME NEW h \in Handlers, ReadSnapshot(h) PROVE OwnerInv'
  BY <1>15 DEF TypeOK, PcInv, OwnerInv, InTurn, Claiming, ReadSnapshot, Resume, Return,
    Goto, store, table, deleters, ghosts
<1>16. ASSUME NEW h \in Handlers, WriteSnapshot(h) PROVE OwnerInv'
  BY <1>16 DEF TypeOK, PcInv, OwnerInv, InTurn, Claiming, WriteSnapshot, Resume, Return,
    Goto, store, throttle, deleters, ghosts
<1>17. ASSUME NEW c \in Conv, AdminLoad(c) PROVE OwnerInv'
  BY <1>17, RestoreEffect DEF TypeOK, PcInv, OwnerInv, InTurn, Claiming, AdminLoad,
    throttle, deleters, ghosts, Effect, Busy
<1>18. ASSUME NEW c \in Conv, SaveEdit(c) PROVE OwnerInv'
  BY <1>18 DEF TypeOK, PcInv, OwnerInv, InTurn, Claiming, SaveEdit, store, throttle,
    deleters, ghosts, Unlocked
<1>19. ASSUME NEW d \in Deleters, NEW c \in Conv, LoadForDeletion(d, c) PROVE OwnerInv'
  BY <1>19, RestoreEffect DEF TypeOK, PcInv, OwnerInv, InTurn, Claiming, LoadForDeletion,
    throttle, ghosts, Effect, Busy
<1>20. ASSUME NEW d \in Deleters, ClaimForDeletion(d) PROVE OwnerInv'
  BY <1>20 DEF TypeOK, PcInv, OwnerInv, InTurn, Claiming, ClaimForDeletion, EndDeletion,
    table, throttle, handlers, AtRest, Busy
<1>21. ASSUME NEW d \in Deleters, dpc[d] \in {"claimed", "records", "row"}, RestoreDeletionClaim(d) PROVE OwnerInv'
  BY <1>21 DEF TypeOK, PcInv, OwnerInv, InTurn, Claiming, RestoreDeletionClaim, EndDeletion,
    throttle, handlers, AtRest, Busy
<1>22. ASSUME NEW d \in Deleters, DeleteThread(d) PROVE OwnerInv'
  BY <1>22, <1>21 DEF TypeOK, PcInv, OwnerInv, InTurn, Claiming, DeleteThread, store, table,
    throttle, handlers, ghosts
<1>23. ASSUME NEW d \in Deleters, DeleteLinks(d) PROVE OwnerInv'
  BY <1>23, <1>21 DEF TypeOK, PcInv, OwnerInv, InTurn, Claiming, DeleteLinks, store, table,
    handlers, ghosts
<1>24. ASSUME NEW d \in Deleters, DeleteRow(d) PROVE OwnerInv'
  BY <1>24, <1>21 DEF TypeOK, PcInv, OwnerInv, InTurn, Claiming, DeleteRow, store, throttle,
    handlers, ghosts
<1>25. ASSUME NEW d \in Deleters, Remove(d) PROVE OwnerInv'
  BY <1>25 DEF TypeOK, PcInv, OwnerInv, InTurn, Claiming, Remove, EndDeletion, store,
    throttle, AtRest, Busy
<1>26. ASSUME NEW flush \in BOOLEAN, NEW kept \in SUBSET Conv, NEW o,
              NEW lost \in SUBSET kept, Restart(flush, kept, o, lost)
       PROVE  OwnerInv'
  BY <1>26 DEF TypeOK, PcInv, OwnerInv, InTurn, Claiming, Restart
<1> QED
  BY <1>1, <1>2, <1>3, <1>4, <1>5, <1>6, <1>7, <1>8, <1>9, <1>10, <1>11, <1>12, <1>13, <1>14,
     <1>15, <1>16, <1>17, <1>18, <1>19, <1>20, <1>22, <1>23, <1>24, <1>25, <1>26
  DEF Next, Serving, HandlerStep, Upstream, Request, DeleterStep, Admin, AnyRestart,
      SetTitle, SetMessageContent, DeleteMessage

(* The handler that made an entry running goes on answering for it.         *)
LEMMA AnswerStep == TypeOK /\ PcInv /\ AnswerInv /\ Next => AnswerInv'
<1> SUFFICES ASSUME TypeOK, PcInv, AnswerInv, Next PROVE AnswerInv'
  OBVIOUS
<1>1. ASSUME NEW h \in Handlers, NEW c \in Conv, Resolve(h, c) PROVE AnswerInv'
  BY <1>1, RestoreEffect DEF TypeOK, PcInv, AnswerInv, InTurn, Answerable, Resolve, Goto,
    throttle, deleters, ghosts, Effect, Busy, Finished
<1>2. ASSUME NEW h \in Handlers, NEW c \in Conv, ImportRemote(h, c) PROVE AnswerInv'
  <2>1. Effect(c) /\ ~Busy(status'[c])
    BY <1>2, InsertEffect DEF ImportRemote, Entries, Busy
  <2> QED
    BY <1>2, <2>1 DEF TypeOK, PcInv, AnswerInv, InTurn, Answerable, ImportRemote,
      ThenPersist, ghosts, Effect, Busy
<1>3. ASSUME NEW h \in Handlers, NEW c \in Conv, Begin(h, c) PROVE AnswerInv'
  <2>1. Effect(c) /\ status'[c] = "running"
    BY <1>3, InsertEffect DEF Begin, Entries, Busy
  <2> QED
    BY <1>3, <2>1 DEF TypeOK, PcInv, AnswerInv, InTurn, Answerable, Begin, ThenPersist,
      deleters, Effect, Busy
<1>4. ASSUME NEW h \in Handlers, Reload(h) PROVE AnswerInv'
  BY <1>4, RestoreEffect DEF TypeOK, PcInv, AnswerInv, InTurn, Answerable, Reload, Goto,
    Return, store, throttle, deleters, ghosts, Effect, Busy, Finished
<1>5. ASSUME NEW h \in Handlers, Continue(h) PROVE AnswerInv'
  BY <1>5 DEF TypeOK, PcInv, AnswerInv, InTurn, Answerable, Continue, Return, ThenPersist,
    Publish, Rewrite, store, throttle, deleters, Finished, Busy
<1>6. ASSUME NEW h \in Handlers, AppendDelta(h) PROVE AnswerInv'
  BY <1>6 DEF TypeOK, PcInv, AnswerInv, InTurn, Answerable, AppendDelta, Goto, Publish,
    Rewrite, store, throttle, deleters, ghosts, Busy
<1>7. ASSUME NEW h \in Handlers, ThrottleDelta(h) PROVE AnswerInv'
  BY <1>7 DEF TypeOK, PcInv, AnswerInv, InTurn, Answerable, ThrottleDelta, Goto,
    ThenPersist, store, table, deleters, ghosts
<1>8. ASSUME NEW h \in Handlers, SetExecutionTarget(h) PROVE AnswerInv'
  BY <1>8 DEF TypeOK, PcInv, AnswerInv, InTurn, Answerable, SetExecutionTarget, Rewrite,
    ThenPersist, store, throttle, deleters, ghosts, Busy
<1>9. ASSUME NEW h \in Handlers, SetEnvelopeIDs(h) PROVE AnswerInv'
  BY <1>9 DEF TypeOK, PcInv, AnswerInv, InTurn, Answerable, SetEnvelopeIDs, Publish,
    Rewrite, ThenPersist, store, throttle, deleters, ghosts, Busy
<1>10. ASSUME NEW h \in Handlers, Complete(h) PROVE AnswerInv'
  BY <1>10 DEF TypeOK, PcInv, AnswerInv, InTurn, Answerable, Complete, Finish, Publish,
    Rewrite, ThenPersist, store, throttle, deleters, Busy
<1>11. ASSUME NEW h \in Handlers, Fail(h) PROVE AnswerInv'
  BY <1>11 DEF TypeOK, PcInv, AnswerInv, InTurn, Answerable, Fail, Finish, Publish, Rewrite,
    ThenPersist, store, throttle, deleters, Busy
<1>12. ASSUME NEW h \in Handlers, Escape(h) PROVE AnswerInv'
  BY <1>12 DEF TypeOK, PcInv, AnswerInv, InTurn, Answerable, Escape, Goto, store, table,
    throttle, deleters, ghosts
<1>13. ASSUME NEW h \in Handlers, Leave(h) PROVE AnswerInv'
  BY <1>13 DEF TypeOK, PcInv, AnswerInv, InTurn, Answerable, Leave, Goto, Return, store,
    table, throttle, deleters, ghosts
<1>14. ASSUME NEW h \in Handlers, Abandon(h) PROVE AnswerInv'
  BY <1>14 DEF TypeOK, PcInv, AnswerInv, InTurn, Answerable, Abandon, Finish, Publish,
    Rewrite, ThenPersist, store, throttle, deleters, Busy
<1>15. ASSUME NEW h \in Handlers, ReadSnapshot(h) PROVE AnswerInv'
  BY <1>15 DEF TypeOK, PcInv, AnswerInv, InTurn, Answerable, ReadSnapshot, Resume, Return,
    Goto, store, table, deleters, ghosts
<1>16. ASSUME NEW h \in Handlers, WriteSnapshot(h) PROVE AnswerInv'
  BY <1>16 DEF TypeOK, PcInv, AnswerInv, InTurn, Answerable, WriteSnapshot, Resume, Return,
    Goto, store, throttle, deleters, ghosts
<1>17. ASSUME NEW c \in Conv, AdminLoad(c) PROVE AnswerInv'
  BY <1>17, RestoreEffect DEF TypeOK, PcInv, AnswerInv, InTurn, Answerable, AdminLoad,
    throttle, deleters, ghosts, Effect, Busy, Finished
<1>18. ASSUME NEW c \in Conv, SaveEdit(c) PROVE AnswerInv'
  BY <1>18 DEF TypeOK, PcInv, AnswerInv, InTurn, Answerable, SaveEdit, store, throttle,
    deleters, ghosts, Unlocked
<1>19. ASSUME NEW d \in Deleters, NEW c \in Conv, LoadForDeletion(d, c) PROVE AnswerInv'
  BY <1>19, RestoreEffect DEF TypeOK, PcInv, AnswerInv, InTurn, Answerable, LoadForDeletion,
    throttle, ghosts, Effect, Busy, Finished
<1>20. ASSUME NEW d \in Deleters, ClaimForDeletion(d) PROVE AnswerInv'
  BY <1>20 DEF TypeOK, PcInv, AnswerInv, InTurn, Answerable, ClaimForDeletion, EndDeletion,
    table, throttle, handlers, AtRest, Busy
<1>21. ASSUME NEW d \in Deleters, dpc[d] \in {"claimed", "records", "row"}, RestoreDeletionClaim(d) PROVE AnswerInv'
  <2>1. UNCHANGED <<hpc, hnext, hconv, owner>>
    BY <1>21 DEF RestoreDeletionClaim, handlers
  <2>2. \A x \in Conv : Busy(status'[x]) => Busy(status[x])
    BY <1>21 DEF TypeOK, PcInv, RestoreDeletionClaim, AtRest, Claiming
  <2> QED
    BY <2>1, <2>2 DEF AnswerInv, InTurn, Answerable
<1>22. ASSUME NEW d \in Deleters, DeleteThread(d) PROVE AnswerInv'
  BY <1>22, <1>21 DEF TypeOK, PcInv, AnswerInv, InTurn, Answerable, DeleteThread, store,
    table, throttle, handlers, ghosts
<1>23. ASSUME NEW d \in Deleters, DeleteLinks(d) PROVE AnswerInv'
  BY <1>23, <1>21 DEF TypeOK, PcInv, AnswerInv, InTurn, Answerable, DeleteLinks, store,
    table, handlers, ghosts
<1>24. ASSUME NEW d \in Deleters, DeleteRow(d) PROVE AnswerInv'
  BY <1>24, <1>21 DEF TypeOK, PcInv, AnswerInv, InTurn, Answerable, DeleteRow, store,
    throttle, handlers, ghosts
<1>25. ASSUME NEW d \in Deleters, Remove(d) PROVE AnswerInv'
  BY <1>25 DEF TypeOK, PcInv, AnswerInv, InTurn, Answerable, Remove, EndDeletion, store,
    throttle, AtRest, Busy
<1>26. ASSUME NEW flush \in BOOLEAN, NEW kept \in SUBSET Conv, NEW o,
              NEW lost \in SUBSET kept, Restart(flush, kept, o, lost)
       PROVE  AnswerInv'
  BY <1>26 DEF TypeOK, PcInv, AnswerInv, InTurn, Answerable, Restart, Busy, Flushed
<1> QED
  BY <1>1, <1>2, <1>3, <1>4, <1>5, <1>6, <1>7, <1>8, <1>9, <1>10, <1>11, <1>12, <1>13, <1>14,
     <1>15, <1>16, <1>17, <1>18, <1>19, <1>20, <1>22, <1>23, <1>24, <1>25, <1>26
  DEF Next, Serving, HandlerStep, Upstream, Request, DeleterStep, Admin, AnyRestart,
      SetTitle, SetMessageContent, DeleteMessage

(* A snapshot that grows old while it is written is followed by another.    *)
LEMMA SnapshotStep == TypeOK /\ PcInv /\ OwnerInv /\ SnapshotInv /\ Next => SnapshotInv'
<1> SUFFICES ASSUME TypeOK, PcInv, OwnerInv, SnapshotInv, Next PROVE SnapshotInv'
  OBVIOUS
<1>1. ASSUME NEW h \in Handlers, NEW c \in Conv, Resolve(h, c) PROVE SnapshotInv'
  BY <1>1, RestoreEffect DEF TypeOK, PcInv, SnapshotInv, Owes, Writing, Resolve, Goto,
    throttle, deleters, ghosts, Effect, Busy, Finished
<1>2. ASSUME NEW h \in Handlers, NEW c \in Conv, ImportRemote(h, c) PROVE SnapshotInv'
  <2>1. Effect(c) /\ c \notin fresh'
    BY <1>2, InsertEffect DEF ImportRemote, Entries, Busy
  <2> QED
    BY <1>2, <2>1 DEF TypeOK, PcInv, SnapshotInv, Owes, Writing, ImportRemote, Loaded,
      ThenPersist, ghosts, Effect, Busy, throttle
<1>3. ASSUME NEW h \in Handlers, NEW c \in Conv, Begin(h, c) PROVE SnapshotInv'
  <2>1. Effect(c) /\ c \notin fresh'
    BY <1>3, InsertEffect DEF Begin, Entries, Busy
  <2> QED
    BY <1>3, <2>1 DEF TypeOK, PcInv, SnapshotInv, Owes, Writing, Begin, ThenPersist,
      deleters, Effect, Busy, throttle
<1>4. ASSUME NEW h \in Handlers, Reload(h) PROVE SnapshotInv'
  BY <1>4, RestoreEffect DEF TypeOK, PcInv, SnapshotInv, Owes, Writing, Reload, Goto,
    Return, store, throttle, deleters, ghosts, Effect, Busy, Finished
<1>5. ASSUME NEW h \in Handlers, Continue(h) PROVE SnapshotInv'
  BY <1>5 DEF TypeOK, PcInv, SnapshotInv, Owes, Writing, Continue, Return, ThenPersist,
    Publish, Rewrite, store, throttle, deleters, Finished, Busy
<1>6. ASSUME NEW h \in Handlers, AppendDelta(h) PROVE SnapshotInv'
  BY <1>6 DEF TypeOK, PcInv, SnapshotInv, Owes, Writing, AppendDelta, Goto, Publish,
    Rewrite, store, throttle, deleters, ghosts, Busy
<1>7. ASSUME NEW h \in Handlers, ThrottleDelta(h) PROVE SnapshotInv'
  BY <1>7, ConstantsAssumption DEF TypeOK, PcInv, SnapshotInv, Owes, Writing, ThrottleDelta,
    Goto, ThenPersist, store, table, deleters, ghosts, Unlocked
<1>8. ASSUME NEW h \in Handlers, SetExecutionTarget(h) PROVE SnapshotInv'
  BY <1>8 DEF TypeOK, PcInv, SnapshotInv, Owes, Writing, SetExecutionTarget, Rewrite,
    ThenPersist, store, throttle, deleters, ghosts, Busy
<1>9. ASSUME NEW h \in Handlers, SetEnvelopeIDs(h) PROVE SnapshotInv'
  BY <1>9 DEF TypeOK, PcInv, SnapshotInv, Owes, Writing, SetEnvelopeIDs, Publish, Rewrite,
    ThenPersist, store, throttle, deleters, ghosts, Busy
<1>10. ASSUME NEW h \in Handlers, Complete(h) PROVE SnapshotInv'
  BY <1>10 DEF TypeOK, PcInv, SnapshotInv, Owes, Writing, Complete, Finish, Publish,
    Rewrite, ThenPersist, store, throttle, deleters, Busy
<1>11. ASSUME NEW h \in Handlers, Fail(h) PROVE SnapshotInv'
  BY <1>11 DEF TypeOK, PcInv, SnapshotInv, Owes, Writing, Fail, Finish, Publish, Rewrite,
    ThenPersist, store, throttle, deleters, Busy
<1>12. ASSUME NEW h \in Handlers, Escape(h) PROVE SnapshotInv'
  BY <1>12 DEF TypeOK, PcInv, SnapshotInv, Owes, Writing, Escape, Goto, store, table,
    throttle, deleters, ghosts
<1>13. ASSUME NEW h \in Handlers, Leave(h) PROVE SnapshotInv'
  BY <1>13 DEF TypeOK, PcInv, SnapshotInv, Owes, Writing, Leave, Goto, Return, store, table,
    throttle, deleters, ghosts
<1>14. ASSUME NEW h \in Handlers, Abandon(h) PROVE SnapshotInv'
  BY <1>14 DEF TypeOK, PcInv, SnapshotInv, Owes, Writing, Abandon, Finish, Publish, Rewrite,
    ThenPersist, store, throttle, deleters, Busy
<1>15. ASSUME NEW h \in Handlers, ReadSnapshot(h) PROVE SnapshotInv'
  BY <1>15, ConstantsAssumption DEF TypeOK, PcInv, SnapshotInv, Owes, Writing, ReadSnapshot,
    Resume, Return, Goto, store, table, deleters, ghosts, Unlocked
<1>16. ASSUME NEW h \in Handlers, WriteSnapshot(h) PROVE SnapshotInv'
  BY <1>16, ConstantsAssumption DEF TypeOK, PcInv, SnapshotInv, Owes, Writing,
    WriteSnapshot, Resume, Return, Goto, store, throttle, deleters, ghosts, Unlocked
<1>17. ASSUME NEW c \in Conv, AdminLoad(c) PROVE SnapshotInv'
  BY <1>17, RestoreEffect DEF TypeOK, PcInv, SnapshotInv, Owes, Writing, AdminLoad,
    throttle, deleters, ghosts, Effect, Busy, Finished
<1>18. ASSUME NEW c \in Conv, SaveEdit(c) PROVE SnapshotInv'
  BY <1>18, ConstantsAssumption DEF TypeOK, PcInv, SnapshotInv, Owes, Writing, SaveEdit,
    store, throttle, deleters, ghosts, Unlocked
<1>19. ASSUME NEW d \in Deleters, NEW c \in Conv, LoadForDeletion(d, c) PROVE SnapshotInv'
  BY <1>19, RestoreEffect DEF TypeOK, PcInv, SnapshotInv, Owes, Writing, LoadForDeletion,
    throttle, ghosts, Effect, Busy, Finished
<1>20. ASSUME NEW d \in Deleters, ClaimForDeletion(d) PROVE SnapshotInv'
  BY <1>20 DEF TypeOK, PcInv, SnapshotInv, Owes, Writing, ClaimForDeletion, EndDeletion,
    table, throttle, handlers, AtRest, Busy
<1>21. ASSUME NEW d \in Deleters, dpc[d] \in {"claimed", "records", "row"}, RestoreDeletionClaim(d) PROVE SnapshotInv'
  BY <1>21 DEF TypeOK, PcInv, SnapshotInv, Owes, Writing, RestoreDeletionClaim, EndDeletion,
    throttle, handlers, AtRest, Busy, OwnerInv, Claiming, Entries
<1>22. ASSUME NEW d \in Deleters, DeleteThread(d) PROVE SnapshotInv'
  BY <1>22, <1>21 DEF TypeOK, PcInv, SnapshotInv, Owes, Writing, DeleteThread, store, table,
    throttle, handlers, ghosts
<1>23. ASSUME NEW d \in Deleters, DeleteLinks(d) PROVE SnapshotInv'
  BY <1>23, <1>21, ConstantsAssumption DEF TypeOK, PcInv, SnapshotInv, Owes, Writing,
    DeleteLinks, store, table, handlers, ghosts, Unlocked
<1>24. ASSUME NEW d \in Deleters, DeleteRow(d) PROVE SnapshotInv'
  BY <1>24, <1>21 DEF TypeOK, PcInv, SnapshotInv, Owes, Writing, DeleteRow, store, throttle,
    handlers, ghosts
<1>25. ASSUME NEW d \in Deleters, Remove(d) PROVE SnapshotInv'
  BY <1>25 DEF TypeOK, PcInv, SnapshotInv, Owes, Writing, Remove, EndDeletion, store,
    throttle, AtRest, Busy
<1>26. ASSUME NEW flush \in BOOLEAN, NEW kept \in SUBSET Conv, NEW o,
              NEW lost \in SUBSET kept, Restart(flush, kept, o, lost)
       PROVE  SnapshotInv'
  BY <1>26 DEF TypeOK, PcInv, SnapshotInv, Owes, Writing, Restart
<1> QED
  BY <1>1, <1>2, <1>3, <1>4, <1>5, <1>6, <1>7, <1>8, <1>9, <1>10, <1>11, <1>12, <1>13, <1>14,
     <1>15, <1>16, <1>17, <1>18, <1>19, <1>20, <1>22, <1>23, <1>24, <1>25, <1>26
  DEF Next, Serving, HandlerStep, Upstream, Request, DeleterStep, Admin, AnyRestart,
      SetTitle, SetMessageContent, DeleteMessage

(* The row keeps up with the entry, or a write of it is still to come.      *)
LEMMA RowStep == TypeOK /\ PcInv /\ OwnerInv /\ SnapshotInv /\ RowKeepsUp /\ Next => RowKeepsUp'
<1> SUFFICES ASSUME TypeOK, PcInv, OwnerInv, SnapshotInv, RowKeepsUp, Next PROVE RowKeepsUp'
  OBVIOUS
<1>1. ASSUME NEW h \in Handlers, NEW c \in Conv, Resolve(h, c) PROVE RowKeepsUp'
  BY <1>1, RestoreEffect DEF TypeOK, PcInv, RowKeepsUp, Owes, Writing, Resolve, Goto,
    throttle, deleters, ghosts, Effect, Busy, Finished
<1>2. ASSUME NEW h \in Handlers, NEW c \in Conv, ImportRemote(h, c) PROVE RowKeepsUp'
  <2>1. Effect(c)
    BY <1>2, InsertEffect DEF ImportRemote, Entries, Busy
  <2> QED
    BY <1>2, <2>1 DEF TypeOK, PcInv, RowKeepsUp, Owes, Writing, ImportRemote, Loaded,
      ThenPersist, ghosts, Effect, Busy, throttle, deleters
<1>3. ASSUME NEW h \in Handlers, NEW c \in Conv, Begin(h, c) PROVE RowKeepsUp'
  <2>1. Effect(c)
    BY <1>3, InsertEffect DEF Begin, Entries, Busy
  <2> QED
    BY <1>3, <2>1 DEF TypeOK, PcInv, RowKeepsUp, Owes, Writing, Begin, ThenPersist,
      deleters, Effect, Busy, throttle
<1>4. ASSUME NEW h \in Handlers, Reload(h) PROVE RowKeepsUp'
  BY <1>4, RestoreEffect DEF TypeOK, PcInv, RowKeepsUp, Owes, Writing, Reload, Goto, Return,
    store, throttle, deleters, ghosts, Effect, Busy, Finished
<1>5. ASSUME NEW h \in Handlers, Continue(h) PROVE RowKeepsUp'
  BY <1>5 DEF TypeOK, PcInv, RowKeepsUp, Owes, Writing, Continue, Return, ThenPersist,
    Publish, Rewrite, store, throttle, deleters, Finished, Busy
<1>6. ASSUME NEW h \in Handlers, AppendDelta(h) PROVE RowKeepsUp'
  BY <1>6 DEF TypeOK, PcInv, RowKeepsUp, Owes, Writing, AppendDelta, Goto, Publish, Rewrite,
    store, throttle, deleters, ghosts, Busy
<1>7. ASSUME NEW h \in Handlers, ThrottleDelta(h) PROVE RowKeepsUp'
  BY <1>7, ConstantsAssumption DEF TypeOK, PcInv, RowKeepsUp, Owes, Writing, ThrottleDelta,
    Goto, ThenPersist, store, table, deleters, ghosts, Unlocked, OwnerInv, InTurn, Busy
<1>8. ASSUME NEW h \in Handlers, SetExecutionTarget(h) PROVE RowKeepsUp'
  BY <1>8 DEF TypeOK, PcInv, RowKeepsUp, Owes, Writing, SetExecutionTarget, Rewrite,
    ThenPersist, store, throttle, deleters, ghosts, Busy
<1>9. ASSUME NEW h \in Handlers, SetEnvelopeIDs(h) PROVE RowKeepsUp'
  BY <1>9 DEF TypeOK, PcInv, RowKeepsUp, Owes, Writing, SetEnvelopeIDs, Publish, Rewrite,
    ThenPersist, store, throttle, deleters, ghosts, Busy
<1>10. ASSUME NEW h \in Handlers, Complete(h) PROVE RowKeepsUp'
  BY <1>10 DEF TypeOK, PcInv, RowKeepsUp, Owes, Writing, Complete, Finish, Publish, Rewrite,
    ThenPersist, store, throttle, deleters, Busy
<1>11. ASSUME NEW h \in Handlers, Fail(h) PROVE RowKeepsUp'
  BY <1>11 DEF TypeOK, PcInv, RowKeepsUp, Owes, Writing, Fail, Finish, Publish, Rewrite,
    ThenPersist, store, throttle, deleters, Busy
<1>12. ASSUME NEW h \in Handlers, Escape(h) PROVE RowKeepsUp'
  BY <1>12 DEF TypeOK, PcInv, RowKeepsUp, Owes, Writing, Escape, Goto, store, table,
    throttle, deleters, ghosts
<1>13. ASSUME NEW h \in Handlers, Leave(h) PROVE RowKeepsUp'
  BY <1>13 DEF TypeOK, PcInv, RowKeepsUp, Owes, Writing, Leave, Goto, Return, store, table,
    throttle, deleters, ghosts
<1>14. ASSUME NEW h \in Handlers, Abandon(h) PROVE RowKeepsUp'
  BY <1>14 DEF TypeOK, PcInv, RowKeepsUp, Owes, Writing, Abandon, Finish, Publish, Rewrite,
    ThenPersist, store, throttle, deleters, Busy
<1>15. ASSUME NEW h \in Handlers, ReadSnapshot(h) PROVE RowKeepsUp'
  BY <1>15, ConstantsAssumption DEF TypeOK, PcInv, RowKeepsUp, Owes, Writing, ReadSnapshot,
    Resume, Return, Goto, store, table, deleters, ghosts, Unlocked
<1>16. ASSUME NEW h \in Handlers, WriteSnapshot(h) PROVE RowKeepsUp'
  BY <1>16, ConstantsAssumption DEF TypeOK, PcInv, RowKeepsUp, Owes, Writing, WriteSnapshot,
    Resume, Return, Goto, store, throttle, deleters, ghosts, Unlocked, SnapshotInv
<1>17. ASSUME NEW c \in Conv, AdminLoad(c) PROVE RowKeepsUp'
  BY <1>17, RestoreEffect DEF TypeOK, PcInv, RowKeepsUp, Owes, Writing, AdminLoad, throttle,
    deleters, ghosts, Effect, Busy, Finished
<1>18. ASSUME NEW c \in Conv, SaveEdit(c) PROVE RowKeepsUp'
  BY <1>18, ConstantsAssumption DEF TypeOK, PcInv, RowKeepsUp, Owes, Writing, SaveEdit,
    store, throttle, deleters, ghosts, Unlocked
<1>19. ASSUME NEW d \in Deleters, NEW c \in Conv, LoadForDeletion(d, c) PROVE RowKeepsUp'
  BY <1>19, RestoreEffect DEF TypeOK, PcInv, RowKeepsUp, Owes, Writing, LoadForDeletion,
    throttle, ghosts, Effect, Busy, Finished
<1>20. ASSUME NEW d \in Deleters, ClaimForDeletion(d) PROVE RowKeepsUp'
  BY <1>20 DEF TypeOK, PcInv, RowKeepsUp, Owes, Writing, ClaimForDeletion, EndDeletion,
    table, throttle, handlers, AtRest, Busy
<1>21. ASSUME NEW d \in Deleters, dpc[d] \in {"claimed", "records", "row"}, RestoreDeletionClaim(d) PROVE RowKeepsUp'
  <2>1. UNCHANGED <<handlers, fresh, unsaved, dirty, foreign, dropped>>
    BY <1>21 DEF RestoreDeletionClaim, handlers, throttle
  <2>2. \A x \in Conv : Busy(status[x]) => Busy(status'[x]) \/ x \in foreign
    BY <1>21 DEF TypeOK, PcInv, RestoreDeletionClaim, OwnerInv, Claiming, Busy
  <2>3. \A x \in Conv : status'[x] # "absent" => status[x] # "absent"
    BY <1>21 DEF TypeOK, PcInv, RestoreDeletionClaim, Claiming
  <2>4. \A e \in Deleters : dpc[e] = "remove" => dconv'[e] = dconv[e] /\ dpc'[e] = "remove"
    BY <1>21 DEF TypeOK, RestoreDeletionClaim, EndDeletion
  <2> QED
    BY <2>1, <2>2, <2>3, <2>4 DEF RowKeepsUp, Owes, Writing, handlers
<1>22. ASSUME NEW d \in Deleters, DeleteThread(d) PROVE RowKeepsUp'
  BY <1>22, <1>21 DEF TypeOK, PcInv, RowKeepsUp, Owes, Writing, DeleteThread, store, table,
    throttle, handlers, ghosts
<1>23. ASSUME NEW d \in Deleters, DeleteLinks(d) PROVE RowKeepsUp'
  BY <1>23, <1>21, ConstantsAssumption DEF TypeOK, PcInv, RowKeepsUp, Owes, Writing,
    DeleteLinks, store, table, handlers, ghosts, Unlocked, OwnerInv, Claiming, Busy
<1>24. ASSUME NEW d \in Deleters, DeleteRow(d) PROVE RowKeepsUp'
  BY <1>24, <1>21 DEF TypeOK, PcInv, RowKeepsUp, Owes, Writing, DeleteRow, store, throttle,
    handlers, ghosts
<1>25. ASSUME NEW d \in Deleters, Remove(d) PROVE RowKeepsUp'
  BY <1>25 DEF TypeOK, PcInv, RowKeepsUp, Owes, Writing, Remove, EndDeletion, store,
    throttle, AtRest, Busy, OwnerInv, Claiming
<1>26. ASSUME NEW flush \in BOOLEAN, NEW kept \in SUBSET Conv, NEW o,
              NEW lost \in SUBSET kept, Restart(flush, kept, o, lost)
       PROVE  RowKeepsUp'
  BY <1>26 DEF TypeOK, PcInv, RowKeepsUp, Owes, Writing, Restart
<1> QED
  BY <1>1, <1>2, <1>3, <1>4, <1>5, <1>6, <1>7, <1>8, <1>9, <1>10, <1>11, <1>12, <1>13, <1>14,
     <1>15, <1>16, <1>17, <1>18, <1>19, <1>20, <1>22, <1>23, <1>24, <1>25, <1>26
  DEF Next, Serving, HandlerStep, Upstream, Request, DeleterStep, Admin, AnyRestart,
      SetTitle, SetMessageContent, DeleteMessage

-----------------------------------------------------------------------------
(* The recency list. Its operators count and choose places, so the facts   *)
(* about them are inductions, which go by the least counterexample.        *)

(* A set of numbers has a least one.                                       *)
LEMMA LeastOf ==
  ASSUME NEW T \in SUBSET Nat, T # {}
  PROVE  \E x \in T : \A y \in T : x <= y
<1> DEFINE Less == {p \in Nat \X Nat : p[1] < p[2]}
<1>1. Less = OpToRel(<, Nat)
  BY DEF OpToRel
<1>2. IsWellFoundedOn(Less, Nat)
  BY <1>1, NatLessThanWellFounded
<1>3. PICK x \in T : \A y \in T : ~(<<y, x>> \in Less)
  BY <1>2, WFMin
<1>4. ASSUME NEW y \in T PROVE x <= y
  <2>1. x \in Nat /\ y \in Nat /\ <<y, x>> \in Nat \X Nat
    OBVIOUS
  <2>2. y < x => <<y, x>> \in Less
    BY <2>1
  <2> QED BY <1>3, <2>1, <2>2
<1> QED BY <1>4

(* moveToFrontLocked: c is at most new, and nothing is listed twice.       *)
LEMMA MoveToFrontFacts ==
  ASSUME NEW C, NEW o \in Seq(C), NEW c \in C, Distinct(o)
  PROVE  /\ MoveToFront(o, c) \in Seq(C) /\ Distinct(MoveToFront(o, c))
         /\ \A i \in DOMAIN MoveToFront(o, c) :
              MoveToFront(o, c)[i] = c \/ \E j \in DOMAIN o : MoveToFront(o, c)[i] = o[j]
<1> DEFINE at   == {i \in DOMAIN o : o[i] = c}
           last == IF at = {} THEN Len(o) + 1 ELSE CHOOSE i \in at : \A j \in at : i <= j
           m    == IF last > Len(o) THEN last ELSE Len(o)
           from(i) == IF i = 1 THEN last ELSE IF i <= last THEN i - 1 ELSE i
           new  == [i \in 1..m |-> IF i = 1 THEN c ELSE IF i <= last THEN o[i - 1] ELSE o[i]]
<1>1. CASE o = <<>>
  BY <1>1 DEF MoveToFront, Distinct
<1>2. CASE o # <<>>
  <2>1. Len(o) \in Nat /\ DOMAIN o = 1..Len(o)
    OBVIOUS
  <2>2. at # {} => last \in at
    <3>1. at \in SUBSET Nat
      BY <2>1
    <3> HIDE DEF at
    <3> QED BY <3>1, LeastOf
  <2>3. last \in 1..Len(o) + 1 /\ (last <= Len(o) => o[last] = c) /\ (last > Len(o) => at = {})
    BY <2>1, <2>2
  <2> HIDE DEF last
  <2>4. m \in Nat /\ last \in 1..m
    BY <2>1, <2>3
  <2>5. \A i \in 1..m : from(i) \in 1..m /\ (i # 1 => from(i) \in DOMAIN o /\ from(i) # last /\ new[i] = o[from(i)])
    BY <2>1, <2>3, <2>4
  <2>6. \A i, j \in 1..m : from(i) = from(j) => i = j
    BY <2>3, <2>4
  <2> HIDE DEF from, m
  <2>7. \A i \in 1..m : i # 1 => new[i] # c
    BY <2>3, <2>5 DEF Distinct
  <2>8. new \in Seq(C)
    <3>1. \A i \in 1..m : new[i] \in C
      BY <2>1, <2>5
    <3> QED BY <2>4, <3>1
  <2>9. Distinct(new)
    BY <2>1, <2>5, <2>6, <2>7 DEF Distinct
  <2>10. MoveToFront(o, c) = new
    BY <1>2 DEF MoveToFront, last, m
  <2>11. \A i \in DOMAIN new : new[i] = c \/ \E j \in DOMAIN o : new[i] = o[j]
    BY <2>5
  <2> HIDE DEF new
  <2> QED BY <2>8, <2>9, <2>10, <2>11
<1> QED BY <1>1, <1>2

(* How many entries up to the i-th are not in S.                           *)
KeptUpTo(o, S, i) == Cardinality({j \in 1..i : o[j] \notin S})

(* Counting what is kept.                                                  *)
LEMMA KeptCount ==
  ASSUME NEW o, NEW S
  PROVE  /\ \A i \in Nat : KeptUpTo(o, S, i) \in Nat /\ KeptUpTo(o, S, i) <= i
         /\ KeptUpTo(o, S, 0) = 0
         /\ \A i \in Nat \ {0} :
              KeptUpTo(o, S, i) = IF o[i] \in S THEN KeptUpTo(o, S, i - 1) ELSE KeptUpTo(o, S, i - 1) + 1
         /\ \A i, k \in Nat : i <= k => KeptUpTo(o, S, i) <= KeptUpTo(o, S, k)
         /\ \A i \in Nat : (\A j \in 1..i : o[j] \notin S) => KeptUpTo(o, S, i) = i
<1> DEFINE kept(i) == {j \in 1..i : o[j] \notin S}
           n(i)    == Cardinality(kept(i))
<1>1. \A i \in Nat : IsFiniteSet(1..i) /\ Cardinality(1..i) = i
  <2> TAKE i \in Nat
  <2> QED BY FS_Interval
<1>2. ASSUME NEW i \in Nat PROVE IsFiniteSet(kept(i)) /\ n(i) \in Nat /\ n(i) <= i
  <2>1. IsFiniteSet(1..i) /\ Cardinality(1..i) = i /\ kept(i) \in SUBSET (1..i)
    BY <1>1
  <2> HIDE DEF kept
  <2>2. IsFiniteSet(kept(i)) /\ n(i) <= i
    BY <2>1, FS_Subset
  <2> QED BY <2>2, FS_CardinalityType
<1>3. n(0) = 0
  BY FS_EmptySet
<1>4. ASSUME NEW i \in Nat \ {0}
      PROVE  n(i) = IF o[i] \in S THEN n(i - 1) ELSE n(i - 1) + 1
  <2>1. kept(i) = IF o[i] \in S THEN kept(i - 1) ELSE kept(i - 1) \cup {i}
    OBVIOUS
  <2>2. i \notin kept(i - 1) /\ i - 1 \in Nat
    OBVIOUS
  <2> HIDE DEF kept
  <2> QED BY <2>1, <2>2, <1>2, FS_AddElement
<1>5. ASSUME NEW i \in Nat, NEW k \in Nat, i <= k PROVE n(i) <= n(k)
  <2>1. kept(i) \in SUBSET kept(k)
    BY <1>5
  <2> HIDE DEF kept
  <2> QED BY <1>2, <2>1, FS_Subset
<1>6. ASSUME NEW i \in Nat, \A j \in 1..i : o[j] \notin S PROVE n(i) = i
  <2>1. kept(i) = 1..i
    BY <1>6
  <2> QED BY <1>1, <2>1
<1>7. \A i : n(i) = KeptUpTo(o, S, i)
  BY DEF KeptUpTo
<1> HIDE DEF n
<1> QED BY <1>2, <1>3, <1>4, <1>5, <1>6, <1>7

(* The places that the filter keeps, in their order.                       *)
Places(o, S, m, pos) ==
  /\ m \in Nat /\ pos \in [1..m -> 1..Len(o)]
  /\ \A k, l \in 1..m : k < l => pos[k] < pos[l]
  /\ \A k \in 1..m : o[pos[k]] \notin S
  /\ \A i \in 1..Len(o) : o[i] \notin S => \E k \in 1..m : pos[k] = i

(* There are such places.                                                  *)
LEMMA PlacesExist ==
  ASSUME NEW C, NEW o \in Seq(C), NEW S
  PROVE  \E m, pos : Places(o, S, m, pos)
<1> DEFINE L      == Len(o)
           n(i)   == KeptUpTo(o, S, i)
           nth(k) == CHOOSE i \in 1..L : o[i] \notin S /\ n(i) = k
           m      == n(L)
           pos    == [k \in 1..m |-> nth(k)]
<1>1. L \in Nat
  OBVIOUS
<1>2. /\ \A i \in Nat : n(i) \in Nat /\ n(i) <= i
      /\ n(0) = 0
      /\ \A i \in Nat \ {0} : n(i) = IF o[i] \in S THEN n(i - 1) ELSE n(i - 1) + 1
      /\ \A i, k \in Nat : i <= k => n(i) <= n(k)
  BY KeptCount
<1> HIDE DEF n, L
<1>3. ASSUME NEW k \in 1..m PROVE \E i \in 1..L : o[i] \notin S /\ n(i) = k
  <2> DEFINE T == {i \in 1..L : n(i) >= k}
  <2>1. L \in T
    BY <1>1, <1>2
  <2>2. T \in SUBSET Nat
    BY <1>1
  <2>3. PICK i \in T : \A j \in T : i <= j
    <3> HIDE DEF T
    <3> QED BY <2>1, <2>2, LeastOf
  <2>4. i \in 1..L /\ n(i) >= k /\ i \in Nat \ {0} /\ i - 1 \in Nat
    BY <1>1
  <2>5. n(i - 1) < k
    <3>1. CASE i = 1
      BY <3>1, <1>2
    <3>2. CASE i # 1
      <4>1. i - 1 \in 1..L /\ ~(i <= i - 1)
        BY <3>2, <2>4, <1>1
      <4> QED BY <4>1, <2>4, <1>2, <2>3
    <3> QED BY <3>1, <3>2
  <2> HIDE DEF T
  <2>6. n(i) = k /\ o[i] \notin S
    <3>1. n(i) \in Nat /\ n(i - 1) \in Nat /\ k \in Nat
      BY <1>2, <2>4
    <3>2. n(i) = IF o[i] \in S THEN n(i - 1) ELSE n(i - 1) + 1
      BY <1>2, <2>4
    <3>3. n(i) >= k /\ n(i - 1) < k
      BY <2>4, <2>5
    <3> QED BY <3>1, <3>2, <3>3
  <2> QED BY <2>4, <2>6
<1>4. ASSUME NEW k \in 1..m PROVE nth(k) \in 1..L /\ o[nth(k)] \notin S /\ n(nth(k)) = k
  BY <1>3
<1> HIDE DEF nth
<1>5. ASSUME NEW k \in 1..m, NEW l \in 1..m, k < l PROVE nth(k) < nth(l)
  <2>1. nth(k) \in Nat /\ nth(l) \in Nat /\ n(nth(k)) = k /\ n(nth(l)) = l
    BY <1>4
  <2> QED BY <1>1, <1>2, <1>5, <2>1
<1>6. ASSUME NEW i \in 1..L, o[i] \notin S PROVE n(i) \in 1..m /\ nth(n(i)) = i
  <2>1. n(i) >= 1 /\ n(i) <= m /\ n(i) \in Nat /\ m \in Nat
    BY <1>1, <1>2, <1>6
  <2>2. n(i) \in 1..m
    BY <2>1
  <2>3. nth(n(i)) \in 1..L /\ o[nth(n(i))] \notin S /\ n(nth(n(i))) = n(i)
    BY <2>2, <1>4
  <2>4. \A j, k \in 1..L : j < k /\ o[k] \notin S => n(j) < n(k)
    <3> TAKE j \in 1..L, k \in 1..L
    <3>1. j \in Nat /\ k \in Nat \ {0} /\ k - 1 \in Nat
      BY <1>1
    <3>2. j < k => n(j) <= n(k - 1)
      BY <1>2, <3>1
    <3>3. o[k] \notin S => n(k) = n(k - 1) + 1
      BY <1>2, <3>1
    <3>4. n(j) \in Nat /\ n(k - 1) \in Nat
      BY <1>2, <3>1
    <3> QED BY <3>2, <3>3, <3>4
  <2> DEFINE j == nth(n(i))
  <2> HIDE DEF j
  <2>5. j \in 1..L /\ o[j] \notin S /\ n(j) = n(i)
    BY <2>3 DEF j
  <2>6. ~(j < i) /\ ~(i < j)
    <3>1. n(i) \in Nat
      BY <1>1, <1>2
    <3> QED BY <1>6, <2>4, <2>5, <3>1
  <2> QED BY <1>1, <2>2, <2>5, <2>6 DEF j
<1>7. m \in Nat
  BY <1>1, <1>2
<1> HIDE DEF m
<1>8. Places(o, S, m, pos)
  <2>1. pos \in [1..m -> 1..Len(o)]
    BY <1>4 DEF L
  <2>2. \A i \in 1..Len(o) : o[i] \notin S => \E k \in 1..m : pos[k] = i
    BY <1>6 DEF L
  <2> QED BY <1>4, <1>5, <1>7, <2>1, <2>2 DEF Places
<1> QED BY <1>8

(* The filter reads the list at these places.                              *)
LEMMA WithoutIs ==
  ASSUME NEW C, NEW o \in Seq(C), NEW S, NEW m, NEW pos, Places(o, S, m, pos)
  PROVE  /\ Without(o, S) \in Seq(C) /\ Len(Without(o, S)) = m
         /\ \A k \in 1..m : Without(o, S)[k] = o[pos[k]]
<1> DEFINE L       == Len(o)
           kept(i) == {j \in 1..i : o[j] \notin S}
           n(i)    == Cardinality(kept(i))
           nth(k)  == CHOOSE i \in kept(L) : n(i) = k
<1>1. L \in Nat
  OBVIOUS
<1>2. ASSUME NEW k \in 0..m, NEW i \in 0..L, kept(i) = {pos[l] : l \in 1..k}
      PROVE  n(i) = k
  <2> DEFINE f == [l \in 1..k |-> pos[l]]
  <2>1. f \in Bijection(1..k, kept(i))
    <3>1. \A l \in 1..k : f[l] \in kept(i)
      BY <1>2
    <3>2. \A x \in kept(i) : \E l \in 1..k : f[l] = x
      BY <1>2
    <3>3. \A l, j \in 1..k : f[l] = f[j] => l = j
      BY DEF Places
    <3> HIDE DEF kept, f
    <3>4. f \in [1..k -> kept(i)]
      BY <3>1 DEF f
    <3> QED BY <3>2, <3>3, <3>4 DEF Bijection, Injection, IsInjective, Surjection
  <2>2. k \in Nat /\ IsFiniteSet(1..k) /\ Cardinality(1..k) = k
    BY FS_Interval DEF Places
  <2> HIDE DEF f, kept
  <2> QED BY <2>1, <2>2, FS_Bijection DEF ExistsBijection
<1>3. ASSUME NEW k \in 1..m PROVE pos[k] \in kept(L) /\ n(pos[k]) = k
  <2>1. pos[k] \in 1..L /\ o[pos[k]] \notin S /\ k \in 0..m
    BY DEF Places
  <2>2. kept(pos[k]) = {pos[l] : l \in 1..k}
    <3>1. ASSUME NEW l \in 1..k PROVE pos[l] \in kept(pos[k])
      <4>1. l \in 1..m /\ (l = k \/ l < k)
        BY DEF Places
      <4> QED BY <2>1, <4>1 DEF Places
    <3>2. ASSUME NEW i \in kept(pos[k]) PROVE i \in {pos[l] : l \in 1..k}
      <4>1. i \in 1..L /\ i <= pos[k] /\ o[i] \notin S
        BY <2>1, <1>1
      <4>2. PICK l \in 1..m : pos[l] = i
        BY <4>1 DEF Places
      <4>3. ~(k < l)
        BY <4>1, <4>2, <2>1, <1>1 DEF Places
      <4>4. l \in 1..k
        BY <4>3 DEF Places
      <4> QED BY <4>2, <4>4
    <3> HIDE DEF kept
    <3> QED BY <3>1, <3>2
  <2>3. pos[k] \in 0..L
    BY <2>1
  <2>4. n(pos[k]) = k
    <3> HIDE DEF kept, n, L
    <3> QED BY <1>2, <2>1, <2>2, <2>3
  <2>5. pos[k] \in kept(L)
    BY <2>1
  <2> QED BY <2>4, <2>5
<1>4. n(L) = m
  <2>1. m \in 0..m /\ L \in 0..L
    BY <1>1 DEF Places
  <2>2. kept(L) = {pos[l] : l \in 1..m}
    BY <1>1 DEF Places
  <2> HIDE DEF kept, n, L
  <2> QED BY <1>2, <2>1, <2>2
<1>5. ASSUME NEW k \in 1..m PROVE nth(k) = pos[k]
  <2>1. \A i \in kept(L) : \E l \in 1..m : pos[l] = i
    BY DEF Places
  <2> HIDE DEF kept, n
  <2>2. \A i \in kept(L) : n(i) = k => i = pos[k]
    BY <1>3, <2>1
  <2> QED BY <1>3, <2>2
<1>6. Without(o, S) = [k \in 1..n(L) |-> o[nth(k)]]
  BY DEF Without
<1> HIDE DEF n, nth, kept
<1>7. Without(o, S) = [k \in 1..m |-> o[pos[k]]]
  BY <1>4, <1>5, <1>6
<1>8. m \in Nat /\ \A k \in 1..m : o[pos[k]] \in C
  BY DEF Places
<1> QED BY <1>7, <1>8

(* The filter: what it keeps was listed, and nothing is listed twice.      *)
LEMMA WithoutFacts ==
  ASSUME NEW C, NEW o \in Seq(C), NEW S, Distinct(o)
  PROVE  /\ Without(o, S) \in Seq(C) /\ Distinct(Without(o, S))
         /\ \A k \in DOMAIN Without(o, S) :
              Without(o, S)[k] \notin S /\ \E i \in DOMAIN o : Without(o, S)[k] = o[i]
<1> DEFINE w == Without(o, S)
<1>1. PICK m, pos : Places(o, S, m, pos)
  BY PlacesExist
<1>2. w \in Seq(C) /\ Len(w) = m /\ \A k \in 1..m : w[k] = o[pos[k]]
  BY <1>1, WithoutIs
<1> HIDE DEF w
<1>3. DOMAIN w = 1..m /\ DOMAIN o = 1..Len(o) /\ m \in Nat
  BY <1>1, <1>2 DEF Places
<1>4. \A k \in 1..m : pos[k] \in DOMAIN o /\ o[pos[k]] \notin S
  BY <1>1, <1>3 DEF Places
<1>5. \A k, l \in 1..m : pos[k] = pos[l] => k = l
  BY <1>1 DEF Places
<1>6. Distinct(w)
  BY <1>2, <1>3, <1>4, <1>5 DEF Distinct
<1> QED BY <1>2, <1>3, <1>4, <1>6 DEF w

(* moveToFrontLocked on the list of the store.                             *)
LEMMA FrontOfOrder ==
  ASSUME OrderInv, NEW c \in Conv
  PROVE  LET o == MoveToFront(order, c) IN
         /\ o \in Seq(Conv) /\ Distinct(o)
         /\ \A i \in DOMAIN o : o[i] \in Conv /\ (o[i] = c \/ status[o[i]] # "absent")
<1> DEFINE o == MoveToFront(order, c)
<1>1. order \in Seq(Conv) /\ Distinct(order) /\ \A i \in DOMAIN order : status[order[i]] # "absent"
  BY DEF OrderInv, OrderSound, Distinct
<1>2. o \in Seq(Conv) /\ Distinct(o) /\ \A i \in DOMAIN o : o[i] = c \/ \E j \in DOMAIN order : o[i] = order[j]
  BY <1>1, MoveToFrontFacts
<1> HIDE DEF o
<1>3. \A i \in DOMAIN o : o[i] \in Conv
  BY <1>2
<1>4. \A i \in DOMAIN o : o[i] = c \/ status[o[i]] # "absent"
  BY <1>1, <1>2
<1>5. /\ o \in Seq(Conv) /\ Distinct(o)
      /\ \A i \in DOMAIN o : o[i] \in Conv /\ (o[i] = c \/ status[o[i]] # "absent")
  BY <1>2, <1>3, <1>4
<1> QED BY <1>5 DEF o

(* What is put into a list that is sound with c at its front, and trimmed. *)
LEMMA InsertOrder ==
  ASSUME TypeOK, NEW c \in Conv, NEW s \in Entries, NEW o \in Seq(Conv), NEW k \in BOOLEAN,
         Insert(c, s, o, k), Distinct(o),
         \A i \in DOMAIN o : o[i] = c \/ status[o[i]] # "absent"
  PROVE  OrderInv'
<1> DEFINE st   == [status EXCEPT ![c] = s]
           gone == Evicted(o, Protected(st), MaxResident)
<1>1. order' = Without(o, gone) /\ status' = [x \in Conv |-> IF x \in gone THEN "absent" ELSE st[x]]
  BY DEF Insert
<1>2. \A i \in DOMAIN o : o[i] \in Conv /\ st[o[i]] # "absent"
  BY DEF TypeOK, Entries
<1> HIDE DEF st, gone
<1>3. /\ order' \in Seq(Conv) /\ Distinct(order')
      /\ \A i \in DOMAIN order' : order'[i] \notin gone /\ \E j \in DOMAIN o : order'[i] = o[j]
  BY <1>1, WithoutFacts
<1>4. \A i \in DOMAIN order' : status'[order'[i]] # "absent"
  BY <1>1, <1>2, <1>3
<1> QED BY <1>3, <1>4 DEF OrderInv, OrderSound, Distinct

(* loadConversation lists an entry exactly when it puts it into the store. *)
LEMMA RestoreOrder ==
  ASSUME TypeOK, OrderInv, NEW c \in Conv, Restore(c)
  PROVE  OrderInv'
<1>1. CASE status[c] = "absent" /\ row[c] # "absent"
  <2>1. Repaired(row[c]) \in Entries
    BY <1>1 DEF TypeOK, Repaired, Busy, Entries
  <2>2. Insert(c, Repaired(row[c]), MoveToFront(order, c), TRUE)
    BY <1>1 DEF Restore
  <2> QED BY <2>1, <2>2, FrontOfOrder, InsertOrder
<1>2. CASE ~(status[c] = "absent" /\ row[c] # "absent")
  BY <1>2 DEF Restore, OrderInv, OrderSound, store
<1> QED BY <1>1, <1>2

(* An entry that is published again moves to the front.                    *)
LEMMA PublishOrder ==
  ASSUME TypeOK, OrderInv, NEW c \in Conv, NEW s \in Entries, Publish(c, s)
  PROVE  OrderInv'
<1>1. order' = MoveToFront(order, c) /\ status' = [status EXCEPT ![c] = s]
  BY DEF Publish
<1>2. \A x \in Conv : x = c \/ status[x] # "absent" => status'[x] # "absent"
  BY <1>1 DEF TypeOK, Entries
<1>3. /\ order' \in Seq(Conv) /\ Distinct(order')
      /\ \A i \in DOMAIN order' : order'[i] \in Conv /\ (order'[i] = c \/ status[order'[i]] # "absent")
  BY <1>1, FrontOfOrder
<1> QED BY <1>2, <1>3 DEF OrderInv, OrderSound, Distinct

(* A step that leaves the list alone and lets no entry go.                 *)
LEMMA KeptOrder ==
  ASSUME OrderInv, UNCHANGED order,
         \A x \in Conv : status[x] # "absent" => status'[x] # "absent"
  PROVE  OrderInv'
BY DEF OrderInv, OrderSound

(* The recency list: what leaves the store leaves the list.                *)
LEMMA OrderStep == TypeOK /\ PcInv /\ OrderInv /\ Next => OrderInv'
<1> SUFFICES ASSUME TypeOK, PcInv, OrderInv, Next PROVE OrderInv'
  OBVIOUS
<1> USE DEF Entries
<1>1. ASSUME NEW h \in Handlers, NEW c \in Conv, Resolve(h, c) PROVE OrderInv'
  BY <1>1, RestoreOrder DEF Resolve
<1>2. ASSUME NEW h \in Handlers, NEW c \in Conv, ImportRemote(h, c) PROVE OrderInv'
  BY <1>2, FrontOfOrder, InsertOrder DEF ImportRemote
<1>3. ASSUME NEW h \in Handlers, NEW c \in Conv, Begin(h, c) PROVE OrderInv'
  <2> DEFINE o == <<c>> \o order
  <2>1. order \in Seq(Conv) /\ \A i \in DOMAIN order : order[i] # c
    BY <1>3 DEF Begin, OrderInv, OrderSound
  <2>2. o \in Seq(Conv) /\ Distinct(o)
    BY <2>1 DEF OrderInv, OrderSound, Distinct
  <2>3. \A i \in DOMAIN o : o[i] = c \/ status[o[i]] # "absent"
    BY <2>1 DEF OrderInv, OrderSound
  <2>4. Insert(c, "running", o, FALSE)
    BY <1>3 DEF Begin
  <2> HIDE DEF o
  <2> QED BY <2>2, <2>3, <2>4, InsertOrder
<1>4. ASSUME NEW h \in Handlers, Reload(h) PROVE OrderInv'
  BY <1>4, RestoreOrder, KeptOrder DEF PcInv, Reload, store
<1>5. ASSUME NEW h \in Handlers, Continue(h) PROVE OrderInv'
  BY <1>5, PublishOrder, KeptOrder DEF PcInv, Continue, store
<1>6. ASSUME NEW h \in Handlers, AppendDelta(h) PROVE OrderInv'
  BY <1>6, PublishOrder, KeptOrder DEF PcInv, AppendDelta, store
<1>7. ASSUME NEW h \in Handlers, ThrottleDelta(h) PROVE OrderInv'
  BY <1>7, KeptOrder DEF ThrottleDelta, store
<1>8. ASSUME NEW h \in Handlers, SetExecutionTarget(h) PROVE OrderInv'
  BY <1>8, KeptOrder DEF SetExecutionTarget, store
<1>9. ASSUME NEW h \in Handlers, SetEnvelopeIDs(h) PROVE OrderInv'
  BY <1>9, PublishOrder, KeptOrder DEF TypeOK, PcInv, SetEnvelopeIDs, store
<1>10. ASSUME NEW h \in Handlers, Complete(h) PROVE OrderInv'
  BY <1>10, PublishOrder, KeptOrder DEF PcInv, Complete, Finish, store
<1>11. ASSUME NEW h \in Handlers, Fail(h) PROVE OrderInv'
  BY <1>11, PublishOrder, KeptOrder DEF PcInv, Fail, Finish, store
<1>12. ASSUME NEW h \in Handlers, Escape(h) PROVE OrderInv'
  BY <1>12, KeptOrder DEF Escape, store
<1>13. ASSUME NEW h \in Handlers, Leave(h) PROVE OrderInv'
  BY <1>13, KeptOrder DEF Leave, store
<1>14. ASSUME NEW h \in Handlers, Abandon(h) PROVE OrderInv'
  BY <1>14, PublishOrder, KeptOrder DEF PcInv, Abandon, Finish, store
<1>15. ASSUME NEW h \in Handlers, ReadSnapshot(h) PROVE OrderInv'
  BY <1>15, KeptOrder DEF ReadSnapshot, store
<1>16. ASSUME NEW h \in Handlers, WriteSnapshot(h) PROVE OrderInv'
  BY <1>16, KeptOrder DEF WriteSnapshot, store
<1>17. ASSUME NEW c \in Conv, AdminLoad(c) PROVE OrderInv'
  BY <1>17, RestoreOrder DEF AdminLoad
<1>18. ASSUME NEW c \in Conv, SaveEdit(c) PROVE OrderInv'
  BY <1>18, KeptOrder DEF SaveEdit, store
<1>19. ASSUME NEW d \in Deleters, NEW c \in Conv, LoadForDeletion(d, c) PROVE OrderInv'
  BY <1>19, RestoreOrder DEF LoadForDeletion
<1>20. ASSUME NEW d \in Deleters, ClaimForDeletion(d) PROVE OrderInv'
  BY <1>20, KeptOrder DEF TypeOK, ClaimForDeletion
<1>21. ASSUME NEW d \in Deleters, dpc[d] # "idle", RestoreDeletionClaim(d) PROVE OrderInv'
  BY <1>21, KeptOrder DEF TypeOK, PcInv, AtRest, RestoreDeletionClaim
<1>22. ASSUME NEW d \in Deleters, DeleteThread(d) PROVE OrderInv'
  BY <1>22, <1>21, KeptOrder DEF DeleteThread, store
<1>23. ASSUME NEW d \in Deleters, DeleteLinks(d) PROVE OrderInv'
  BY <1>23, <1>21, KeptOrder DEF DeleteLinks, store
<1>24. ASSUME NEW d \in Deleters, DeleteRow(d) PROVE OrderInv'
  BY <1>24, <1>21, KeptOrder DEF DeleteRow, store
<1>25. ASSUME NEW d \in Deleters, Remove(d) PROVE OrderInv'
  <2> DEFINE c == dconv[d]
  <2>1. CASE ~AtRest(status[c])
    BY <1>25, <2>1, KeptOrder DEF Remove, store
  <2>2. CASE AtRest(status[c])
    <3>1. order' = Without(order, {c}) /\ status' = [status EXCEPT ![c] = "absent"]
      BY <1>25, <2>2 DEF Remove
    <3>2. order \in Seq(Conv) /\ Distinct(order)
      BY DEF OrderInv, OrderSound, Distinct
    <3> HIDE DEF c
    <3>3. /\ order' \in Seq(Conv) /\ Distinct(order')
          /\ \A k \in DOMAIN order' :
               order'[k] \notin {c} /\ \E i \in DOMAIN order : order'[k] = order[i]
      <4> DEFINE S == {c}
      <4>1. order' = Without(order, S)
        BY <3>1
      <4> HIDE DEF S
      <4>2. /\ order' \in Seq(Conv) /\ Distinct(order')
            /\ \A k \in DOMAIN order' :
                 order'[k] \notin S /\ \E i \in DOMAIN order : order'[k] = order[i]
        BY <4>1, <3>2, WithoutFacts
      <4> QED BY <4>2 DEF S
    <3>4. \A k \in DOMAIN order' : status'[order'[k]] # "absent"
      <4>1. \A x \in Conv : x \notin {c} => status'[x] = status[x]
        BY <3>1 DEF TypeOK
      <4>2. \A i \in DOMAIN order : order[i] \in Conv /\ status[order[i]] # "absent"
        BY <3>2 DEF OrderInv, OrderSound
      <4> QED BY <4>1, <4>2, <3>3
    <3> QED BY <3>3, <3>4 DEF OrderInv, OrderSound, Distinct
  <2> QED BY <2>1, <2>2
<1>26. ASSUME NEW flush \in BOOLEAN, NEW kept \in SUBSET Conv, NEW o,
              NEW lost \in SUBSET kept, o \in [1..Cardinality(kept) -> kept],
              Restart(flush, kept, o, lost)
       PROVE  OrderInv'
  <2> DEFINE n == Cardinality(kept)
  <2>1. IsFiniteSet(kept) /\ {o[i] : i \in DOMAIN o} = kept /\ order' = o
    BY <1>26 DEF Restart
  <2>2. n \in Nat
    BY <2>1, FS_CardinalityType
  <2>3. IsFiniteSet(1..n) /\ Cardinality(1..n) = n
    BY <2>2, FS_Interval
  <2>4. o \in Surjection(1..n, kept)
    BY <1>26, <2>1 DEF Surjection
  <2>5. o \in Injection(1..n, kept)
    BY <2>3, <2>4, FS_Surjection
  <2>6. \A i, j \in DOMAIN o : o[i] = o[j] => i = j
    BY <2>5 DEF Injection, IsInjective
  <2>7. o \in Seq(Conv)
    BY <1>26, <2>2
  <2>8. \A c \in kept : status'[c] # "absent"
    BY <1>26 DEF Restart
  <2> QED BY <1>26, <2>1, <2>6, <2>7, <2>8 DEF OrderInv, OrderSound
<1> QED
  BY <1>1, <1>2, <1>3, <1>4, <1>5, <1>6, <1>7, <1>8, <1>9, <1>10, <1>11, <1>12, <1>13, <1>14,
     <1>15, <1>16, <1>17, <1>18, <1>19, <1>20, <1>22, <1>23, <1>24, <1>25, <1>26
  DEF Next, Serving, HandlerStep, Upstream, Request, DeleterStep, Admin, AnyRestart,
      SetTitle, SetMessageContent, DeleteMessage

-----------------------------------------------------------------------------
(* The loops of the list. A loop over places is a recursive function, and  *)
(* two functions that obey its recursion are the same (Downward); what the *)
(* trimming walk has left at a place is found by counting the entries      *)
(* behind it that may go.                                                  *)

(* Two functions that agree at the top, and at each place where they agree *)
(* at the next, agree: what a loop that counts down computes.              *)
LEMMA Downward ==
  ASSUME NEW n \in Nat, NEW f, NEW g, f[n] = g[n],
         \A i \in 0..n - 1 : f[i + 1] = g[i + 1] => f[i] = g[i]
  PROVE  \A i \in 0..n : f[i] = g[i]
<1> DEFINE T == {k \in 0..n : f[n - k] # g[n - k]}
<1>1. SUFFICES ASSUME T # {} PROVE FALSE
  <2>1. SUFFICES ASSUME T = {} PROVE \A i \in 0..n : f[i] = g[i]
    BY <1>1
  <2> TAKE i \in 0..n
  <2>2. n - i \in 0..n /\ n - (n - i) = i
    OBVIOUS
  <2> QED BY <2>1, <2>2
<1>2. T \in SUBSET Nat
  OBVIOUS
<1>3. PICK k \in T : \A j \in T : k <= j
  <2> HIDE DEF T
  <2> QED BY <1>1, <1>2, LeastOf
<1>4. k \in 0..n /\ f[n - k] # g[n - k]
  OBVIOUS
<1>5. k # 0
  BY <1>4
<1>6. k - 1 \in 0..n /\ k - 1 \notin T
  BY <1>3, <1>4, <1>5
<1>7. f[n - (k - 1)] = g[n - (k - 1)]
  BY <1>6
<1>8. n - k \in 0..n - 1 /\ n - (k - 1) = (n - k) + 1
  BY <1>4, <1>5
<1> QED BY <1>4, <1>7, <1>8

(* moveToFrontLocked in closed form is its loop.                           *)
LEMMA FrontAgrees ==
  ASSUME NEW C, NEW o \in Seq(C), NEW c \in C
  PROVE  MoveToFront(o, c) = FrontLoop(o, c)
<1> DEFINE L        == Len(o)
           moved(j) == <<c>> \o SubSeq(o, 1, j - 1) \o SubSeq(o, j + 1, L)
           F(f)     == [i \in 1..L + 1 |-> IF i > L THEN <<c>> \o o
                                           ELSE IF o[i] # c THEN f[i + 1] ELSE moved(i)]
           at(i)    == {j \in i..L : o[j] = c}
           first(i) == CHOOSE j \in at(i) : \A k \in at(i) : j <= k
           g        == [i \in 1..L + 1 |-> IF at(i) = {} THEN <<c>> \o o ELSE moved(first(i))]
           h        == CHOOSE f : f = F(f)
<1>1. L \in Nat /\ DOMAIN o = 1..L
  OBVIOUS
<1>2. ASSUME NEW i \in Nat, at(i) # {}
      PROVE  first(i) \in at(i) /\ \A k \in at(i) : first(i) <= k
  <2>1. at(i) \in SUBSET Nat
    BY <1>1
  <2> HIDE DEF at
  <2> QED BY <1>2, <2>1, LeastOf
<1>3. g = F(g)
  <2>1. ASSUME NEW i \in 1..L + 1 PROVE g[i] = F(g)[i]
    <3>1. CASE i > L
      BY <1>1, <3>1
    <3>2. CASE i <= L /\ o[i] # c
      <4>1. at(i) = at(i + 1) /\ i + 1 \in 1..L + 1
        BY <1>1, <3>2
      <4>2. first(i) = first(i + 1)
        BY <4>1
      <4> HIDE DEF at, first, moved
      <4> QED BY <1>1, <3>2, <4>1, <4>2
    <3>3. CASE i <= L /\ o[i] = c
      <4>1. i \in at(i) /\ \A k \in at(i) : i <= k
        BY <1>1, <3>3
      <4>2. first(i) \in at(i) /\ at(i) \in SUBSET Nat /\ first(i) <= i
        BY <1>1, <1>2, <4>1
      <4> HIDE DEF at
      <4>3. first(i) = i
        BY <1>1, <4>1, <4>2
      <4> HIDE DEF first, moved
      <4> QED BY <1>1, <3>3, <4>1, <4>3
    <3> QED BY <1>1, <3>1, <3>2, <3>3
  <2> HIDE DEF moved, at, first
  <2> QED BY <2>1
<1>4. h = F(h)
  <2> HIDE DEF F, g
  <2> QED BY <1>3
<1> HIDE DEF h
<1>5. h[1] = g[1]
  <2> DEFINE fh == [i \in 0..L |-> h[i + 1]]
             fg == [i \in 0..L |-> g[i + 1]]
  <2> HIDE DEF g, moved
  <2>1. fh[L] = fg[L]
    <3>1. L + 1 \in 1..L + 1 /\ L + 1 > L /\ L \in 0..L
      BY <1>1
    <3>2. h[L + 1] = <<c>> \o o /\ g[L + 1] = <<c>> \o o
      BY <1>3, <1>4, <3>1
    <3> QED BY <3>1, <3>2
  <2>2. ASSUME NEW i \in 0..L - 1, fh[i + 1] = fg[i + 1] PROVE fh[i] = fg[i]
    <3>1. i + 1 \in 1..L + 1 /\ ~(i + 1 > L) /\ i \in 0..L /\ i + 1 \in 0..L
      BY <1>1
    <3>2. h[i + 1] = IF o[i + 1] # c THEN h[i + 1 + 1] ELSE moved(i + 1)
      BY <1>4, <3>1
    <3>3. g[i + 1] = IF o[i + 1] # c THEN g[i + 1 + 1] ELSE moved(i + 1)
      BY <1>3, <3>1
    <3>4. h[i + 1 + 1] = g[i + 1 + 1]
      BY <2>2, <3>1
    <3> QED BY <3>1, <3>2, <3>3, <3>4
  <2> HIDE DEF fh, fg
  <2>3. fh[0] = fg[0]
    BY <1>1, <2>1, <2>2, Downward
  <2> QED BY <1>1, <2>3 DEF fh, fg
<1>6. FrontLoop(o, c) = IF o = <<>> \/ o[1] = c THEN o ELSE h[1]
  BY DEF FrontLoop, h
<1>7. g[1] = IF at(1) = {} THEN <<c>> \o o ELSE moved(first(1))
  BY <1>1
<1> DEFINE last == IF at(1) = {} THEN L + 1 ELSE first(1)
<1>8. MoveToFront(o, c) = IF o = <<>> THEN o
                          ELSE [i \in 1..(IF last > L THEN last ELSE L) |->
                                  IF i = 1 THEN c ELSE IF i <= last THEN o[i - 1] ELSE o[i]]
  BY <1>1 DEF MoveToFront
<1>9. CASE o = <<>>
  BY <1>6, <1>8, <1>9
<1>10. CASE o # <<>> /\ o[1] = c
  <2>1. L >= 1 /\ 1 \in at(1) /\ at(1) \in SUBSET Nat /\ \A k \in at(1) : 1 <= k
    BY <1>1, <1>10
  <2>2. last = 1
    <3>1. first(1) \in at(1) /\ \A k \in at(1) : first(1) <= k
      BY <1>2, <2>1
    <3> HIDE DEF at, first
    <3> QED BY <2>1, <3>1
  <2> HIDE DEF last
  <2>3. MoveToFront(o, c) = [i \in 1..L |-> o[i]]
    BY <1>1, <1>8, <1>10, <2>1, <2>2
  <2> QED BY <1>1, <1>6, <1>10, <2>3
<1>11. CASE o # <<>> /\ o[1] # c /\ at(1) = {}
  <2>1. last = L + 1
    BY <1>11
  <2> HIDE DEF last
  <2>2. MoveToFront(o, c) = [i \in 1..L + 1 |-> IF i = 1 THEN c ELSE o[i - 1]]
    <3> DEFINE w == [i \in 1..L + 1 |-> IF i = 1 THEN c ELSE IF i <= L + 1 THEN o[i - 1] ELSE o[i]]
    <3>1. MoveToFront(o, c) = w
      <4> HIDE DEF L, at
      <4> QED BY <1>1, <1>8, <1>11, <2>1
    <3>2. w = [i \in 1..L + 1 |-> IF i = 1 THEN c ELSE o[i - 1]]
      BY <1>1
    <3> QED BY <3>1, <3>2
  <2>3. <<c>> \o o = [i \in 1..L + 1 |-> IF i = 1 THEN c ELSE o[i - 1]]
    BY <1>1
  <2>4. FrontLoop(o, c) = <<c>> \o o
    <3>1. FrontLoop(o, c) = g[1]
      <4> HIDE DEF at, g, h
      <4> QED BY <1>5, <1>6, <1>11
    <3>2. g[1] = <<c>> \o o
      <4> HIDE DEF at, g
      <4> QED BY <1>7, <1>11
    <3> QED BY <3>1, <3>2
  <2> QED BY <2>2, <2>3, <2>4
<1>12. CASE o # <<>> /\ o[1] # c /\ at(1) # {}
  <2>1. last = first(1) /\ first(1) \in at(1)
    BY <1>2, <1>12
  <2>2. last \in 1..L
    BY <1>1, <2>1
  <2>3. FrontLoop(o, c) = moved(last)
    BY <1>5, <1>6, <1>7, <1>12, <2>1
  <2> HIDE DEF last, at, first
  <2>4. MoveToFront(o, c) = [i \in 1..L |-> IF i = 1 THEN c ELSE IF i <= last THEN o[i - 1] ELSE o[i]]
    <3>1. ~(last > L)
      BY <1>1, <2>2
    <3> HIDE DEF L
    <3> QED BY <1>8, <1>12, <3>1
  <2>5. moved(last) = [i \in 1..L |-> IF i = 1 THEN c ELSE IF i <= last THEN o[i - 1] ELSE o[i]]
    <3> DEFINE a == SubSeq(o, 1, last - 1)
               b == SubSeq(o, last + 1, L)
               d == <<c>> \o a
               w == [i \in 1..L |-> IF i = 1 THEN c ELSE IF i <= last THEN o[i - 1] ELSE o[i]]
    <3>1. a \in Seq(C) /\ Len(a) = last - 1 /\ \A i \in 1..last - 1 : a[i] = o[i]
      BY <1>1, <2>2, SubSeqProperties
    <3>2. b \in Seq(C) /\ Len(b) = L - last /\ \A i \in 1..L - last : b[i] = o[last + i]
      <4>1. last + 1 \in Int /\ L \in Int /\ \A i \in last + 1..L : o[i] \in C
        BY <1>1, <2>2
      <4>2. \A i \in 1..L - last : last + 1 + i - 1 = last + i
        BY <1>1, <2>2
      <4> HIDE DEF L
      <4> QED BY <1>1, <2>2, <4>1, <4>2, SubSeqProperties
    <3> HIDE DEF a, b
    <3>3. /\ d \in Seq(C) /\ Len(d) = last
          /\ \A i \in 1..last : d[i] = IF i = 1 THEN c ELSE o[i - 1]
      <4>1. <<c>> \in Seq(C) /\ Len(<<c>>) = 1 /\ <<c>>[1] = c
        OBVIOUS
      <4> QED BY <2>2, <3>1, <4>1, ConcatProperties
    <3>4. moved(last) = d \o b
      BY DEF a, b
    <3> HIDE DEF d, L, moved
    <3>5. d \o b \in Seq(C) /\ Len(d \o b) = L
      BY <1>1, <2>2, <3>2, <3>3, ConcatProperties
    <3>6. \A i \in 1..L : (d \o b)[i] = IF i <= last THEN d[i] ELSE b[i - last]
      BY <1>1, <2>2, <3>2, <3>3, ConcatProperties
    <3>7. \A i \in 1..L : (d \o b)[i] = w[i]
      BY <1>1, <2>2, <3>2, <3>3, <3>6
    <3>8. w \in Seq(C) /\ Len(w) = L
      BY <1>1, <2>2
    <3> HIDE DEF w
    <3>9. moved(last) = w
      BY <3>4, <3>5, <3>7, <3>8, SeqEqual
    <3> QED BY <3>9 DEF w
  <2> QED BY <2>3, <2>4, <2>5
<1> QED BY <1>9, <1>10, <1>11, <1>12

(* Nothing is left out: the list stays.                                    *)
LEMMA WithoutNothing ==
  ASSUME NEW C, NEW o \in Seq(C)
  PROVE  Without(o, {}) = o
<1> DEFINE L   == Len(o)
           pos == [k \in 1..L |-> k]
<1>1. L \in Nat /\ o = [k \in 1..L |-> o[k]]
  OBVIOUS
<1>2. Places(o, {}, L, pos)
  BY <1>1 DEF Places
<1>3. Without(o, {}) \in Seq(C) /\ Len(Without(o, {})) = L /\ \A k \in 1..L : Without(o, {})[k] = o[pos[k]]
  <2> HIDE DEF L, pos
  <2> QED BY <1>2, WithoutIs
<1>4. \A k \in 1..L : Without(o, {})[k] = o[k]
  BY <1>3
<1> QED BY <1>3, <1>4, SeqEqual

(* A list that lost its i-th entry, as append(order[:i], order[i+1:]...).  *)
LEMMA OneRemoved ==
  ASSUME NEW C, NEW l \in Seq(C), NEW i \in 1..Len(l), NEW w \in Seq(C), Len(w) = Len(l) - 1,
         \A k \in 1..Len(l) - 1 : w[k] = IF k < i THEN l[k] ELSE l[k + 1]
  PROVE  w = SubSeq(l, 1, i - 1) \o SubSeq(l, i + 1, Len(l))
<1> DEFINE m == Len(l)
           a == SubSeq(l, 1, i - 1)
           b == SubSeq(l, i + 1, m)
<1>1. m \in Nat /\ i \in Nat \ {0} /\ i <= m
  OBVIOUS
<1>2. a \in Seq(C) /\ Len(a) = i - 1 /\ \A k \in 1..i - 1 : a[k] = l[k]
  <2>1. 1 \in Int /\ i - 1 \in Int /\ \A k \in 1..i - 1 : l[k] \in C
    BY <1>1
  <2> QED BY <1>1, <2>1, SubSeqProperties
<1>3. b \in Seq(C) /\ Len(b) = m - i /\ \A k \in 1..m - i : b[k] = l[i + k]
  <2>1. i + 1 \in Int /\ m \in Int /\ \A k \in i + 1..m : l[k] \in C
    BY <1>1
  <2>2. \A k \in 1..m - i : i + 1 + k - 1 = i + k
    BY <1>1
  <2> HIDE DEF m
  <2> QED BY <1>1, <2>1, <2>2, SubSeqProperties
<1> HIDE DEF a, b
<1>4. /\ a \o b \in Seq(C) /\ Len(a \o b) = Len(a) + Len(b)
      /\ \A k \in 1..Len(a) + Len(b) : (a \o b)[k] = IF k <= Len(a) THEN a[k] ELSE b[k - Len(a)]
  BY <1>2, <1>3, ConcatProperties
<1>5. Len(a) + Len(b) = m - 1
  BY <1>1, <1>2, <1>3
<1>6. ASSUME NEW k \in 1..m - 1 PROVE w[k] = (a \o b)[k]
  <2>1. CASE k < i
    <3>1. k \in 1..i - 1 /\ k <= i - 1
      BY <1>1, <2>1
    <3> QED BY <1>2, <1>4, <1>5, <2>1, <3>1
  <2>2. CASE k >= i
    <3>1. k - (i - 1) \in 1..m - i /\ ~(k <= i - 1) /\ i + (k - (i - 1)) = k + 1 /\ ~(k < i)
      BY <1>1, <2>2
    <3>2. b[k - (i - 1)] = l[k + 1]
      BY <1>3, <3>1
    <3> QED BY <1>2, <1>4, <1>5, <3>1, <3>2
  <2>3. k < i \/ k >= i
    BY <1>1
  <2> QED BY <2>1, <2>2, <2>3
<1>7. Len(w) = Len(a \o b) /\ \A k \in 1..Len(w) : w[k] = (a \o b)[k]
  BY <1>4, <1>5, <1>6
<1>8. w = a \o b
  <2> HIDE DEF m
  <2> QED BY <1>4, <1>7, SeqEqual
<1> QED BY <1>8 DEF a, b, m

(* The filter leaves one more out, in front of all the others: those in    *)
(* front of it are where they have been, and those behind it move up.      *)
LEMMA OneMoreOut ==
  ASSUME NEW C, NEW o \in Seq(C), Distinct(o), NEW i \in 1..Len(o),
         NEW S, \A j \in 1..i : o[j] \notin S, NEW T, \A x : x \in T <=> x \in S \/ x = o[i],
         NEW m, NEW pos, Places(o, S, m, pos)
  PROVE  /\ i \in 1..m /\ pos[i] = i
         /\ Places(o, T, m - 1, [k \in 1..m - 1 |-> IF k < i THEN pos[k] ELSE pos[k + 1]])
<1>1. Places(o, S, m, pos)
  OBVIOUS
<1>2. m \in Nat /\ i \in Nat \ {0} /\ \A k \in 1..m : pos[k] \in 1..Len(o)
  BY <1>1 DEF Places
<1>3. ASSUME NEW k \in 1..i PROVE k \in 1..m /\ pos[k] = k
  <2> DEFINE wrong == {j \in 1..i : ~(j \in 1..m /\ pos[j] = j)}
  <2>1. SUFFICES ASSUME wrong # {} PROVE FALSE
    BY <2>1
  <2>2. wrong \in SUBSET Nat
    OBVIOUS
  <2>3. PICK j \in wrong : \A x \in wrong : j <= x
    <3> HIDE DEF wrong
    <3> QED BY <2>1, <2>2, LeastOf
  <2>4. j \in 1..i /\ ~(j \in 1..m /\ pos[j] = j)
    OBVIOUS
  <2>5. \A x \in 1..j - 1 : x \in 1..m /\ pos[x] = x
    BY <1>2, <2>3, <2>4
  <2>6. PICK l \in 1..m : pos[l] = j
    <3>1. j \in 1..Len(o) /\ o[j] \notin S
      BY <2>4
    <3> QED BY <1>1, <3>1 DEF Places
  <2> HIDE DEF wrong
  <2>7. ~(l < j)
    BY <1>2, <2>4, <2>5, <2>6
  <2>8. CASE l = j
    BY <2>4, <2>6, <2>8
  <2>9. CASE l > j
    <3>1. j \in 1..m
      BY <1>2, <2>4, <2>6, <2>9
    <3>2. pos[j] < j
      BY <1>1, <2>6, <2>9, <3>1 DEF Places
    <3>3. pos[j] \in 1..j - 1
      BY <1>2, <2>4, <3>1, <3>2
    <3>4. pos[pos[j]] = pos[j] /\ pos[j] \in 1..m
      BY <2>5, <3>3
    <3>5. pos[pos[j]] < pos[j]
      BY <1>1, <3>1, <3>2, <3>4 DEF Places
    <3> QED BY <1>2, <3>1, <3>4, <3>5
  <2> QED BY <1>2, <2>4, <2>6, <2>7, <2>8, <2>9
<1> DEFINE pos2 == [k \in 1..m - 1 |-> IF k < i THEN pos[k] ELSE pos[k + 1]]
<1>4. i \in 1..m /\ pos[i] = i
  BY <1>2, <1>3
<1>7. Places(o, T, m - 1, pos2)
  <2>1. m - 1 \in Nat /\ \A k \in 1..m - 1 : k \in 1..m /\ k + 1 \in 1..m
    BY <1>2, <1>4
  <2>2. pos2 \in [1..m - 1 -> 1..Len(o)]
    BY <1>2, <2>1
  <2>3. ASSUME NEW k \in 1..m - 1, NEW x \in 1..m - 1, k < x PROVE pos2[k] < pos2[x]
    <3>1. \A y, z \in 1..m : y < z => pos[y] < pos[z]
      BY <1>1 DEF Places
    <3> QED BY <1>2, <2>1, <2>3, <3>1
  <2>4. ASSUME NEW k \in 1..m - 1 PROVE o[pos2[k]] \notin T
    <3> DEFINE x == IF k < i THEN k ELSE k + 1
    <3>1. x \in 1..m /\ x # i /\ pos2[k] = pos[x]
      BY <1>2, <2>1
    <3> HIDE DEF x, pos2
    <3>2. pos[x] # i
      BY <1>1, <1>2, <1>4, <3>1 DEF Places
    <3>3. o[pos[x]] \notin S /\ pos[x] \in 1..Len(o)
      BY <1>1, <3>1 DEF Places
    <3> QED BY <3>1, <3>2, <3>3 DEF Distinct
  <2>5. ASSUME NEW x \in 1..Len(o), o[x] \notin T
        PROVE  \E k \in 1..m - 1 : pos2[k] = x
    <3>1. PICK y \in 1..m : pos[y] = x
      BY <1>1, <2>5 DEF Places
    <3>2. y # i
      BY <1>4, <2>5, <3>1
    <3>3. CASE y < i
      <4>1. y \in 1..m - 1 /\ pos2[y] = x
        BY <1>2, <1>4, <3>1, <3>3
      <4> QED BY <4>1
    <3>4. CASE y > i
      <4>1. y - 1 \in 1..m - 1 /\ pos2[y - 1] = x
        BY <1>2, <1>4, <3>1, <3>4
      <4> QED BY <4>1
    <3> QED BY <1>2, <3>2, <3>3, <3>4
  <2> QED BY <2>1, <2>2, <2>3, <2>4, <2>5 DEF Places
<1> QED BY <1>4, <1>7

(* Leaving one more out is dropping an entry of what was left.             *)
LEMMA WithoutOneMore ==
  ASSUME NEW C, NEW o \in Seq(C), Distinct(o), NEW i \in 1..Len(o),
         NEW S, \A j \in 1..i : o[j] \notin S, NEW T, \A x : x \in T <=> x \in S \/ x = o[i]
  PROVE  /\ Without(o, S) \in Seq(C) /\ i \in 1..Len(Without(o, S)) /\ Without(o, S)[i] = o[i]
         /\ Without(o, T) \in Seq(C) /\ Len(Without(o, T)) = Len(Without(o, S)) - 1
         /\ \A k \in 1..Len(Without(o, S)) - 1 :
              Without(o, T)[k] = IF k < i THEN Without(o, S)[k] ELSE Without(o, S)[k + 1]
<1>1. PICK m, pos : Places(o, S, m, pos)
  BY PlacesExist
<1> DEFINE pos2 == [k \in 1..m - 1 |-> IF k < i THEN pos[k] ELSE pos[k + 1]]
           n    == m - 1
           l    == Without(o, S)
           w    == Without(o, T)
<1>2. i \in 1..m /\ pos[i] = i /\ Places(o, T, n, pos2)
  BY <1>1, OneMoreOut
<1>3. m \in Nat /\ i \in Nat \ {0}
  BY <1>1 DEF Places
<1>4. l \in Seq(C) /\ Len(l) = m /\ \A k \in 1..m : l[k] = o[pos[k]]
  BY <1>1, WithoutIs
<1>5. w \in Seq(C) /\ Len(w) = n /\ \A k \in 1..n : w[k] = o[pos2[k]]
  <2> HIDE DEF pos2, n
  <2> QED BY <1>2, WithoutIs
<1> HIDE DEF l, w
<1>6. ASSUME NEW k \in 1..n PROVE w[k] = IF k < i THEN l[k] ELSE l[k + 1]
  <2>1. k \in 1..m /\ k + 1 \in 1..m
    BY <1>2, <1>3
  <2>2. w[k] = o[pos2[k]] /\ pos2[k] = IF k < i THEN pos[k] ELSE pos[k + 1]
    BY <1>5
  <2> HIDE DEF pos2
  <2> QED BY <1>4, <2>1, <2>2
<1>7. l[i] = o[i]
  BY <1>2, <1>4
<1> QED BY <1>2, <1>4, <1>5, <1>6, <1>7 DEF l, w

(* The entries behind the i-th that trimLocked may drop, and those it has  *)
(* dropped when it comes to the i-th.                                      *)
OpenBehind(o, P, i) == Cardinality({k \in i + 1..Len(o) : o[k] \notin P})

GoneBehind(o, P, max, i) ==
  {o[j] : j \in {j \in i + 1..Len(o) : /\ o[j] \notin P /\ Len(o) > max
                                       /\ OpenBehind(o, P, j - 1) <= Len(o) - max}}

(* Counting them from the tail.                                            *)
LEMMA OpenCount ==
  ASSUME NEW C, NEW o \in Seq(C), NEW P
  PROVE  /\ \A i \in 0..Len(o) : OpenBehind(o, P, i) \in Nat
         /\ OpenBehind(o, P, Len(o)) = 0
         /\ \A i \in 1..Len(o) :
              OpenBehind(o, P, i - 1) = IF o[i] \in P THEN OpenBehind(o, P, i) ELSE OpenBehind(o, P, i) + 1
         /\ \A i, k \in 0..Len(o) : i <= k => OpenBehind(o, P, k) <= OpenBehind(o, P, i)
<1> DEFINE L         == Len(o)
           behind(i) == {k \in i + 1..L : o[k] \notin P}
           u(i)      == Cardinality(behind(i))
<1>1. L \in Nat
  OBVIOUS
<1>2. ASSUME NEW i \in 0..L PROVE IsFiniteSet(behind(i)) /\ u(i) \in Nat
  <2>1. IsFiniteSet(i + 1..L) /\ behind(i) \in SUBSET (i + 1..L)
    <3>1. i + 1 \in Int /\ L \in Int
      BY <1>1
    <3> QED BY <3>1, FS_Interval
  <2> HIDE DEF behind
  <2>2. IsFiniteSet(behind(i))
    BY <2>1, FS_Subset
  <2> QED BY <2>2, FS_CardinalityType
<1>3. u(L) = 0
  <2>1. behind(L) = {}
    BY <1>1
  <2> HIDE DEF behind
  <2> QED BY <2>1, FS_EmptySet
<1>4. ASSUME NEW i \in 1..L PROVE u(i - 1) = IF o[i] \in P THEN u(i) ELSE u(i) + 1
  <2>1. behind(i - 1) = IF o[i] \in P THEN behind(i) ELSE behind(i) \cup {i}
    BY <1>1
  <2>2. i \notin behind(i) /\ i \in 0..L
    BY <1>1
  <2> HIDE DEF behind
  <2> QED BY <2>1, <2>2, <1>2, FS_AddElement
<1>5. ASSUME NEW i \in 0..L, NEW k \in 0..L, i <= k PROVE u(k) <= u(i)
  <2>1. behind(k) \in SUBSET behind(i)
    BY <1>1, <1>5
  <2> HIDE DEF behind
  <2> QED BY <1>2, <2>1, FS_Subset
<1>6. \A i : u(i) = OpenBehind(o, P, i)
  BY DEF OpenBehind
<1> HIDE DEF u
<1> QED BY <1>2, <1>3, <1>4, <1>5, <1>6

(* The walk drops an entry that is open while the list is too long.        *)
LEMMA GoneStep ==
  ASSUME NEW C, NEW o \in Seq(C), Distinct(o), NEW P, NEW max
  PROVE  /\ GoneBehind(o, P, max, Len(o)) = {}
         /\ GoneBehind(o, P, max, 0) = Evicted(o, P, max)
         /\ \A i \in 1..Len(o) :
              /\ GoneBehind(o, P, max, i - 1) =
                   GoneBehind(o, P, max, i) \cup
                   (IF o[i] \notin P /\ Len(o) > max /\ OpenBehind(o, P, i - 1) <= Len(o) - max
                    THEN {o[i]} ELSE {})
              /\ \A j \in 1..i : o[j] \notin GoneBehind(o, P, max, i)
<1> DEFINE L       == Len(o)
           goes(j) == o[j] \notin P /\ L > max /\ OpenBehind(o, P, j - 1) <= L - max
           gone(i) == {o[j] : j \in {j \in i + 1..L : goes(j)}}
<1>1. L \in Nat /\ DOMAIN o = 1..L
  OBVIOUS
<1>2. \A i : GoneBehind(o, P, max, i) = gone(i)
  BY DEF GoneBehind
<1>3. gone(0) = Evicted(o, P, max)
  <2>1. \A j \in 1..L : OpenBehind(o, P, j - 1) = Cardinality({k \in j..L : o[k] \notin P})
    <3> TAKE j \in 1..L
    <3>1. j - 1 + 1 = j
      BY <1>1
    <3> QED BY <3>1 DEF OpenBehind
  <2> DEFINE open == {j \in DOMAIN o : /\ o[j] \notin P /\ L > max
                                      /\ Cardinality({k \in j..L : o[k] \notin P}) <= L - max}
  <2>2. {j \in 0 + 1..L : goes(j)} = open
    BY <1>1, <2>1
  <2>3. Evicted(o, P, max) = {o[j] : j \in open}
    BY DEF Evicted
  <2> HIDE DEF goes, open
  <2> QED BY <2>2, <2>3
<1> HIDE DEF goes
<1>4. gone(L) = {}
  BY <1>1
<1>5. ASSUME NEW i \in 1..L PROVE gone(i - 1) = gone(i) \cup (IF goes(i) THEN {o[i]} ELSE {})
  <2>1. {j \in i - 1 + 1..L : goes(j)} = {j \in i + 1..L : goes(j)} \cup (IF goes(i) THEN {i} ELSE {})
    BY <1>1
  <2> QED BY <2>1
<1>6. ASSUME NEW i \in 1..L, NEW j \in 1..i PROVE o[j] \notin gone(i)
  BY <1>1 DEF Distinct
<1> HIDE DEF gone
<1>7. \A i \in 1..L : goes(i) <=> o[i] \notin P /\ Len(o) > max /\ OpenBehind(o, P, i - 1) <= Len(o) - max
  BY DEF goes
<1> QED BY <1>2, <1>3, <1>4, <1>5, <1>6, <1>7

(* What is left when the walk comes to the i-th entry: as many as there    *)
(* were without those that were open, until the list fits.                 *)
Left(o, P, max, i) ==
  IF Len(o) <= max THEN Len(o)
  ELSE IF OpenBehind(o, P, i) <= Len(o) - max THEN Len(o) - OpenBehind(o, P, i) ELSE max

(* The filter over those leaves that many.                                 *)
LEMMA LengthLeft ==
  ASSUME NEW C, NEW o \in Seq(C), Distinct(o), NEW P, NEW max \in Nat
  PROVE  \A i \in 0..Len(o) : Len(Without(o, GoneBehind(o, P, max, i))) = Left(o, P, max, i)
<1> DEFINE L       == Len(o)
           u(i)    == OpenBehind(o, P, i)
           gone(i) == GoneBehind(o, P, max, i)
           f       == [i \in 0..L |-> Len(Without(o, gone(i)))]
           g       == [i \in 0..L |-> Left(o, P, max, i)]
<1>1. L \in Nat
  OBVIOUS
<1>2. /\ \A i \in 0..L : u(i) \in Nat
      /\ u(L) = 0
      /\ \A i \in 1..L : u(i - 1) = IF o[i] \in P THEN u(i) ELSE u(i) + 1
  BY OpenCount
<1>3. /\ gone(L) = {}
      /\ \A i \in 1..L :
           /\ gone(i - 1) = gone(i) \cup
                (IF o[i] \notin P /\ L > max /\ u(i - 1) <= L - max THEN {o[i]} ELSE {})
           /\ \A j \in 1..i : o[j] \notin gone(i)
  BY GoneStep
<1>4. \A i \in 0..L : g[i] = IF L <= max THEN L ELSE IF u(i) <= L - max THEN L - u(i) ELSE max
  BY DEF Left
<1> HIDE DEF gone, u, g
<1>5. f[L] = g[L]
  <2>1. L \in 0..L /\ Without(o, gone(L)) = o
    BY <1>1, <1>3, WithoutNothing
  <2>2. f[L] = L
    BY <2>1
  <2> HIDE DEF f, L
  <2> QED BY <1>1, <1>2, <1>4, <2>1, <2>2
<1>6. ASSUME NEW i \in 0..L - 1, f[i + 1] = g[i + 1] PROVE f[i] = g[i]
  <2>1. i \in 0..L /\ i + 1 \in 0..L /\ i + 1 \in 1..L /\ (i + 1) - 1 = i
    BY <1>1
  <2>2. gone(i) = gone(i + 1) \cup
          (IF o[i + 1] \notin P /\ L > max /\ u(i) <= L - max THEN {o[i + 1]} ELSE {})
    BY <1>3, <2>1
  <2>3. u(i) = IF o[i + 1] \in P THEN u(i + 1) ELSE u(i + 1) + 1
    BY <1>2, <2>1
  <2>4. f[i] = Len(Without(o, gone(i))) /\ f[i + 1] = Len(Without(o, gone(i + 1)))
    BY <2>1
  <2>5. Len(Without(o, gone(i + 1) \cup {o[i + 1]})) = Len(Without(o, gone(i + 1))) - 1
    <3> DEFINE k == i + 1
               S == gone(k)
               T == S \cup {o[k]}
    <3>1. k \in 1..Len(o) /\ \A j \in 1..k : o[j] \notin S
      BY <1>3, <2>1
    <3>2. \A x : x \in T <=> x \in S \/ x = o[k]
      OBVIOUS
    <3> HIDE DEF k, S, T, f
    <3>3. Len(Without(o, T)) = Len(Without(o, S)) - 1
      BY <3>1, <3>2, WithoutOneMore
    <3> QED BY <3>3 DEF k, S, T
  <2>6. u(i) \in Nat /\ u(i + 1) \in Nat
    BY <1>2, <2>1
  <2>7. /\ g[i] = IF L <= max THEN L ELSE IF u(i) <= L - max THEN L - u(i) ELSE max
        /\ g[i + 1] = IF L <= max THEN L ELSE IF u(i + 1) <= L - max THEN L - u(i + 1) ELSE max
    BY <1>4, <2>1
  <2> HIDE DEF f, L
  <2>8. CASE o[i + 1] \notin P /\ L > max /\ u(i) <= L - max
    <3>1. gone(i) = gone(i + 1) \cup {o[i + 1]}
      BY <2>2, <2>8
    <3>2. f[i] = g[i + 1] - 1
      BY <1>6, <2>4, <2>5, <3>1
    <3> QED BY <1>1, <2>3, <2>6, <2>7, <2>8, <3>2
  <2>9. CASE ~(o[i + 1] \notin P /\ L > max /\ u(i) <= L - max)
    <3>1. gone(i) = gone(i + 1)
      BY <2>2, <2>9
    <3>2. f[i] = g[i + 1]
      BY <1>6, <2>4, <3>1
    <3> QED BY <1>1, <2>3, <2>6, <2>7, <2>9, <3>2
  <2> QED BY <2>8, <2>9
<1> HIDE DEF f
<1>7. \A i \in 0..L : f[i] = g[i]
  BY <1>1, <1>5, <1>6, Downward
<1> QED BY <1>7 DEF f, g, gone
(* trimLocked in closed form is its loop.                                  *)
LEMMA TrimAgrees ==
  ASSUME NEW C, NEW o \in Seq(C), Distinct(o), NEW P, NEW max \in Nat
  PROVE  Without(o, Evicted(o, P, max)) = TrimLoop(o, P, max)
<1> DEFINE L       == Len(o)
           u(i)    == OpenBehind(o, P, i)
           gone(i) == GoneBehind(o, P, max, i)
           drop(l, i) == SubSeq(l, 1, i) \o SubSeq(l, i + 2, Len(l))
           step(l, i) == IF Len(l) <= max \/ l[i + 1] \in P THEN l ELSE drop(l, i)
           F(f)    == [i \in 0..L |-> IF i = L THEN o ELSE step(f[i + 1], i)]
           g       == [i \in 0..L |-> Without(o, gone(i))]
           h       == CHOOSE f : f = F(f)
<1>1. L \in Nat
  OBVIOUS
<1>2. /\ \A i \in 0..L : u(i) \in Nat
      /\ \A i \in 1..L : u(i - 1) = IF o[i] \in P THEN u(i) ELSE u(i) + 1
  BY OpenCount
<1>3. /\ gone(L) = {} /\ gone(0) = Evicted(o, P, max)
      /\ \A i \in 1..L :
           /\ gone(i - 1) = gone(i) \cup
                (IF o[i] \notin P /\ L > max /\ u(i - 1) <= L - max THEN {o[i]} ELSE {})
           /\ \A j \in 1..i : o[j] \notin gone(i)
  BY GoneStep
<1>4. \A i \in 0..L : Len(Without(o, gone(i))) = IF L <= max THEN L
                                                 ELSE IF u(i) <= L - max THEN L - u(i) ELSE max
  BY LengthLeft DEF Left
<1> HIDE DEF gone, u, F, g
<1>5. ASSUME NEW i \in 0..L - 1
      PROVE  Without(o, gone(i)) = step(Without(o, gone(i + 1)), i)
  <2> DEFINE k == i + 1
             S == gone(k)
             T == gone(i)
             l == Without(o, S)
             w == Without(o, T)
  <2>1. i \in 0..L /\ k \in 0..L /\ k \in 1..L /\ k - 1 = i /\ k + 1 = i + 2
    BY <1>1
  <2>2. \A j \in 1..k : o[j] \notin S
    BY <1>3, <2>1
  <2>3. T = S \cup (IF o[k] \notin P /\ L > max /\ u(i) <= L - max THEN {o[k]} ELSE {})
    BY <1>3, <2>1
  <2>4. u(i) = IF o[k] \in P THEN u(k) ELSE u(k) + 1
    BY <1>2, <2>1
  <2>5. u(i) \in Nat /\ u(k) \in Nat
    BY <1>2, <2>1
  <2>6. Len(l) = IF L <= max THEN L ELSE IF u(k) <= L - max THEN L - u(k) ELSE max
    BY <1>4, <2>1
  <2> HIDE DEF S, T, k
  <2>7. l[k] = o[k]
    <3> DEFINE X == S \cup {o[k]}
    <3>1. \A x : x \in X <=> x \in S \/ x = o[k]
      OBVIOUS
    <3>2. k \in 1..Len(o)
      BY <2>1 DEF L
    <3> HIDE DEF X, L, drop, step, h, w
    <3>3. Without(o, S)[k] = o[k] /\ Without(o, X) \in Seq(C)
      BY <2>2, <3>1, <3>2, WithoutOneMore
    <3> QED BY <3>3
  <2>8. Len(l) <= max <=> L <= max \/ u(k) >= L - max
    <3> HIDE DEF l, L
    <3> QED BY <1>1, <2>5, <2>6
  <2>9. CASE o[k] \notin P /\ L > max /\ u(i) <= L - max
    <3>1. ~(Len(l) <= max) /\ ~(l[k] \in P)
      <4> HIDE DEF l, L
      <4> QED BY <1>1, <2>4, <2>5, <2>7, <2>8, <2>9
    <3>2. \A x : x \in T <=> x \in S \/ x = o[k]
      BY <2>3, <2>9
    <3>3. k \in 1..Len(o)
      BY <2>1
    <3>4. /\ l \in Seq(C) /\ k \in 1..Len(l) /\ w \in Seq(C) /\ Len(w) = Len(l) - 1
          /\ \A j \in 1..Len(l) - 1 : w[j] = IF j < k THEN l[j] ELSE l[j + 1]
      <4> HIDE DEF L
      <4> QED BY <2>2, <3>2, <3>3, WithoutOneMore
    <3> HIDE DEF l, w, L
    <3>5. w = SubSeq(l, 1, k - 1) \o SubSeq(l, k + 1, Len(l))
      BY <3>4, OneRemoved
    <3>6. w = drop(l, i)
      BY <2>1, <3>5
    <3> HIDE DEF drop
    <3>7. w = step(l, i)
      BY <3>1, <3>6 DEF k
    <3> QED BY <3>7 DEF w, l, S, T, k
  <2>10. CASE ~(o[k] \notin P /\ L > max /\ u(i) <= L - max)
    <3>1. Len(l) <= max \/ l[k] \in P
      <4> HIDE DEF l, L
      <4> QED BY <1>1, <2>4, <2>5, <2>7, <2>8, <2>10
    <3>2. w = l
      BY <2>3, <2>10
    <3> HIDE DEF l, w, drop, L
    <3>3. w = step(l, i)
      BY <3>1, <3>2 DEF k
    <3> QED BY <3>3 DEF w, l, S, T, k
  <2> QED BY <2>9, <2>10
<1> HIDE DEF step
<1>6. g = F(g)
  <2>1. ASSUME NEW i \in 0..L PROVE g[i] = F(g)[i]
    <3>1. F(g)[i] = IF i = L THEN o ELSE step(g[i + 1], i)
      BY DEF F
    <3>2. CASE i = L
      <4>1. Without(o, {}) = o
        BY WithoutNothing
      <4> QED BY <1>3, <3>1, <3>2, <4>1 DEF g
    <3>3. CASE i # L
      <4>1. i \in 0..L - 1 /\ i + 1 \in 0..L
        BY <1>1, <3>3
      <4>2. g[i] = Without(o, gone(i)) /\ g[i + 1] = Without(o, gone(i + 1))
        BY <4>1 DEF g
      <4> QED BY <1>5, <3>1, <3>3, <4>1, <4>2
    <3> QED BY <3>2, <3>3
  <2> QED BY <2>1 DEF g, F
<1>7. h = F(h)
  BY <1>6
<1>8. TrimLoop(o, P, max) = h[0]
  BY DEF TrimLoop, h, F, step
<1> HIDE DEF h
<1>9. h[L] = g[L]
  BY <1>1, <1>6, <1>7 DEF F
<1>10. ASSUME NEW i \in 0..L - 1, h[i + 1] = g[i + 1] PROVE h[i] = g[i]
  <2>1. i \in 0..L /\ i # L
    BY <1>1
  <2>2. h[i] = step(h[i + 1], i) /\ g[i] = step(g[i + 1], i)
    BY <1>6, <1>7, <2>1 DEF F
  <2> QED BY <1>10, <2>2
<1>11. \A i \in 0..L : h[i] = g[i]
  <2> HIDE DEF L
  <2> QED BY <1>1, <1>9, <1>10, Downward
<1>12. h[0] = Without(o, gone(0))
  BY <1>1, <1>11 DEF g
<1> QED BY <1>3, <1>8, <1>12

(* Trimming leaves a list that fits or protected entries only, and takes   *)
(* the oldest first.                                                       *)
LEMMA TrimIsFair ==
  ASSUME NEW C, NEW o \in Seq(C), Distinct(o), NEW P, NEW max \in Nat
  PROVE  LET gone == Evicted(o, P, max)
             left == Without(o, gone)
         IN  /\ Len(left) <= max \/ \A i \in DOMAIN left : left[i] \in P
             /\ \A i, j \in DOMAIN o :
                   i < j /\ o[i] \in gone /\ o[j] \notin P => o[j] \in gone
<1> DEFINE L    == Len(o)
           u(i) == OpenBehind(o, P, i)
           gone == GoneBehind(o, P, max, 0)
           left == Without(o, gone)
<1>1. L \in Nat /\ DOMAIN o = 1..L /\ 0 \in 0..L
  OBVIOUS
<1>2. /\ \A i \in 0..L : u(i) \in Nat
      /\ \A i, k \in 0..L : i <= k => u(k) <= u(i)
  BY OpenCount
<1>3. gone = Evicted(o, P, max)
  BY GoneStep
<1>4. \A j \in 1..L : o[j] \in gone <=> o[j] \notin P /\ L > max /\ u(j - 1) <= L - max
  <2>1. gone = {o[j] : j \in {j \in 1..L : o[j] \notin P /\ L > max /\ u(j - 1) <= L - max}}
    BY DEF GoneBehind
  <2> HIDE DEF u, gone
  <2> QED BY <1>1, <2>1 DEF Distinct
<1>5. Len(left) = IF L <= max THEN L ELSE IF u(0) <= L - max THEN L - u(0) ELSE max
  BY <1>1, LengthLeft DEF Left
<1>6. \A k \in DOMAIN left : left[k] \notin gone /\ \E i \in DOMAIN o : left[k] = o[i]
  <2> HIDE DEF gone
  <2> QED BY WithoutFacts
<1> HIDE DEF gone, left, u
<1>7. ASSUME ~(Len(left) <= max), NEW k \in DOMAIN left PROVE left[k] \in P
  <2>1. PICK i \in 1..L : left[k] = o[i]
    BY <1>1, <1>6
  <2>2. L > max /\ u(0) <= L - max
    <3> HIDE DEF L
    <3> QED BY <1>1, <1>2, <1>5, <1>7
  <2>3. u(i - 1) <= u(0) /\ u(i - 1) \in Nat /\ u(0) \in Nat
    <3>1. i - 1 \in 0..L /\ 0 <= i - 1
      BY <1>1
    <3> QED BY <1>1, <1>2, <3>1
  <2>4. u(i - 1) <= L - max
    <3> HIDE DEF L
    <3> QED BY <1>1, <2>2, <2>3
  <2> QED BY <1>4, <1>6, <2>1, <2>2, <2>4
<1>8. ASSUME NEW i \in 1..L, NEW j \in 1..L, i < j, o[i] \in gone, o[j] \notin P
      PROVE  o[j] \in gone
  <2>1. L > max /\ u(i - 1) <= L - max
    BY <1>4, <1>8
  <2>2. i - 1 \in 0..L /\ j - 1 \in 0..L /\ i - 1 <= j - 1
    BY <1>1, <1>8
  <2>3. u(j - 1) <= u(i - 1) /\ u(j - 1) \in Nat /\ u(i - 1) \in Nat
    BY <1>2, <2>2
  <2>4. u(j - 1) <= L - max
    <3> HIDE DEF L
    <3> QED BY <1>1, <2>1, <2>3
  <2> QED BY <1>4, <1>8, <2>1, <2>4
<1> QED BY <1>1, <1>3, <1>7, <1>8 DEF left

(* The loops and their closed forms, on every list and on that of a store  *)
(* whose list names nothing twice.                                         *)
LEMMA LoopsOnOrder ==
  ASSUME OrderInv
  PROVE  ListLoopsAgree
<1>1. ASSUME NEW C, NEW o \in Seq(C), Distinct(o), NEW caps \in SUBSET Nat
      PROVE  MovesAs(o, C) /\ TrimsAs(o, C, caps) /\ TrimsWell(o, C, caps)
  <2>1. MovesAs(o, C)
    BY <1>1, FrontAgrees DEF MovesAs
  <2>2. TrimsAs(o, C, caps)
    BY <1>1, TrimAgrees DEF TrimsAs
  <2>3. TrimsWell(o, C, caps)
    <3> SUFFICES ASSUME NEW P \in SUBSET C, NEW max \in caps
                 PROVE  LET gone == Evicted(o, P, max)
                            left == Without(o, gone)
                        IN  /\ Len(left) <= max \/ \A i \in DOMAIN left : left[i] \in P
                            /\ \A i, j \in DOMAIN o :
                                  i < j /\ o[i] \in gone /\ o[j] \notin P => o[j] \in gone
      BY DEF TrimsWell
    <3>1. max \in Nat
      BY <1>1
    <3> QED BY <1>1, <3>1, TrimIsFair
  <2> QED BY <2>1, <2>2, <2>3
<1>2. ASSUME NEW list \in Lists PROVE list \in Seq(Ids) /\ Distinct(list)
  <2>1. PICK n \in 0..Cardinality(Ids) : list \in [1..n -> Ids]
    BY DEF Lists
  <2>2. n \in Nat
    BY <2>1
  <2>3. list \in Seq(Ids)
    BY <2>1, <2>2
  <2> QED BY <2>3 DEF Lists
<1>3. EveryMove /\ EveryTrim /\ EveryTrimWell
  <2>1. 1..MaxList \in SUBSET Nat
    BY MaxListAssumption
  <2> QED BY <1>1, <1>2, <2>1 DEF EveryMove, EveryTrim, EveryTrimWell
<1>4. order \in Seq(Conv) /\ Distinct(order)
  BY DEF OrderInv, OrderSound, Distinct
<1>5. {MaxResident} \in SUBSET Nat
  BY ConstantsAssumption
<1>6. MovesAs(order, Conv) /\ TrimsAs(order, Conv, {MaxResident}) /\ TrimsWell(order, Conv, {MaxResident})
  BY <1>1, <1>4, <1>5
<1> QED BY <1>3, <1>6 DEF ListLoopsAgree

-----------------------------------------------------------------------------
(* The theorems.                                                           *)

LEMMA InitIInv == Init => IInv
<1> SUFFICES ASSUME Init PROVE IInv
  OBVIOUS
<1>1. TypeOK
  BY TypeInit
<1>2. PcInv
  BY ConstantsAssumption DEF Init, PcInv
<1>3. OwnerInv
  BY DEF Init, OwnerInv, InTurn, Claiming
<1>4. AnswerInv
  BY DEF Init, AnswerInv, Busy
<1>5. SnapshotInv
  BY DEF Init, SnapshotInv
<1>6. RowKeepsUp
  BY DEF Init, RowKeepsUp
<1>7. OrderInv
  BY DEF Init, OrderInv, OrderSound
<1> QED BY <1>1, <1>2, <1>3, <1>4, <1>5, <1>6, <1>7 DEF IInv

LEMMA StutterIInv == IInv /\ UNCHANGED vars => IInv'
<1> SUFFICES ASSUME IInv, UNCHANGED vars PROVE IInv'
  OBVIOUS
<1> USE DEF IInv, vars, store, table, throttle, handlers, deleters, ghosts
<1>1. TypeOK'
  BY DEF TypeOK
<1>2. PcInv'
  BY DEF PcInv
<1>3. OwnerInv'
  BY DEF OwnerInv, InTurn, Claiming
<1>4. AnswerInv'
  BY DEF AnswerInv, Answerable, InTurn
<1>5. SnapshotInv'
  BY DEF SnapshotInv, Owes, Writing
<1>6. RowKeepsUp'
  BY DEF RowKeepsUp, Owes, Writing
<1>7. OrderInv'
  BY DEF OrderInv, OrderSound
<1> QED BY <1>1, <1>2, <1>3, <1>4, <1>5, <1>6, <1>7

(***************************************************************************)
(* The inductive invariant holds in every state of the conversation store, *)
(* its handlers, deletions, edits and restarts, for any number of them.    *)
(***************************************************************************)
THEOREM Inductive == Spec => []IInv
<1>1. IInv /\ [Next]_vars => IInv'
  BY TypeStep, PcStep, OwnerStep, AnswerStep, SnapshotStep, RowStep, OrderStep, StutterIInv DEF IInv
<1> QED BY InitIInv, <1>1, PTL DEF Spec

(* Every variable keeps its type.                                          *)
THEOREM TypeCorrect == Spec => []TypeOK
BY Inductive, PTL DEF IInv

(***************************************************************************)
(* Two handlers never have the upstream turn of one conversation open      *)
(* together, unless a turn or claim of it was ended by a goroutine it did  *)
(* not belong to (Continue, Create, ClaimForDeletion).                     *)
(***************************************************************************)
THEOREM TurnsAreExclusive == Spec => []TurnsExclude
<1>1. IInv => TurnsExclude
  <2> SUFFICES ASSUME IInv, NEW g \in Handlers, NEW h \in Handlers,
                      InTurn(g), InTurn(h), hconv[g] = hconv[h], g # h
               PROVE  hconv[g] \in foreign
    BY DEF TurnsExclude
  <2>1. CASE hconv[g] \notin foreign
    <3>1. owner[hconv[g]] = g /\ owner[hconv[h]] = h
      BY <2>1 DEF IInv, OwnerInv
    <3> QED BY <3>1
  <2> QED BY <2>1
<1> QED BY Inductive, <1>1, PTL

(***************************************************************************)
(* A deletion's claim excludes turns and other deletions, with the same    *)
(* exception (ClaimForDeletion, Continue).                                 *)
(***************************************************************************)
THEOREM ClaimsAreExclusive == Spec => []ClaimExcludes
<1>1. IInv => ClaimExcludes
  <2> SUFFICES ASSUME IInv, NEW d \in Deleters, Claiming(d), dconv[d] \notin foreign
               PROVE  /\ status[dconv[d]] = "deleting"
                      /\ \A h \in Handlers : hconv[h] = dconv[d] => ~InTurn(h)
                      /\ \A e \in Deleters \ {d} : Claiming(e) => dconv[e] # dconv[d]
    BY DEF ClaimExcludes
  <2>1. status[dconv[d]] = "deleting" /\ claimant[dconv[d]] = d
    BY DEF IInv, OwnerInv
  <2>2. ASSUME NEW h \in Handlers, hconv[h] = dconv[d], InTurn(h) PROVE FALSE
    <3>1. status[dconv[d]] = "running"
      BY <2>2 DEF IInv, OwnerInv
    <3> QED BY <2>1, <3>1
  <2>3. ASSUME NEW e \in Deleters \ {d}, Claiming(e), dconv[e] = dconv[d] PROVE FALSE
    <3>1. claimant[dconv[d]] = e
      BY <2>3 DEF IInv, OwnerInv
    <3> QED BY <2>1, <3>1
  <2> QED BY <2>1, <2>2, <2>3
<1> QED BY Inductive, <1>1, PTL

(* No step leaves a running conversation without a handler that will end   *)
(* it (abandonConversationTurn, restored rows, restarts).                  *)
THEOREM RunningIsServed == Spec => []RunningHasHandler
<1>1. IInv => RunningHasHandler
  BY DEF IInv, AnswerInv, RunningHasHandler
<1> QED BY Inductive, <1>1, PTL

(* The row of a resident conversation keeps up with it, or a write of it   *)
(* is to come, or the failure is known (persistConversationSnapshot).      *)
THEOREM RowsKeepUp == Spec => []RowKeepsUp
BY Inductive, PTL DEF IInv

(* A snapshot never replaces a row that is newer: persistMu covers the     *)
(* read of the entry and the write of its row.                             *)
THEOREM SnapshotsAreOrdered == Spec => NoStaleOverwrite
<1> DEFINE Keeps == \A h \in Handlers : WriteSnapshot(h) /\ hconv[h] \in fresh \ dropped
                                           => hconv[h] \in fresh'
<1>1. IInv /\ [Next]_vars => [Keeps]_vars
  <2> SUFFICES ASSUME IInv, NEW h \in Handlers, WriteSnapshot(h), hconv[h] \in fresh \ dropped
               PROVE  hconv[h] \in fresh'
    OBVIOUS
  <2>1. h \in current
    BY DEF IInv, SnapshotInv, WriteSnapshot
  <2> QED BY <2>1 DEF WriteSnapshot
<1> QED BY Inductive, <1>1, PTL DEF Spec, NoStaleOverwrite

(***************************************************************************)
(* The recency list names resident conversations only, each one once,      *)
(* through every insertion, eviction, restoration, removal and restart.    *)
(***************************************************************************)
THEOREM ListIsSound == Spec => []OrderSound
BY Inductive, PTL DEF IInv, OrderInv

(***************************************************************************)
(* The closed forms of the recency list are the loops of the source, on    *)
(* every list that names nothing twice, for every id, choice of protected  *)
(* entries and capacity, and on the list of the store in every state; the  *)
(* trimming leaves a list that fits or protected entries only, and takes   *)
(* the oldest first (moveToFrontLocked, trimLocked).                       *)
(***************************************************************************)
THEOREM LoopsAgree == Spec => []ListLoopsAgree
<1>1. IInv => ListLoopsAgree
  BY LoopsOnOrder DEF IInv
<1> QED BY Inductive, <1>1, PTL
============================================================================
