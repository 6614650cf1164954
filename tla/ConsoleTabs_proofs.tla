-------------------------- MODULE ConsoleTabs_proofs --------------------------
(***************************************************************************)
(* Two tabs of the console, for every value of their constants.            *)
(*                                                                         *)
(* The chat workspace: for every number of conversations, turns and loads  *)
(* in flight, and every length of an answer: whatever is answered late,    *)
(* overtaken or aborted, the transcript on screen is the open              *)
(* conversation's own, a turn has the screen for itself, and what a failed *)
(* turn has shown stays, unless nothing of the answer has been stored.     *)
(*                                                                         *)
(* The accounts panel: for every pool of accounts, number of requests and  *)
(* model, in whatever order answers land: an unsaved setting is what was   *)
(* typed last over what was seen, only the operator's own decision throws  *)
(* it away, a request and its button are busy for each other, and a test   *)
(* that is sent is shown in its form.                                      *)
(***************************************************************************)
EXTENDS ChatWorkspace, AccountsPanel, TLAPS

-----------------------------------------------------------------------------
(* The chat workspace: the inductive invariant *)

\* A load or a poll in flight is of the open conversation: one that was superseded
\* (loadRevision, the poll's cancelled flag) is not among them, and a poll runs only
\* while the screen says that a turn goes on elsewhere.
ReadsBelong ==
  \A t \in Reads:
    /\ read[t].pc = "idle" => read[t].kind = "none"
    /\ read[t].pc # "idle" =>
         /\ read[t].of = conv /\ conv # NoConv
         /\ \/ read[t].kind = "open" /\ loading
            \/ read[t].kind = "poll" /\ remote

\* While a conversation loads nothing polls it, and only its newest load counts.
OneOpening ==
  /\ loading => ~remote
  /\ \A t, u \in Reads: read[t].kind = "open" /\ read[u].kind = "open" => t = u

\* The loads are in order.
ReadsAreRight == ReadsBelong /\ OneOpening /\ LoadingHasRead

\* RunHasScreen at every stage of a turn: before its files are read the conversation
\* may still be unnamed, later it is the open one; a turn of a conversation that is
\* not open yet is of one that the server does not know.
TurnHasScreen ==
  Running =>
    /\ run.of \in Convs
    /\ conv = run.of \/ (conv = NoConv /\ shown = Blank)
    /\ ~loading /\ ~failed /\ ~remote
    /\ run.pc \in {"sent", "stream"} => conv = run.of
    /\ run.pc = "stream" => run.into \in Convs
    /\ conv = NoConv => store[run.of].state = "never" /\ run.got.state = "never"

\* No conversation, no transcript; and once an open conversation has been loaded its
\* transcript, an empty one included, is its own.
ScreenIsFilled ==
  /\ conv = NoConv => shown = Blank
  /\ conv # NoConv /\ ~loading /\ ~failed => shown.of = conv \/ shown.moved

\* An edit or a removed message is of some conversation.
ChangeHasConv == change.pc \in {"asked", "answered"} => change.of \in Convs

\* A conversation of the server has a turn, and so has one that a failed turn has
\* read again: its text is one that can be compared.
LiveHasTurn ==
  /\ \A c \in Convs: store[c].state = "live" => store[c].turns > 0
  /\ run.got.state = "live" => run.got.turns > 0

\* What every step keeps.
IInv ==
  /\ TypeOK /\ TranscriptIsOwn
  /\ LoadingHasRead /\ ReadsBelong /\ OneOpening
  /\ TurnHasScreen /\ ScreenIsFilled /\ ChangeHasConv /\ LiveHasTurn

-----------------------------------------------------------------------------
(* The records of the model *)

\* The bounds on turns and answers leave room for one more below them.
LEMMA Lengths ==
  /\ Full \in 0..Full
  /\ \A n \in 0..MaxTurns: n < MaxTurns => n + 1 \in 0..MaxTurns
BY ChatAssumption

\* The fields of the records.
LEMMA FieldTypes ==
  /\ \A s \in Stored: /\ s.turns \in 0..MaxTurns /\ s.text \in 0..Full /\ s.busy \in BOOLEAN
                      /\ s.state \in {"never", "live", "gone"}
  /\ \A x \in Transcripts: /\ x.of \in Ids /\ x.turns \in 0..MaxTurns /\ x.text \in 0..Full
                           /\ x.mine \in BOOLEAN /\ x.moved \in BOOLEAN
  /\ \A r \in ReadRecords: r.of \in Ids /\ r.got \in Stored
  /\ \A r \in RunRecords: /\ r.of \in Ids /\ r.into \in Ids /\ r.got \in Stored
                          /\ r.ok \in BOOLEAN /\ r.aborted \in BOOLEAN
  /\ \A x \in ChangeRecords: x.of \in Ids /\ x.message \in Ids /\ x.got \in Stored
  /\ \A x \in RowRecords: x.of \in Ids /\ x.open \in BOOLEAN
<1>1. \A s \in Stored: /\ s.turns \in 0..MaxTurns /\ s.text \in 0..Full /\ s.busy \in BOOLEAN
                      /\ s.state \in {"never", "live", "gone"}
  BY DEF Stored
<1>2. \A x \in Transcripts: /\ x.of \in Ids /\ x.turns \in 0..MaxTurns /\ x.text \in 0..Full
                           /\ x.mine \in BOOLEAN /\ x.moved \in BOOLEAN
  BY DEF Transcripts
<1>3. \A r \in ReadRecords: r.of \in Ids /\ r.got \in Stored
  BY DEF ReadRecords
<1>4. \A r \in RunRecords: /\ r.of \in Ids /\ r.into \in Ids /\ r.got \in Stored
                          /\ r.ok \in BOOLEAN /\ r.aborted \in BOOLEAN
  BY DEF RunRecords
<1>5. \A x \in ChangeRecords: x.of \in Ids /\ x.message \in Ids /\ x.got \in Stored
  BY DEF ChangeRecords
<1>6. \A x \in RowRecords: x.of \in Ids /\ x.open \in BOOLEAN
  BY DEF RowRecords
<1> QED BY <1>1, <1>2, <1>3, <1>4, <1>5, <1>6

\* What the server does to a conversation makes a conversation of it.
LEMMA StoreRecords ==
  /\ Unborn \in Stored /\ Gone \in Stored
  /\ \A s \in Stored: s.turns < MaxTurns => Begun(s) \in Stored
  /\ \A s \in Stored: s.text < Full => [s EXCEPT !.text = @ + 1] \in Stored
  /\ \A s \in Stored, x \in 0..Full: [s EXCEPT !.text = x, !.busy = FALSE] \in Stored
<1>1. Unborn \in Stored
  BY ChatAssumption DEF Stored, Unborn
<1>2. Gone \in Stored
  BY <1>1 DEF Stored, Gone
<1>3. \A s \in Stored: s.turns < MaxTurns => Begun(s) \in Stored
  BY ChatAssumption DEF Stored, Begun
<1>4. \A s \in Stored: s.text < Full => [s EXCEPT !.text = @ + 1] \in Stored
  BY ChatAssumption DEF Stored
<1>5. \A s \in Stored, x \in 0..Full: [s EXCEPT !.text = x, !.busy = FALSE] \in Stored
  BY DEF Stored
<1> QED BY <1>1, <1>2, <1>3, <1>4, <1>5

\* The stages of a load.
LEMMA ReadRecordsKept ==
  /\ NoRead \in ReadRecords
  /\ \A k \in {"open", "poll"}, c \in Ids: Asked(k, c) \in ReadRecords
  /\ \A r \in ReadRecords, s \in Stored: [r EXCEPT !.pc = "answered", !.got = s] \in ReadRecords
BY StoreRecords DEF ReadRecords, NoRead, Asked, Ids

\* The stages of a turn (performRun).
LEMMA RunRecordsKept ==
  /\ NoRun \in RunRecords
  /\ \A c \in Ids: [NoRun EXCEPT !.pc = "files", !.of = c] \in RunRecords
  /\ \A r \in RunRecords: [r EXCEPT !.aborted = TRUE] \in RunRecords
  /\ \A r \in RunRecords: [r EXCEPT !.pc = "sent"] \in RunRecords
  /\ \A r \in RunRecords: [r EXCEPT !.pc = "settle"] \in RunRecords
  /\ \A r \in RunRecords, c \in Ids: [r EXCEPT !.pc = "stream", !.into = c] \in RunRecords
  /\ \A r \in RunRecords: [r EXCEPT !.pc = "settle", !.ok = TRUE, !.of = r.into] \in RunRecords
  /\ \A r \in RunRecords, s \in Stored: [r EXCEPT !.pc = "settled", !.got = s] \in RunRecords
<1>1. NoRun \in RunRecords
  BY StoreRecords DEF RunRecords, NoRun, Ids
<1>2. \A c \in Ids: [NoRun EXCEPT !.pc = "files", !.of = c] \in RunRecords
  BY <1>1 DEF RunRecords
<1>3. \A r \in RunRecords: [r EXCEPT !.aborted = TRUE] \in RunRecords
  BY DEF RunRecords
<1>4. \A r \in RunRecords: [r EXCEPT !.pc = "sent"] \in RunRecords
  BY DEF RunRecords
<1>5. \A r \in RunRecords: [r EXCEPT !.pc = "settle"] \in RunRecords
  BY DEF RunRecords
<1>6. \A r \in RunRecords, c \in Ids: [r EXCEPT !.pc = "stream", !.into = c] \in RunRecords
  BY DEF RunRecords
<1>7. \A r \in RunRecords: [r EXCEPT !.pc = "settle", !.ok = TRUE, !.of = r.into] \in RunRecords
  BY DEF RunRecords
<1>8. \A r \in RunRecords, s \in Stored: [r EXCEPT !.pc = "settled", !.got = s] \in RunRecords
  BY DEF RunRecords
<1> QED BY <1>1, <1>2, <1>3, <1>4, <1>5, <1>6, <1>7, <1>8

\* The stages of an edit, a removed message and a removed conversation.
LEMMA OtherRecordsKept ==
  /\ NoChange \in ChangeRecords /\ NoRow \in RowRecords
  /\ [NoChange EXCEPT !.pc = "list"] \in ChangeRecords
  /\ \A k \in {"edit", "remove"}, c \in Ids, m \in Ids:
       [kind |-> k, pc |-> "asked", of |-> c, message |-> m, got |-> Unborn] \in ChangeRecords
  /\ \A x \in ChangeRecords, s \in Stored: [x EXCEPT !.pc = "answered", !.got = s] \in ChangeRecords
  /\ \A c \in Ids, b \in BOOLEAN: [pc |-> "asked", of |-> c, open |-> b] \in RowRecords
  /\ \A x \in RowRecords: [x EXCEPT !.pc = "answered"] \in RowRecords
<1>1. NoChange \in ChangeRecords /\ NoRow \in RowRecords
  BY StoreRecords DEF ChangeRecords, RowRecords, NoChange, NoRow, Ids
<1>2. [NoChange EXCEPT !.pc = "list"] \in ChangeRecords
  BY <1>1 DEF ChangeRecords
<1>3. \A k \in {"edit", "remove"}, c \in Ids, m \in Ids:
       [kind |-> k, pc |-> "asked", of |-> c, message |-> m, got |-> Unborn] \in ChangeRecords
  BY StoreRecords DEF ChangeRecords
<1>4. \A x \in ChangeRecords, s \in Stored: [x EXCEPT !.pc = "answered", !.got = s] \in ChangeRecords
  BY DEF ChangeRecords
<1>5. \A c \in Ids, b \in BOOLEAN: [pc |-> "asked", of |-> c, open |-> b] \in RowRecords
  BY DEF RowRecords
<1>6. \A x \in RowRecords: [x EXCEPT !.pc = "answered"] \in RowRecords
  BY DEF RowRecords
<1> QED BY <1>1, <1>2, <1>3, <1>4, <1>5, <1>6

\* What loads, deltas, turns and overlays put on screen are transcripts.
LEMMA TranscriptsKept ==
  /\ Blank \in Transcripts
  /\ \A c \in Ids, s \in Stored: Messages(c, s) \in Transcripts
  /\ \A x \in Transcripts: x.text < Full => [x EXCEPT !.text = @ + 1] \in Transcripts
  /\ \A i \in Ids, n \in 0..MaxTurns, b \in BOOLEAN:
       [of |-> i, turns |-> n, text |-> 0, mine |-> TRUE, moved |-> b] \in Transcripts
  /\ \A x \in Transcripts, n \in 0..Full, b \in BOOLEAN:
       [x EXCEPT !.text = n, !.moved = b] \in Transcripts
  /\ \A c \in Ids, s \in Stored, n \in 0..Full: [Messages(c, s) EXCEPT !.text = n] \in Transcripts
<1>1. Blank \in Transcripts
  BY ChatAssumption DEF Transcripts, Blank, Ids
<1>2. \A c \in Ids, s \in Stored: Messages(c, s) \in Transcripts
  BY DEF Transcripts, Stored, Messages, Blank
<1>3. \A x \in Transcripts: x.text < Full => [x EXCEPT !.text = @ + 1] \in Transcripts
  BY ChatAssumption DEF Transcripts
<1>4. \A i \in Ids, n \in 0..MaxTurns, b \in BOOLEAN:
       [of |-> i, turns |-> n, text |-> 0, mine |-> TRUE, moved |-> b] \in Transcripts
  BY ChatAssumption DEF Transcripts
<1>5. \A x \in Transcripts, n \in 0..Full, b \in BOOLEAN:
       [x EXCEPT !.text = n, !.moved = b] \in Transcripts
  BY DEF Transcripts
<1>6. \A c \in Ids, s \in Stored, n \in 0..Full: [Messages(c, s) EXCEPT !.text = n] \in Transcripts
  BY DEF Messages, Blank, Transcripts, Stored
<1> QED BY <1>1, <1>2, <1>3, <1>4, <1>5, <1>6

-----------------------------------------------------------------------------
(* Every step keeps every part of the invariant *)

\* Every value keeps its type.
LEMMA TypeStep == IInv /\ [Next]_vars => TypeOK'
<1> SUFFICES ASSUME IInv, [Next]_vars PROVE TypeOK'
  OBVIOUS
<1>1. ASSUME NEW t \in Reads, NEW c \in Convs, Open(t, c) PROVE TypeOK'
  BY <1>1, ReadRecordsKept, TranscriptsKept
  DEF Open, Ids, Opened, Persisted, Only, TypeOK, IInv
<1>2. ASSUME NEW t \in Reads, Reload(t) PROVE TypeOK'
  BY <1>2, ReadRecordsKept, RunRecordsKept, OtherRecordsKept, TranscriptsKept
  DEF Reload, Ids, Only, Superseded, TypeOK, IInv
<1>3. ASSUME New PROVE TypeOK'
  BY <1>3, ReadRecordsKept, TranscriptsKept
  DEF New, Ids, Cleared, Persisted, Superseded, TypeOK, IInv
<1>4. ASSUME Stop PROVE TypeOK'
  BY <1>4, RunRecordsKept DEF Stop, TypeOK, IInv, screen
<1>5. ASSUME StartEdit PROVE TypeOK'
  BY <1>5, FieldTypes DEF StartEdit, TypeOK, IInv
<1>6. ASSUME CancelEdit PROVE TypeOK'
  BY <1>6 DEF CancelEdit, Ids, TypeOK, IInv
<1>7. ASSUME CommitEdit PROVE TypeOK'
  BY <1>7, OtherRecordsKept DEF CommitEdit, TypeOK, IInv, screen
<1>8. ASSUME RemoveMessage PROVE TypeOK'
  BY <1>8, FieldTypes, OtherRecordsKept DEF RemoveMessage, TypeOK, IInv, screen
<1>9. ASSUME NEW c \in Convs, Perform(c) PROVE TypeOK'
  BY <1>9, RunRecordsKept DEF Perform, Ids, TypeOK, IInv, screen
<1>10. ASSUME NEW c \in Convs, Remove(c) PROVE TypeOK'
  BY <1>10, OtherRecordsKept DEF Remove, Ids, TypeOK, IInv, screen
<1>11. ASSUME NEW c \in Convs, OtherTurn(c) PROVE TypeOK'
  BY <1>11, StoreRecords DEF OtherTurn, TypeOK, IInv, screen
<1>12. ASSUME NEW c \in Convs, ServerGoes(c) PROVE TypeOK'
  BY <1>12, StoreRecords DEF ServerGoes, TypeOK, IInv, screen
<1>13. ASSUME NEW c \in Convs, ServerEnds(c) PROVE TypeOK'
  <2>1. PICK text \in {Full, store[c].text}:
          store' = [store EXCEPT ![c].text = text, ![c].busy = FALSE]
    BY <1>13 DEF ServerEnds
  <2>2. store[c] \in Stored
    BY DEF IInv, TypeOK
  <2>3. text \in 0..Full
    BY <2>1, <2>2, Lengths, FieldTypes
  <2>4. store' \in [Convs -> Stored]
    <3>1. store' = [store EXCEPT ![c] = [store[c] EXCEPT !.text = text, !.busy = FALSE]]
      BY <2>1
    <3> QED BY <2>2, <2>3, <3>1, StoreRecords DEF IInv, TypeOK
  <2> QED BY <1>13, <2>4 DEF ServerEnds, screen, IInv, TypeOK
<1>14. ASSUME NEW c \in Convs, OtherDelete(c) PROVE TypeOK'
  BY <1>14, StoreRecords DEF OtherDelete, TypeOK, IInv, screen
<1>15. ASSUME NEW t \in Reads, AnswerRead(t) PROVE TypeOK'
  BY <1>15, ReadRecordsKept DEF AnswerRead, Ids, ReadsBelong, TypeOK, IInv, screen
<1>16. ASSUME NEW t \in Reads, LandFound(t) PROVE TypeOK'
  BY <1>16, ReadRecordsKept, FieldTypes, TranscriptsKept
  DEF LandFound, Landed, Superseded, Persisted, TypeOK, IInv
<1>17. ASSUME NEW t \in Reads, LandMissing(t) PROVE TypeOK'
  BY <1>17, ReadRecordsKept, TranscriptsKept
  DEF LandMissing, Ids, Superseded, Persisted, TypeOK, IInv
<1>18. ASSUME NEW t \in Reads, LandError(t) PROVE TypeOK'
  BY <1>18, ReadRecordsKept DEF LandError, Persisted, TypeOK, IInv
<1>19. ASSUME NEW t \in Reads, Poll(t) PROVE TypeOK'
  BY <1>19, ReadRecordsKept DEF Poll, TypeOK, IInv, screen
<1>20. ASSUME FilesRead PROVE TypeOK'
  <2>1. CASE run.aborted
    BY <1>20, <2>1, RunRecordsKept DEF FilesRead, IInv, TypeOK
  <2>2. CASE ~run.aborted
    <3>1. /\ shown.turns < MaxTurns
          /\ shown' = [of |-> IF conv = NoConv THEN run.of ELSE shown.of,
                       turns |-> shown.turns + 1, text |-> 0,
                       mine |-> TRUE, moved |-> shown.moved]
      BY <1>20, <2>2 DEF FilesRead
    <3>2. shown.of \in Ids /\ shown.turns \in 0..MaxTurns /\ shown.moved \in BOOLEAN /\ run.of \in Ids
      BY FieldTypes DEF IInv, TypeOK
    <3>3. shown.turns + 1 \in 0..MaxTurns
      BY <3>1, <3>2, Lengths
    <3>4. (IF conv = NoConv THEN run.of ELSE shown.of) \in Ids
      BY <3>2
    <3>5. shown' \in Transcripts
      BY <3>1, <3>2, <3>3, <3>4, TranscriptsKept
    <3>6. run' \in RunRecords /\ conv' \in Ids /\ saved' \in Ids
      BY <1>20, <2>2, RunRecordsKept, <3>2 DEF FilesRead, Persisted, IInv, TypeOK
    <3> QED BY <1>20, <3>5, <3>6 DEF FilesRead, IInv, TypeOK
  <2> QED BY <2>1, <2>2
<1>21. ASSUME ServerTakes PROVE TypeOK'
  <2>1. PICK c \in Convs: /\ store[c].turns < MaxTurns
                          /\ store' = [store EXCEPT ![c] = Begun(@)]
                          /\ run' = [run EXCEPT !.pc = "stream", !.into = c]
    BY <1>21 DEF ServerTakes
  <2>2. store[c] \in Stored /\ Begun(store[c]) \in Stored
    BY <2>1, StoreRecords DEF IInv, TypeOK
  <2>3. store' \in [Convs -> Stored] /\ run' \in RunRecords
    BY <2>1, <2>2, RunRecordsKept DEF IInv, TypeOK, Ids
  <2> QED BY <1>21, <2>3 DEF ServerTakes, screen, IInv, TypeOK
<1>22. ASSUME Delta PROVE TypeOK'
  BY <1>22, TranscriptsKept DEF Delta, TypeOK, IInv
<1>23. ASSUME RunSucceeds PROVE TypeOK'
  BY <1>23, RunRecordsKept, FieldTypes, TranscriptsKept, Lengths
  DEF RunSucceeds, Persisted, TypeOK, IInv
<1>24. ASSUME FilesFail PROVE TypeOK'
  BY <1>24, RunRecordsKept DEF FilesFail, TypeOK, IInv, screen
<1>25. ASSUME RunFails PROVE TypeOK'
  BY <1>25, RunRecordsKept DEF RunFails, TypeOK, IInv, screen
<1>26. ASSUME SettleAsked PROVE TypeOK'
  BY <1>26, RunRecordsKept DEF SettleAsked, TurnHasScreen, Running, TypeOK, IInv, screen
<1>27. ASSUME SettleLands PROVE TypeOK'
  BY <1>27, RunRecordsKept, FieldTypes, TranscriptsKept
  DEF SettleLands, Overlaid, TypeOK, IInv
<1>28. ASSUME SettleFails PROVE TypeOK'
  BY <1>28, RunRecordsKept DEF SettleFails, TypeOK, IInv, screen
<1>29. ASSUME AnswerChange PROVE TypeOK'
  BY <1>29, OtherRecordsKept DEF AnswerChange, ChangeHasConv, TypeOK, IInv, screen
<1>30. ASSUME LandChange PROVE TypeOK'
  BY <1>30, OtherRecordsKept, FieldTypes, TranscriptsKept DEF LandChange, Ids, TypeOK, IInv
<1>31. ASSUME ChangeEnds PROVE TypeOK'
  BY <1>31, OtherRecordsKept DEF ChangeEnds, TypeOK, IInv, screen
<1>32. ASSUME AnswerRemove PROVE TypeOK'
  BY <1>32, StoreRecords, OtherRecordsKept DEF AnswerRemove, TypeOK, IInv, screen
<1>33. ASSUME LandRemove PROVE TypeOK'
  BY <1>33, ReadRecordsKept, OtherRecordsKept, TranscriptsKept
  DEF LandRemove, Ids, Cleared, Persisted, Superseded, TypeOK, IInv, screen
<1>34. ASSUME RemoveFails PROVE TypeOK'
  BY <1>34, OtherRecordsKept DEF RemoveFails, TypeOK, IInv, screen
<1>35. CASE UNCHANGED vars
  BY <1>35 DEF vars, screen, TypeOK, IInv
<1> QED
  BY <1>1, <1>2, <1>3, <1>4, <1>5, <1>6, <1>7, <1>8, <1>9, <1>10, <1>11, <1>12, <1>13,
     <1>14, <1>15, <1>16, <1>17, <1>18, <1>19, <1>20, <1>21, <1>22, <1>23, <1>24, <1>25,
     <1>26, <1>27, <1>28, <1>29, <1>30, <1>31, <1>32, <1>33, <1>34, <1>35
  DEF Next, Operator, Server, Reading, Turn, Changing, Removing

\* The loads stay in order: whatever opens, clears or reloads the screen supersedes
\* those in flight, and a turn begins only when none is left.
LEMMA ReadsStep == IInv /\ [Next]_vars => ReadsAreRight'
<1> SUFFICES ASSUME IInv, [Next]_vars PROVE ReadsAreRight'
  OBVIOUS
<1>1. ASSUME NEW t \in Reads, NEW c \in Convs, Open(t, c) PROVE ReadsAreRight'
  BY <1>1, ChatAssumption
  DEF Open, Opened, Only, Asked, NoRead, ReadsAreRight, ReadsBelong, OneOpening,
      LoadingHasRead
<1>2. ASSUME NEW t \in Reads, Reload(t) PROVE ReadsAreRight'
  BY <1>2
  DEF Reload, Only, Asked, Superseded, NoRead, ReadsAreRight, ReadsBelong, OneOpening,
      LoadingHasRead
<1>3. ASSUME New PROVE ReadsAreRight'
  BY <1>3
  DEF New, Cleared, Superseded, NoRead, ReadsAreRight, ReadsBelong, OneOpening,
      LoadingHasRead
<1>4. ASSUME NEW c \in Convs, Perform(c) PROVE ReadsAreRight'
  BY <1>4
  DEF Perform, ComposerOffered, IInv, ReadsAreRight, ReadsBelong, OneOpening,
      LoadingHasRead, screen
<1>5. ASSUME NEW t \in Reads, AnswerRead(t) PROVE ReadsAreRight'
  BY <1>5
  DEF AnswerRead, IInv, TypeOK, ReadsAreRight, ReadsBelong, OneOpening, LoadingHasRead,
      Running, screen
<1>6. ASSUME NEW t \in Reads, LandFound(t) PROVE ReadsAreRight'
  BY <1>6
  DEF LandFound, Landed, Superseded, NoRead, IInv, TypeOK, ReadsAreRight, ReadsBelong,
      OneOpening, LoadingHasRead, Running
<1>7. ASSUME NEW t \in Reads, LandMissing(t) PROVE ReadsAreRight'
  BY <1>7
  DEF LandMissing, Superseded, NoRead, ReadsAreRight, ReadsBelong, OneOpening,
      LoadingHasRead
<1>8. ASSUME NEW t \in Reads, LandError(t) PROVE ReadsAreRight'
  BY <1>8
  DEF LandError, NoRead, IInv, TypeOK, ReadsAreRight, ReadsBelong, OneOpening,
      LoadingHasRead, TurnHasScreen, Running
<1>9. ASSUME NEW t \in Reads, Poll(t) PROVE ReadsAreRight'
  BY <1>9
  DEF Poll, Asked, IInv, ReadsAreRight, ReadsBelong, OneOpening, LoadingHasRead, Running,
      screen
<1>10. ASSUME FilesRead PROVE ReadsAreRight'
  BY <1>10
  DEF FilesRead, IInv, ReadsAreRight, ReadsBelong, OneOpening, LoadingHasRead,
      TurnHasScreen, Running
<1>11. ASSUME RunSucceeds PROVE ReadsAreRight'
  BY <1>11
  DEF RunSucceeds, StreamDone, IInv, ReadsAreRight, ReadsBelong, OneOpening, LoadingHasRead,
      TurnHasScreen, Running
<1>12. ASSUME LandRemove PROVE ReadsAreRight'
  BY <1>12
  DEF LandRemove, Cleared, Superseded, NoRead, screen, IInv, ReadsAreRight, ReadsBelong,
      OneOpening, LoadingHasRead, Running
<1>13. ASSUME SettleLands PROVE ReadsAreRight'
  BY <1>13
  DEF SettleLands, IInv, ReadsAreRight, ReadsBelong, OneOpening, LoadingHasRead,
      TurnHasScreen, Running
<1>14. ASSUME Stop PROVE ReadsAreRight'
  BY <1>14
  DEF Stop, screen, IInv, ReadsAreRight, ReadsBelong, OneOpening, LoadingHasRead, Running
<1>15. ASSUME ServerTakes PROVE ReadsAreRight'
  BY <1>15
  DEF ServerTakes, screen, IInv, ReadsAreRight, ReadsBelong, OneOpening, LoadingHasRead,
      Running
<1>16. ASSUME FilesFail PROVE ReadsAreRight'
  BY <1>16
  DEF FilesFail, screen, IInv, ReadsAreRight, ReadsBelong, OneOpening, LoadingHasRead,
      Running
<1>17. ASSUME RunFails PROVE ReadsAreRight'
  BY <1>17
  DEF RunFails, screen, IInv, ReadsAreRight, ReadsBelong, OneOpening, LoadingHasRead,
      Running
<1>18. ASSUME SettleAsked PROVE ReadsAreRight'
  BY <1>18
  DEF SettleAsked, screen, IInv, ReadsAreRight, ReadsBelong, OneOpening, LoadingHasRead,
      Running
<1>19. ASSUME SettleFails PROVE ReadsAreRight'
  BY <1>19
  DEF SettleFails, screen, IInv, ReadsAreRight, ReadsBelong, OneOpening, LoadingHasRead,
      Running
<1>20. CASE UNCHANGED <<conv, loading, failed, remote, read, Running>>
  BY <1>20 DEF IInv, ReadsAreRight, ReadsBelong, OneOpening, LoadingHasRead
<1> QED
  BY <1>1, <1>2, <1>3, <1>4, <1>5, <1>6, <1>7, <1>8, <1>9, <1>10, <1>11, <1>12, <1>13,
     <1>14, <1>15, <1>16, <1>17, <1>18, <1>19, <1>20
  DEF Running, Next, Operator, Server, Reading, Turn, Changing, Removing, vars, screen,
      StartEdit, CancelEdit, CommitEdit, RemoveMessage, Remove, OtherTurn, ServerGoes,
      ServerEnds, OtherDelete, Delta, AnswerChange, LandChange, ChangeEnds, AnswerRemove,
      RemoveFails

\* A turn keeps the screen: the rows, the composer and the edits are closed while it
\* runs, and what was asked before it does not land in it.
LEMMA TurnStep == IInv /\ [Next]_vars => TurnHasScreen'
<1> SUFFICES ASSUME IInv, [Next]_vars PROVE TurnHasScreen'
  OBVIOUS
<1>1. ASSUME NEW t \in Reads, NEW c \in Convs, Open(t, c) PROVE TurnHasScreen'
  BY <1>1 DEF Open, RowsOffered, TurnHasScreen, Running
<1>2. ASSUME NEW t \in Reads, Reload(t) PROVE TurnHasScreen'
  BY <1>2 DEF Reload, NoRun, TurnHasScreen, Running
<1>3. ASSUME New PROVE TurnHasScreen'
  BY <1>3 DEF New, TurnHasScreen, Running
<1>4. ASSUME Stop PROVE TurnHasScreen'
  BY <1>4 DEF Stop, IInv, TurnHasScreen, Running, screen
<1>5. ASSUME NEW c \in Convs, Perform(c) PROVE TurnHasScreen'
  BY <1>5
  DEF Perform, ComposerOffered, NoRun, Unborn, IInv, TurnHasScreen, ScreenIsFilled, screen
<1>6. ASSUME NEW c \in Convs, OtherTurn(c) PROVE TurnHasScreen'
  BY <1>6 DEF OtherTurn, IInv, TurnHasScreen, Running, screen
<1>7. ASSUME NEW c \in Convs, ServerGoes(c) PROVE TurnHasScreen'
  BY <1>7 DEF ServerGoes, IInv, TurnHasScreen, Running, screen
<1>8. ASSUME NEW c \in Convs, ServerEnds(c) PROVE TurnHasScreen'
  BY <1>8 DEF ServerEnds, IInv, TypeOK, TurnHasScreen, Running, screen
<1>9. ASSUME NEW c \in Convs, OtherDelete(c) PROVE TurnHasScreen'
  BY <1>9 DEF OtherDelete, IInv, TurnHasScreen, Running, screen
<1>10. ASSUME NEW t \in Reads, LandFound(t) PROVE TurnHasScreen'
  BY <1>10 DEF LandFound, IInv, TurnHasScreen, ReadsBelong, Running
<1>11. ASSUME NEW t \in Reads, LandMissing(t) PROVE TurnHasScreen'
  BY <1>11 DEF LandMissing, TurnHasScreen, Running
<1>12. ASSUME NEW t \in Reads, LandError(t) PROVE TurnHasScreen'
  BY <1>12 DEF LandError, IInv, TurnHasScreen, ReadsBelong, Running
<1>13. ASSUME FilesRead PROVE TurnHasScreen'
  <2>1. CASE run.aborted
    BY <1>13, <2>1 DEF FilesRead, NoRun, TurnHasScreen, Running
  <2>2. CASE ~run.aborted
    <3>1. run.pc = "files" /\ run' = [run EXCEPT !.pc = "sent"] /\ conv' = run.of
      BY <1>13, <2>2 DEF FilesRead
    <3>2. run \in RunRecords
      BY DEF IInv, TypeOK
    <3>3. run'.of = run.of /\ run'.pc = "sent"
      BY <3>1, <3>2 DEF RunRecords
    <3>4. run.of \in Convs /\ ~loading /\ ~failed /\ ~remote
      BY <3>1 DEF IInv, TurnHasScreen, Running
    <3> QED BY <1>13, <3>1, <3>3, <3>4, ChatAssumption DEF FilesRead, TurnHasScreen
  <2> QED BY <2>1, <2>2
<1>14. ASSUME ServerTakes PROVE TurnHasScreen'
  BY <1>14, ChatAssumption DEF ServerTakes, IInv, TurnHasScreen, Running, screen
<1>15. ASSUME Delta PROVE TurnHasScreen'
  BY <1>15 DEF Delta, IInv, TurnHasScreen, Running
<1>16. ASSUME RunSucceeds PROVE TurnHasScreen'
  BY <1>16, ChatAssumption DEF RunSucceeds, StreamDone, IInv, TurnHasScreen, Running
<1>17. ASSUME FilesFail PROVE TurnHasScreen'
  BY <1>17 DEF FilesFail, IInv, TurnHasScreen, Running, screen
<1>18. ASSUME RunFails PROVE TurnHasScreen'
  BY <1>18 DEF RunFails, IInv, TurnHasScreen, Running, screen
<1>19. ASSUME SettleAsked PROVE TurnHasScreen'
  BY <1>19 DEF SettleAsked, IInv, TurnHasScreen, Running, screen
<1>20. ASSUME SettleLands PROVE TurnHasScreen'
  BY <1>20 DEF SettleLands, NoRun, TurnHasScreen, Running
<1>21. ASSUME SettleFails PROVE TurnHasScreen'
  BY <1>21 DEF SettleFails, NoRun, TurnHasScreen, Running
<1>22. ASSUME LandChange PROVE TurnHasScreen'
  BY <1>22, ChatAssumption DEF LandChange, IInv, TurnHasScreen, Running, ChangeHasConv
<1>23. ASSUME LandRemove PROVE TurnHasScreen'
  BY <1>23 DEF LandRemove, screen, IInv, TurnHasScreen, Running
<1>24. ASSUME AnswerRemove PROVE TurnHasScreen'
  BY <1>24 DEF AnswerRemove, IInv, TurnHasScreen, Running, screen
<1>25. CASE UNCHANGED <<store, conv, shown, loading, failed, remote, run>>
  BY <1>25 DEF IInv, TurnHasScreen, Running
<1> QED
  BY <1>1, <1>2, <1>3, <1>4, <1>5, <1>6, <1>7, <1>8, <1>9, <1>10, <1>11, <1>12, <1>13,
     <1>14, <1>15, <1>16, <1>17, <1>18, <1>19, <1>20, <1>21, <1>22, <1>23, <1>24, <1>25
  DEF Running, Next, Operator, Server, Reading, Turn, Changing, Removing, vars, screen,
      StartEdit, CancelEdit, CommitEdit, RemoveMessage, Remove, AnswerRead, Poll,
      AnswerChange, ChangeEnds, RemoveFails

\* Only a load, a turn or an edit of the open conversation writes its transcript.
LEMMA ScreenStep == IInv /\ [Next]_vars => (TranscriptIsOwn /\ ScreenIsFilled)'
<1> SUFFICES ASSUME IInv, [Next]_vars PROVE (TranscriptIsOwn /\ ScreenIsFilled)'
  OBVIOUS
<1>1. ASSUME NEW t \in Reads, NEW c \in Convs, Open(t, c)
      PROVE  (TranscriptIsOwn /\ ScreenIsFilled)'
  BY <1>1 DEF Open, Opened, Blank, TranscriptIsOwn, ScreenIsFilled
<1>2. ASSUME NEW t \in Reads, Reload(t) PROVE (TranscriptIsOwn /\ ScreenIsFilled)'
  <2>1. shown' = Blank /\ conv' = saved /\ (loading' <=> saved # NoConv)
    BY <1>2 DEF Reload
  <2>2. ~(Blank.turns > 0)
    BY DEF Blank
  <2> QED BY <2>1, <2>2 DEF TranscriptIsOwn, ScreenIsFilled
<1>3. ASSUME New PROVE (TranscriptIsOwn /\ ScreenIsFilled)'
  BY <1>3 DEF New, Cleared, Blank, TranscriptIsOwn, ScreenIsFilled
<1>4. ASSUME NEW t \in Reads, LandFound(t) PROVE (TranscriptIsOwn /\ ScreenIsFilled)'
  BY <1>4 DEF LandFound, Messages, IInv, TranscriptIsOwn, ScreenIsFilled, ReadsBelong
<1>5. ASSUME NEW t \in Reads, LandMissing(t) PROVE (TranscriptIsOwn /\ ScreenIsFilled)'
  BY <1>5 DEF LandMissing, Blank, TranscriptIsOwn, ScreenIsFilled
<1>6. ASSUME NEW t \in Reads, LandError(t) PROVE (TranscriptIsOwn /\ ScreenIsFilled)'
  BY <1>6 DEF LandError, IInv, TranscriptIsOwn, ScreenIsFilled
<1>7. ASSUME FilesRead PROVE (TranscriptIsOwn /\ ScreenIsFilled)'
  BY <1>7, ChatAssumption
  DEF FilesRead, IInv, TranscriptIsOwn, ScreenIsFilled, TurnHasScreen, Running
<1>8. ASSUME Delta PROVE (TranscriptIsOwn /\ ScreenIsFilled)'
  BY <1>8, ChatAssumption
  DEF Delta, IInv, TranscriptIsOwn, ScreenIsFilled, TurnHasScreen, Running
<1>9. ASSUME RunSucceeds PROVE (TranscriptIsOwn /\ ScreenIsFilled)'
  <2>1. /\ run.into \in Convs /\ conv = run.of /\ ~loading /\ ~failed
        /\ conv' = run.into /\ loading' = loading /\ failed' = failed
        /\ shown' = [shown EXCEPT !.text = IF shown.mine THEN Full ELSE @,
                                  !.moved = @ \/ run.into # run.of]
    BY <1>9 DEF RunSucceeds, StreamDone, IInv, TurnHasScreen, Running
  <2>2. /\ shown'.of = shown.of /\ shown'.moved = (shown.moved \/ run.into # run.of)
    BY <2>1 DEF IInv
  <2>3. run.of # NoConv
    BY <1>9, ChatAssumption DEF RunSucceeds, StreamDone, IInv, TurnHasScreen, Running
  <2>4. shown'.of = conv' \/ shown'.moved
    BY <2>1, <2>2, <2>3 DEF IInv, ScreenIsFilled
  <2> QED BY <2>1, <2>4, ChatAssumption DEF TranscriptIsOwn, ScreenIsFilled
<1>10. ASSUME SettleLands PROVE (TranscriptIsOwn /\ ScreenIsFilled)'
  BY <1>10
  DEF SettleLands, Overlaid, Messages, IInv, TranscriptIsOwn, ScreenIsFilled, TurnHasScreen,
      Running
<1>11. ASSUME LandChange PROVE (TranscriptIsOwn /\ ScreenIsFilled)'
  BY <1>11, ChatAssumption
  DEF LandChange, Messages, IInv, TranscriptIsOwn, ScreenIsFilled, ChangeHasConv
<1>12. ASSUME LandRemove PROVE (TranscriptIsOwn /\ ScreenIsFilled)'
  BY <1>12 DEF LandRemove, Cleared, Blank, screen, IInv, TranscriptIsOwn, ScreenIsFilled
<1>13. CASE UNCHANGED <<conv, shown, loading, failed>>
  BY <1>13 DEF IInv, TranscriptIsOwn, ScreenIsFilled
<1> QED
  BY <1>1, <1>2, <1>3, <1>4, <1>5, <1>6, <1>7, <1>8, <1>9, <1>10, <1>11, <1>12, <1>13
  DEF Running, Next, Operator, Server, Reading, Turn, Changing, Removing, vars, screen,
      Stop, StartEdit, CancelEdit, CommitEdit, RemoveMessage, Perform, Remove, OtherTurn,
      ServerGoes, ServerEnds, OtherDelete, AnswerRead, Poll, ServerTakes, FilesFail,
      RunFails, SettleAsked, SettleFails, AnswerChange, ChangeEnds, AnswerRemove,
      RemoveFails

\* An edit keeps its conversation.
LEMMA ChangeStep == IInv /\ [Next]_vars => ChangeHasConv'
<1> SUFFICES ASSUME IInv, [Next]_vars PROVE ChangeHasConv'
  OBVIOUS
<1>1. ASSUME NEW t \in Reads, Reload(t) PROVE ChangeHasConv'
  BY <1>1 DEF Reload, NoChange, ChangeHasConv
<1>2. ASSUME CommitEdit PROVE ChangeHasConv'
  BY <1>2 DEF CommitEdit, Ids, IInv, TypeOK, ChangeHasConv
<1>3. ASSUME RemoveMessage PROVE ChangeHasConv'
  BY <1>3 DEF RemoveMessage, Ids, IInv, TypeOK, ChangeHasConv
<1>4. ASSUME AnswerChange PROVE ChangeHasConv'
  BY <1>4 DEF AnswerChange, IInv, ChangeHasConv
<1>5. ASSUME LandChange PROVE ChangeHasConv'
  BY <1>5 DEF LandChange, ChangeHasConv
<1>6. ASSUME ChangeEnds PROVE ChangeHasConv'
  BY <1>6 DEF ChangeEnds, NoChange, ChangeHasConv
<1>7. CASE UNCHANGED change
  BY <1>7 DEF IInv, ChangeHasConv
<1> QED
  BY <1>1, <1>2, <1>3, <1>4, <1>5, <1>6, <1>7
  DEF Running, Next, Operator, Server, Reading, Turn, Changing, Removing, vars, screen,
      Open, New, Stop, StartEdit, CancelEdit, Perform, Remove, OtherTurn, ServerGoes,
      ServerEnds, OtherDelete, AnswerRead, LandFound, LandMissing, LandError, Poll,
      FilesRead, ServerTakes, Delta, RunSucceeds, FilesFail, RunFails, SettleAsked,
      SettleLands, SettleFails, AnswerRemove, LandRemove, RemoveFails

\* A conversation that the server has does not lose its turns.
LEMMA LiveStep == IInv /\ [Next]_vars => LiveHasTurn'
<1> SUFFICES ASSUME IInv, [Next]_vars PROVE LiveHasTurn'
  OBVIOUS
<1>1. ASSUME NEW t \in Reads, Reload(t) PROVE LiveHasTurn'
  BY <1>1 DEF Reload, NoRun, Unborn, IInv, LiveHasTurn
<1>2. ASSUME Stop PROVE LiveHasTurn'
  BY <1>2 DEF Stop, IInv, LiveHasTurn
<1>3. ASSUME NEW c \in Convs, Perform(c) PROVE LiveHasTurn'
  BY <1>3 DEF Perform, NoRun, Unborn, IInv, LiveHasTurn
<1>4. ASSUME NEW c \in Convs, OtherTurn(c) PROVE LiveHasTurn'
  BY <1>4 DEF OtherTurn, Begun, Stored, IInv, TypeOK, LiveHasTurn
<1>5. ASSUME NEW c \in Convs, ServerGoes(c) PROVE LiveHasTurn'
  BY <1>5 DEF ServerGoes, IInv, LiveHasTurn
<1>6. ASSUME NEW c \in Convs, ServerEnds(c) PROVE LiveHasTurn'
  BY <1>6 DEF ServerEnds, IInv, TypeOK, LiveHasTurn
<1>7. ASSUME NEW c \in Convs, OtherDelete(c) PROVE LiveHasTurn'
  BY <1>7 DEF OtherDelete, Gone, IInv, LiveHasTurn
<1>8. ASSUME FilesRead PROVE LiveHasTurn'
  <2>1. store' = store /\ (run' = NoRun \/ run' = [run EXCEPT !.pc = "sent"])
    BY <1>8 DEF FilesRead
  <2>2. run'.got.state = "live" => run'.got = run.got
    BY <2>1 DEF IInv, TypeOK, RunRecords, NoRun, Unborn
  <2> QED BY <2>1, <2>2 DEF IInv, LiveHasTurn
<1>9. ASSUME ServerTakes PROVE LiveHasTurn'
  BY <1>9 DEF ServerTakes, Begun, Stored, IInv, TypeOK, LiveHasTurn
<1>10. ASSUME RunSucceeds PROVE LiveHasTurn'
  BY <1>10 DEF RunSucceeds, IInv, LiveHasTurn
<1>11. ASSUME FilesFail PROVE LiveHasTurn'
  BY <1>11 DEF FilesFail, IInv, LiveHasTurn
<1>12. ASSUME RunFails PROVE LiveHasTurn'
  BY <1>12 DEF RunFails, IInv, LiveHasTurn
<1>13. ASSUME SettleAsked PROVE LiveHasTurn'
  BY <1>13 DEF SettleAsked, IInv, LiveHasTurn, TurnHasScreen, Running
<1>14. ASSUME SettleLands PROVE LiveHasTurn'
  BY <1>14 DEF SettleLands, NoRun, Unborn, IInv, LiveHasTurn
<1>15. ASSUME SettleFails PROVE LiveHasTurn'
  BY <1>15 DEF SettleFails, NoRun, Unborn, IInv, LiveHasTurn
<1>16. ASSUME AnswerRemove PROVE LiveHasTurn'
  BY <1>16 DEF AnswerRemove, Gone, IInv, LiveHasTurn
<1>17. CASE UNCHANGED <<store, run>>
  BY <1>17 DEF IInv, LiveHasTurn
<1> QED
  BY <1>1, <1>2, <1>3, <1>4, <1>5, <1>6, <1>7, <1>8, <1>9, <1>10, <1>11, <1>12, <1>13,
     <1>14, <1>15, <1>16, <1>17
  DEF Running, Next, Operator, Server, Reading, Turn, Changing, Removing, vars, screen,
      Open, New, StartEdit, CancelEdit, CommitEdit, RemoveMessage, Remove, AnswerRead,
      LandFound, LandMissing, LandError, Poll, Delta, AnswerChange, LandChange, ChangeEnds,
      LandRemove, RemoveFails

\* The initial states: the screen of a page that has just been loaded.
LEMMA InitHolds == Init => IInv
<1> SUFFICES ASSUME Init PROVE IInv
  OBVIOUS
<1> USE ChatAssumption DEF Init
<1>1. /\ conv = saved /\ shown = Blank /\ ~failed /\ ~remote /\ (loading <=> saved # NoConv)
      /\ run = NoRun /\ change = NoChange
  OBVIOUS
<1>2. \/ saved = NoConv /\ read = [t \in Reads |-> NoRead]
      \/ saved # NoConv /\ \E t \in Reads:
           read = [u \in Reads |-> IF u = t THEN Asked("open", saved) ELSE NoRead]
  OBVIOUS
<1>3. TypeOK
  <2>1. store \in [Convs -> Stored]
    <3>1. {[state |-> "live", turns |-> 1, text |-> Full, busy |-> b]: b \in BOOLEAN} \subseteq Stored
      BY DEF Stored
    <3> QED BY <3>1, StoreRecords
  <2>2. read \in [Reads -> ReadRecords]
    BY <1>2, ReadRecordsKept DEF Ids
  <2> QED
    BY <1>1, <2>1, <2>2, TranscriptsKept, RunRecordsKept, OtherRecordsKept DEF TypeOK, Ids
<1>4. ReadsBelong /\ OneOpening /\ LoadingHasRead
  BY <1>1, <1>2 DEF ReadsBelong, OneOpening, LoadingHasRead, NoRead, Asked
<1>5. TurnHasScreen /\ ChangeHasConv
  BY <1>1 DEF TurnHasScreen, ChangeHasConv, Running, NoRun, NoChange
<1>6. TranscriptIsOwn /\ ScreenIsFilled
  BY <1>1 DEF TranscriptIsOwn, ScreenIsFilled, Blank
<1>7. LiveHasTurn
  <2>1. \A c \in Convs: store[c].state = "live" => store[c].turns > 0
    BY DEF Unborn
  <2> QED BY <1>1, <2>1 DEF LiveHasTurn, NoRun, Unborn
<1> QED BY <1>3, <1>4, <1>5, <1>6, <1>7 DEF IInv

-----------------------------------------------------------------------------
(* The theorems *)

\* The invariant holds in every state that can be reached.
THEOREM Inductive == Spec => []IInv
<1>1. IInv /\ [Next]_vars => IInv'
  BY TypeStep, ReadsStep, TurnStep, ScreenStep, ChangeStep, LiveStep DEF IInv, ReadsAreRight
<1> QED BY InitHolds, <1>1, PTL DEF Spec

\* Every value has its type, an answer is never shown longer than it was sent, and a
\* screen that loads is waiting for a load in flight.
THEOREM SoundAlways == Spec => []Sound
<1>1. IInv => Sound
  BY DEF IInv, Sound
<1> QED BY Inductive, <1>1, PTL

\* The transcript on screen is the open conversation's own (or that of the turn whose
\* conversation the server has begun anew), whatever is answered late.
THEOREM OwnTranscript == Spec => []TranscriptIsOwn
<1>1. IInv => TranscriptIsOwn
  BY DEF IInv
<1> QED BY Inductive, <1>1, PTL

\* While a turn runs its conversation stays open, and nothing loads or polls.
THEOREM ScreenOfTheTurn == Spec => []RunHasScreen
<1>1. IInv => RunHasScreen
  BY DEF IInv, TurnHasScreen, RunHasScreen
<1> QED BY Inductive, <1>1, PTL

\* The overlay of a failed turn never shows less than the stream has shown: a copy
\* that ends with an answer replaces the one on screen only when it is as long.
LEMMA OverlaidKeeps ==
  ASSUME IInv, SettleLands, ~run.ok, shown.mine, run.got.text > 0
  PROVE  shown'.text >= shown.text
<1>1. run.got \in Stored /\ shown \in Transcripts /\ run.got.turns > 0
  BY FieldTypes DEF IInv, TypeOK, LiveHasTurn, SettleLands
<1>2. run.got.text \in Int /\ shown.text \in Int
  BY <1>1, FieldTypes
<1>3. shown' = Overlaid(run.got)
  BY DEF SettleLands
<1>4. CASE shown.text > run.got.text
  <2>1. shown' = [Messages(run.of, run.got) EXCEPT !.text = shown.text]
    BY <1>1, <1>3, <1>4 DEF Overlaid
  <2>2. shown'.text = shown.text
    BY <2>1 DEF Messages
  <2> QED BY <1>2, <2>2
<1>5. CASE ~(shown.text > run.got.text)
  <2>1. shown' = Messages(run.of, run.got)
    BY <1>3, <1>5 DEF Overlaid
  <2>2. shown'.text = run.got.text
    BY <2>1 DEF Messages
  <2> QED BY <1>2, <1>5, <2>2
<1> QED BY <1>4, <1>5

\* What a failed turn has shown of its answer is still there when the turn is over,
\* whether its conversation could be read again or not; but for a copy that ends with
\* the question.
THEOREM PartialSurvives == Spec => PartialKept
<1>1. IInv /\ [Next]_vars =>
        [~run.ok /\ shown.mine /\ (SettleFails \/ (SettleLands /\ run.got.text > 0)) =>
           shown'.text >= shown.text]_vars
  <2> SUFFICES ASSUME IInv, ~run.ok, shown.mine,
                      SettleFails \/ (SettleLands /\ run.got.text > 0)
               PROVE  shown'.text >= shown.text
    OBVIOUS
  <2>1. CASE SettleLands /\ run.got.text > 0
    BY <2>1, OverlaidKeeps
  <2>2. CASE SettleFails
    <3>1. shown.text \in Int
      BY FieldTypes DEF IInv, TypeOK
    <3> QED BY <2>2, <3>1 DEF SettleFails, screen
  <2> QED BY <2>1, <2>2
<1> QED BY Inductive, <1>1, PTL DEF Spec, PartialKept
-----------------------------------------------------------------------------
(* The accounts panel: the inductive invariant *)

OfSpace == {"default", "models"}
OfKey == {"save", "activate"}
OfAccount == {"spaces", "delete", "start"} \cup Entering

\* What a request in flight carries: no slot that is free is anybody's, the key fits
\* the request, and what was read is there to land.
Carries(x) ==
  /\ x.pc = "idle" => x.op = "none" /\ ~x.own
  /\ x.op \in OfSpace => x.key \in Spaces
  /\ x.op \in OfKey => x.key \in Keys
  /\ x.op \in OfAccount => x.key \in Accounts
  /\ x.pc = "read" => x.got \in Pools

RequestsFit == \A t \in Tasks: Carries(task[t]) /\ (task[t].own => panel # NoPanel)

\* Buttons and requests of the panel: one is busy exactly for the other, and there is
\* one request for it.
BusyFits(q, ts) ==
  /\ \A op \in q.busy: \E t \in Tasks: ts[t].own /\ ts[t].op = op
  /\ \A t \in Tasks: ts[t].own /\ ts[t].op \in Slow => ts[t].op \in q.busy
  /\ \A t, u \in Tasks: ts[t].own /\ ts[u].own /\ ts[t].op = ts[u].op /\ ts[t].op \in Slow => t = u

ButtonsFit == panel # NoPanel => BusyFits(panel, task)

\* A draft that is being saved is still what was sent, or has been replaced by what
\* was read.
SentIsDraft(q, p, ts) ==
  \A t \in Tasks, k \in Keys:
    ts[t].own /\ ts[t].op = "save" /\ ts[t].sent[k] # None /\ Unsaved(q, p, k) =>
      q.edits[k] = ts[t].sent[k]

SavesFit == panel # NoPanel => SentIsDraft(panel, payload, task)

FlagFits == flag = (OnScreen /\ Dirty(panel, payload))

AccountsInv ==
  /\ AccountsTypeOK /\ RequestsFit /\ TestFormFits /\ ButtonsFit /\ FlagFits
  /\ DraftIsTyped /\ SavesFit
-----------------------------------------------------------------------------
(* What the operators of the panel return *)

Chosen == [account: Accounts \cup {None}, space: Spaces \cup {None}]
Tried == [account: Accounts \cup {None}, space: Spaces \cup {None}, model: Models \cup {AutoModel}]

\* A form of the quick test that fits a payload.
TriedFits(f, p) ==
  /\ f.space # None => f.space \in SpacesOf(p, f.account)
  /\ f.space = None => SpacesOf(p, f.account) = {}
  /\ f.model # AutoModel => f.space # None /\ f.model \in p.manual[f.space]

\* The panels as a set of records, with the records of their forms named.
LEMMA PanelFields ==
  Panels = [edits: Drafts, busy: SUBSET Slow, chosen: Chosen, tried: Tried]
BY DEF Panels, Chosen, Tried

\* The first of a set is one of it, or None where there is none.
LEMMA FirstOfFacts ==
  ASSUME NEW S
  PROVE  (S # {} => FirstOf(S) \in S) /\ (S = {} => FirstOf(S) = None)
BY DEF FirstOf

\* The settings as a payload shows them are drafts, complete where they are listed.
LEMMA BaselineTypes ==
  ASSUME NEW p \in Pools
  PROVE  Baseline(p) \in Drafts /\ \A k \in Keys \cap p.listed: Baseline(p)[k] \in Setting
<1>1. ASSUME NEW k \in Keys, k \in p.listed PROVE Baseline(p)[k] \in Setting
  <2>1. p.setting[k] \in Setting /\ 1 \in Numbers
    BY PanelAssumption DEF Pools
  <2>2. [p.setting[k] EXCEPT !["concurrency"] = 1] \in Setting
    BY <2>1 DEF Setting
  <2> QED BY <1>1, <2>1, <2>2 DEF Baseline
<1>2. ASSUME NEW k \in Keys, k \notin p.listed PROVE Baseline(p)[k] = None
  BY <1>2 DEF Baseline
<1>3. Baseline(p) = [k \in Keys |-> Baseline(p)[k]]
  BY DEF Baseline
<1> QED BY <1>1, <1>2, <1>3 DEF Drafts

\* The account that a key belongs to.
LEMMA AccountOfTypes ==
  ASSUME NEW k \in Keys PROVE AccountOf(k) \in Accounts
BY PanelAssumption DEF AccountOf, Keys

\* The workspace of an account that is opened: one of its own, or none if it has none.
LEMMA AmongFits ==
  ASSUME NEW p \in Pools, NEW a \in Accounts \cup {None},
         NEW asked \in Spaces \cup {None}, NEW active \in Spaces \cup {None}
  PROVE  LET s == Among(p, a, asked, active) IN
         /\ s \in Spaces \cup {None}
         /\ s # None => s \in SpacesOf(p, a)
         /\ s = None => SpacesOf(p, a) = {}
<1>1. None \notin Spaces /\ None \notin Accounts
  BY PanelAssumption DEF Keys
<1>2. SpacesOf(p, a) \subseteq Spaces
  BY DEF SpacesOf
<1>3. /\ SpacesOf(p, a) # {} => FirstOf(SpacesOf(p, a)) \in SpacesOf(p, a)
      /\ SpacesOf(p, a) = {} => FirstOf(SpacesOf(p, a)) = None
  BY FirstOfFacts
<1>4. \/ Among(p, a, asked, active) \in SpacesOf(p, a)
      \/ Among(p, a, asked, active) = FirstOf(SpacesOf(p, a))
  BY DEF Among
<1> QED BY <1>1, <1>2, <1>3, <1>4

\* The account the panel opens with is one of the accounts, or none.
LEMMA PreferredTypes ==
  ASSUME NEW p \in Pools PROVE Preferred(p) \in Accounts \cup {None}
<1>1. p.activeAccount \in Accounts \cup {None}
  BY DEF Pools
<1> QED BY <1>1, FirstOfFacts DEF Preferred

\* The account that stays open after a refresh, or that takes its place, is an account or none.
LEMMA FitAccountTypes ==
  ASSUME NEW p \in Pools, NEW a \in Accounts \cup {None}
  PROVE  FitAccount(p, a) \in Accounts \cup {None}
BY PreferredTypes DEF FitAccount

\* The workspace an account opens with is a workspace or none.
LEMMA JumpTypes ==
  ASSUME NEW p \in Pools, NEW a \in Accounts \cup {None}
  PROVE  ActiveOf(p, a) \in Spaces \cup {None} /\ JumpOf(p, a) \in Spaces \cup {None}
<1>1. p.active \in Spaces \cup {None}
  BY DEF Pools
<1>2. SpacesOf(p, a) \subseteq Spaces
  BY DEF SpacesOf
<1> QED BY <1>1, <1>2, FirstOfFacts DEF ActiveOf, JumpOf

\* The account and the workspace that are open after a refresh are a choice of the panel.
LEMMA ChooseTypes ==
  ASSUME NEW p \in Pools, NEW a \in Accounts \cup {None}, NEW s \in Spaces \cup {None}
  PROVE  Choose(p, a, s) \in Chosen
<1>1. p.active \in Spaces \cup {None}
  BY DEF Pools
<1>2. Among(p, a, s, p.active) \in Spaces \cup {None}
  BY <1>1, AmongFits
<1> QED BY <1>2 DEF Choose, Chosen

\* Whatever the form showed before, it fits the payload once its effects have run.
LEMMA TryFits ==
  ASSUME NEW p \in Pools, NEW a \in Accounts \cup {None}, NEW s \in Spaces \cup {None},
         NEW m \in Models \cup {AutoModel}
  PROVE  Try(p, a, s, m) \in Tried /\ TriedFits(Try(p, a, s, m), p)
<1> DEFINE fit == Among(p, a, s, ActiveOf(p, a))
<1>1. /\ fit \in Spaces \cup {None}
      /\ fit # None => fit \in SpacesOf(p, a)
      /\ fit = None => SpacesOf(p, a) = {}
  BY JumpTypes, AmongFits
<1> HIDE DEF fit
<1>2. Try(p, a, s, m) = [account |-> a, space |-> fit, model |-> FitModel(p, fit, m)]
  BY DEF Try, fit
<1>3. /\ FitModel(p, fit, m) \in Models \cup {AutoModel}
      /\ FitModel(p, fit, m) # AutoModel => fit # None /\ FitModel(p, fit, m) \in p.manual[fit]
  BY DEF FitModel
<1> QED BY <1>1, <1>2, <1>3 DEF Tried, TriedFits

\* Opening an account touches neither drafts nor buttons.
LEMMA OpenedTypes ==
  ASSUME NEW q \in Panels, NEW p \in Pools, NEW a \in Accounts \cup {None}
  PROVE  LET r == OpenedAccount(q, p, a) IN
         /\ r \in Panels /\ r.edits = q.edits /\ r.busy = q.busy /\ TriedFits(r.tried, p)
<1>1. q.chosen \in Chosen /\ q.tried \in Tried
  BY PanelFields
<1>2. q.chosen.space \in Spaces \cup {None} /\ q.tried.space \in Spaces \cup {None}
      /\ q.tried.model \in Models \cup {AutoModel}
  BY <1>1 DEF Chosen, Tried
<1> DEFINE c == IF a = q.chosen.account THEN q.chosen ELSE Choose(p, a, q.chosen.space)
           f == Try(p, a, q.tried.space, q.tried.model)
<1>3. c \in Chosen
  BY <1>1, <1>2, ChooseTypes
<1>4. f \in Tried /\ TriedFits(f, p)
  BY <1>2, TryFits
<1>5. OpenedAccount(q, p, a) = [q EXCEPT !.chosen = c, !.tried = f]
  BY DEF OpenedAccount
<1> HIDE DEF c, f
<1> QED BY <1>3, <1>4, <1>5, PanelFields

\* The panel after an account has been entered: drafts and buttons stay, and the form fits.
LEMMA PopulatedTypes ==
  ASSUME NEW q \in Panels, NEW p \in Pools, NEW a \in Accounts, NEW jump \in Spaces \cup {None}
  PROVE  LET r == Populated(q, p, a, jump) IN
         /\ r \in Panels /\ r.edits = q.edits /\ r.busy = q.busy /\ TriedFits(r.tried, p)
<1> DEFINE c == IF a = q.chosen.account THEN [account |-> a, space |-> jump]
                ELSE Choose(p, a, jump)
           o == OpenedAccount(q, p, a)
<1>1. c \in Chosen
  BY ChooseTypes DEF Chosen
<1>2. o \in Panels /\ o.edits = q.edits /\ o.busy = q.busy /\ TriedFits(o.tried, p)
  BY OpenedTypes
<1>3. Populated(q, p, a, jump) = [o EXCEPT !.chosen = c]
  BY DEF Populated
<1> HIDE DEF c, o
<1> QED BY <1>1, <1>2, <1>3, PanelFields

\* The end of a request frees its button and touches nothing else.
LEMMA FreeTypes ==
  ASSUME NEW q \in Panels, NEW x \in TaskRecords
  PROVE  /\ Free(q, x) \in Panels /\ Free(q, x).edits = q.edits
         /\ Free(q, x).tried = q.tried /\ Free(q, x).busy = q.busy \ {x.op}
BY PanelFields DEF Free

\* The drafts after a refresh are drafts.
LEMMA RefreshedTypes ==
  ASSUME NEW q \in Panels, NEW old, NEW p \in Pools
  PROVE  Refreshed(q, old, p) \in Drafts
<1>1. q.edits \in Drafts /\ Baseline(p) \in Drafts
  BY PanelFields, BaselineTypes
<1> QED BY <1>1 DEF Refreshed, Drafts

\* The panel that takes a new payload keeps its buttons and has a form that fits.
LEMMA AdoptedTypes ==
  ASSUME NEW q \in Panels, NEW old, NEW p \in Pools
  PROVE  LET r == Adopted(q, old, p) IN
         /\ r \in Panels /\ r.edits = Refreshed(q, old, p) /\ r.busy = q.busy
         /\ TriedFits(r.tried, p)
<1>1. q.chosen \in Chosen /\ q.tried \in Tried
  BY PanelFields
<1>2. /\ q.chosen.space \in Spaces \cup {None} /\ q.tried.space \in Spaces \cup {None}
      /\ q.tried.model \in Models \cup {AutoModel}
      /\ q.chosen.account \in Accounts \cup {None} /\ q.tried.account \in Accounts \cup {None}
  BY <1>1 DEF Chosen, Tried
<1> DEFINE e == Refreshed(q, old, p)
           c == Choose(p, FitAccount(p, q.chosen.account), q.chosen.space)
           f == Try(p, FitAccount(p, q.tried.account), q.tried.space, q.tried.model)
<1>3. e \in Drafts
  BY RefreshedTypes
<1>4. c \in Chosen
  BY <1>2, FitAccountTypes, ChooseTypes
<1>5. f \in Tried /\ TriedFits(f, p)
  BY <1>2, FitAccountTypes, TryFits
<1>6. Adopted(q, old, p) = [q EXCEPT !.edits = e, !.chosen = c, !.tried = f]
  BY DEF Adopted
<1>7. e = Refreshed(q, old, p)
  OBVIOUS
<1> HIDE DEF e, c, f
<1> QED BY <1>3, <1>4, <1>5, <1>6, <1>7, PanelFields

\* A panel that is mounted has no draft and no busy button.
LEMMA MountedTypes ==
  ASSUME NEW p \in Pools
  PROVE  /\ Mounted(p) \in Panels /\ Mounted(p).edits = Baseline(p) /\ Mounted(p).busy = {}
         /\ TriedFits(Mounted(p).tried, p)
<1> DEFINE a == Preferred(p)
           c == Choose(p, a, None)
           f == Try(p, a, None, DefaultModel)
<1>1. a \in Accounts \cup {None} /\ DefaultModel \in Models \cup {AutoModel}
  BY PreferredTypes, PanelAssumption
<1>2. c \in Chosen
  BY <1>1, ChooseTypes
<1>3. f \in Tried /\ TriedFits(f, p)
  BY <1>1, TryFits
<1>4. Mounted(p) = [edits |-> Baseline(p), busy |-> {}, chosen |-> c, tried |-> f]
  BY DEF Mounted
<1> HIDE DEF c, f
<1> QED BY <1>2, <1>3, <1>4, BaselineTypes, PanelFields
\* What a request that ends leaves: its button free, and only the drafts a save sent changed.
LEMMA DoneTypes ==
  ASSUME NEW q \in Panels, NEW p \in Pools, TriedFits(q.tried, p),
         NEW x \in TaskRecords, Carries(x), x.own
  PROVE  LET r == Done(q, p, x) IN
         /\ r \in Panels /\ TriedFits(r.tried, p) /\ r.busy = q.busy \ {x.op}
         /\ r.edits = IF x.op = "save" THEN ClearedEdits(q.edits, p, x.sent) ELSE q.edits
<1>1. x.sent \in Drafts /\ x.jump \in Spaces \cup {None} /\ q.edits \in Drafts /\ q.busy \subseteq Slow
  BY PanelFields DEF TaskRecords
<1>2. CASE x.op = "save"
  <2> DEFINE e == ClearedEdits(q.edits, p, x.sent)
             o == [q EXCEPT !.edits = e]
  <2>1. e \in Drafts
    BY <1>1, BaselineTypes DEF Drafts, ClearedEdits
  <2>2. Done(q, p, x) = Free(o, x)
    BY <1>2 DEF Done, Entering
  <2> HIDE DEF e
  <2>3. o \in Panels /\ o.tried = q.tried /\ o.busy = q.busy /\ o.edits = e
    BY <2>1, PanelFields
  <2> HIDE DEF o
  <2>4. Done(q, p, x) \in Panels /\ Done(q, p, x).tried = q.tried
        /\ Done(q, p, x).busy = q.busy \ {x.op} /\ Done(q, p, x).edits = e
    BY <2>2, <2>3, FreeTypes
  <2> QED BY <1>2, <2>4 DEF e
<1>3. CASE x.op = "start"
  <2>1. x.key \in Accounts
    BY <1>3 DEF Carries, OfAccount
  <2> DEFINE o == OpenedAccount(q, p, x.key)
  <2>2. o \in Panels /\ o.edits = q.edits /\ o.busy = q.busy /\ TriedFits(o.tried, p)
    BY <2>1, OpenedTypes
  <2>3. Done(q, p, x) = Free(o, x)
    BY <1>3 DEF Done, Entering
  <2> HIDE DEF o
  <2> QED BY <1>3, <2>2, <2>3, FreeTypes
<1>4. CASE x.op = "activate"
  <2>1. AccountOf(x.key) \in Accounts
    BY <1>4, AccountOfTypes DEF Carries, OfKey
  <2>2. Done(q, p, x) = Populated(q, p, AccountOf(x.key), x.jump)
    BY <1>4 DEF Done, Entering
  <2>3. x.op \notin q.busy
    BY <1>1, <1>4 DEF Slow, Entering
  <2> QED BY <1>1, <1>4, <2>1, <2>2, <2>3, PopulatedTypes
<1>5. CASE x.op \in Entering
  <2>1. x.key \in Accounts
    BY <1>5 DEF Carries, OfAccount
  <2> DEFINE o == Populated(q, p, x.key, x.jump)
  <2>2. o \in Panels /\ o.edits = q.edits /\ o.busy = q.busy /\ TriedFits(o.tried, p)
    BY <1>1, <2>1, PopulatedTypes
  <2>3. Done(q, p, x) = Free(o, x) /\ x.op # "save"
    BY <1>5 DEF Done, Entering
  <2> HIDE DEF o
  <2> QED BY <2>2, <2>3, FreeTypes
<1>6. CASE x.op \notin {"save", "start", "activate"} \cup Entering
  <2>1. Done(q, p, x) = Free(q, x)
    BY <1>6 DEF Done
  <2> QED BY <1>6, <2>1, FreeTypes
<1> QED BY <1>2, <1>3, <1>4, <1>5, <1>6

-----------------------------------------------------------------------------
(* The server *)

\* The pool without some of its keys is a pool.
LEMMA WithoutTypes ==
  ASSUME NEW p \in Pools, NEW gone PROVE Without(p, gone) \in Pools
<1> DEFINE l == p.listed \ gone
           s == [k \in Keys |-> IF k \in gone THEN Unset ELSE p.setting[k]]
           m == [w \in Spaces |-> IF w \in gone THEN {} ELSE p.manual[w]]
           d == [a \in Accounts |-> IF p.default[a] \in gone THEN None ELSE p.default[a]]
<1>1. /\ p.listed \subseteq Keys /\ p.setting \in [Keys -> Setting]
      /\ p.manual \in [Spaces -> SUBSET Models] /\ p.default \in [Accounts -> Spaces \cup {None}]
  BY DEF Pools
<1>2. l \subseteq Keys /\ s \in [Keys -> Setting]
  <2>1. Unset \in Setting
    BY PanelAssumption DEF Unset, Setting
  <2> QED BY <1>1, <2>1
<1>3. m \in [Spaces -> SUBSET Models] /\ d \in [Accounts -> Spaces \cup {None}]
  BY <1>1
<1>4. Without(p, gone) = [p EXCEPT !.listed = l, !.setting = s, !.manual = m, !.default = d]
  BY DEF Without
<1> HIDE DEF l, s, m, d
<1> QED BY <1>2, <1>3, <1>4 DEF Pools

\* A save leaves a pool.
LEMMA SavedTypes ==
  ASSUME NEW p \in Pools, NEW sent \in Drafts PROVE Saved(p, sent) \in Pools
<1> DEFINE set == [k \in Keys |-> IF sent[k] # None THEN sent[k] ELSE p.setting[k]]
           a == IF p.activeAccount # None /\ set[p.activeAccount]["disabled"] = 1
                THEN None ELSE p.activeAccount
<1>1. p.setting \in [Keys -> Setting] /\ p.activeAccount \in Accounts \cup {None}
  BY DEF Pools
<1>2. set \in [Keys -> Setting] /\ a \in Accounts \cup {None}
  BY <1>1 DEF Drafts
<1>3. Saved(p, sent) = [p EXCEPT !.setting = set, !.activeAccount = a]
  BY DEF Saved
<1> HIDE DEF set, a
<1> QED BY <1>2, <1>3 DEF Pools

\* A deletion leaves a pool.
LEMMA DeletedTypes ==
  ASSUME NEW p \in Pools, NEW a PROVE Deleted(p, a) \in Pools
<1> DEFINE rest == Without(p, {a} \cup SpacesOf(p, a))
<1>1. rest \in Pools
  BY WithoutTypes
<1>2. Deleted(p, a) = IF p.activeAccount # a THEN rest
                      ELSE [rest EXCEPT !.activeAccount = None, !.active = None]
  BY DEF Deleted
<1> HIDE DEF rest
<1> QED BY <1>1, <1>2 DEF Pools

\* A listing of workspaces leaves a pool.
LEMMA ListedTypes ==
  ASSUME NEW p \in Pools, NEW a \in Keys, NEW found \in SUBSET Spaces
  PROVE  Listed(p, a, found) \in Pools
<1> DEFINE rest == Without(p, SpacesOf(p, a) \ found)
           l == rest.listed \cup {a} \cup found
           d == [rest.default EXCEPT ![a] = IF @ = None THEN FirstOf(found) ELSE @]
<1>1. rest \in Pools
  BY WithoutTypes
<1>2. Listed(p, a, found) = [rest EXCEPT !.listed = l, !.default = d]
  BY DEF Listed
<1>3. l \subseteq Keys
  BY <1>1 DEF Pools, Keys
<1>4. d \in [Accounts -> Spaces \cup {None}]
  BY <1>1, FirstOfFacts DEF Pools
<1> HIDE DEF rest, l, d
<1> QED BY <1>1, <1>2, <1>3, <1>4 DEF Pools

\* An activation leaves a pool.
LEMMA ActivatedTypes ==
  ASSUME NEW p \in Pools, NEW a \in Accounts, NEW s \in Spaces \cup {None}
  PROVE  [p EXCEPT !.activeAccount = a, !.active = s] \in Pools
BY DEF Pools

\* So does a save of whatever it is about.
LEMMA SavesTypes ==
  ASSUME NEW p \in Pools, NEW x \in TaskRecords, NEW r \in Saves(p, x) PROVE r \in Pools
<1>1. x.sent \in Drafts
  BY DEF TaskRecords
<1>2. CASE r = Saved(p, x.sent)
  BY <1>1, <1>2, SavedTypes
<1>3. ASSUME NEW k, NEW own \in Setting, r = Saved(p, [x.sent EXCEPT ![k] = own])
      PROVE  r \in Pools
  <2>1. [x.sent EXCEPT ![k] = own] \in Drafts
    BY <1>1 DEF Drafts
  <2> QED BY <1>3, <2>1, SavedTypes
<1> QED BY <1>2, <1>3 DEF Saves

\* Whatever a call does, it leaves a pool.
LEMMA AfterTypes ==
  ASSUME NEW p \in Pools, NEW x \in TaskRecords, Carries(x), NEW r \in After(p, x)
  PROVE  r \in Pools
<1>2. CASE x.op = "save"
  BY <1>2, SavesTypes DEF After, Entering
<1>3. CASE x.op = "default"
  BY <1>3, PanelAssumption DEF After, Entering, Carries, OfSpace, Pools
<1>4. CASE x.op = "models"
  BY <1>4 DEF After, Entering, Carries, OfSpace, Pools
<1>5. CASE x.op = "spaces"
  BY <1>5, ListedTypes DEF After, Entering, Carries, OfAccount, SubsetsOf, Keys
<1>6. CASE x.op = "activate"
  <2> DEFINE s == IF x.key \in Spaces THEN x.key ELSE p.default[x.key]
  <2>1. x.key \in Keys /\ AccountOf(x.key) \in Accounts
    BY <1>6, AccountOfTypes DEF Carries, OfKey
  <2>2. s \in Spaces \cup {None}
    BY <2>1 DEF Pools, Keys
  <2>3. r = [p EXCEPT !.activeAccount = AccountOf(x.key), !.active = s]
    BY <1>6 DEF After, Entering, Activated
  <2> HIDE DEF s
  <2> QED BY <2>1, <2>2, <2>3, ActivatedTypes
<1>7. CASE x.op = "delete"
  BY <1>7, DeletedTypes DEF After, Entering
<1>8. CASE x.op = "start"
  BY <1>8 DEF After, Entering, Carries, OfAccount, Pools, Keys
<1>9. CASE x.op \in Entering
  <2>1. x.key \in Accounts /\ x.key \in Keys
    BY <1>9 DEF Carries, OfAccount, Keys
  <2>2. PICK found \in SubsetsOf(x.key) \ {{}} :
          r = [Listed(p, x.key, found) EXCEPT !.activeAccount = x.key, !.active = FirstOf(found)]
    BY <1>9 DEF After, Entering
  <2>3. found \in SUBSET Spaces /\ FirstOf(found) \in Spaces \cup {None}
    BY FirstOfFacts DEF SubsetsOf
  <2> QED BY <2>1, <2>2, <2>3, ListedTypes, ActivatedTypes
<1>10. CASE x.op \notin {"save", "default", "models", "spaces", "activate", "delete", "start"} \cup Entering
  BY <1>10 DEF After, Entering
<1> QED BY <1>2, <1>3, <1>4, <1>5, <1>6, <1>7, <1>8, <1>9, <1>10
-----------------------------------------------------------------------------
(* What every step leaves on screen *)

\* A panel, a payload, what was typed and the requests, as a render may find them.
GoodScreen(q, p, entered, ts) ==
  /\ q \in Panels \cup {NoPanel} /\ p \in Pools /\ entered \in Drafts
  /\ ts \in [Tasks -> TaskRecords]
  /\ \A t \in Tasks: Carries(ts[t]) /\ (ts[t].own => q # NoPanel)
  /\ q # NoPanel => /\ TriedFits(q.tried, p) /\ BusyFits(q, ts) /\ SentIsDraft(q, p, ts)
                    /\ \A k \in Keys: Unsaved(q, p, k) => q.edits[k] = entered[k]

\* The invariant says of the current state what a render has to find.
LEMMA ScreenNow ==
  ASSUME AccountsInv PROVE GoodScreen(panel, payload, typed, task)
<1>1. panel # NoPanel => TriedFits(panel.tried, payload)
  BY DEF AccountsInv, TestFormFits, OnScreen, TriedFits
<1>2. panel # NoPanel => /\ BusyFits(panel, task) /\ SentIsDraft(panel, payload, task)
                         /\ \A k \in Keys: Unsaved(panel, payload, k) => panel.edits[k] = typed[k]
  BY DEF AccountsInv, ButtonsFit, SavesFit, DraftIsTyped, OnScreen
<1> QED BY <1>1, <1>2 DEF GoodScreen, AccountsInv, AccountsTypeOK, RequestsFit

\* A render of a panel and a payload that fit leaves the invariant.
LEMMA RenderStep ==
  ASSUME NEW q, NEW p, NEW entered, RenderTyped(q, p, entered),
         GoodScreen(q, p, entered, task'),
         pool' \in Pools, changes' \in 0 .. MaxChanges
  PROVE  AccountsInv'
<1>1. payload' = p /\ panel' = q /\ flag' = (q # NoPanel /\ Dirty(q, p))
  BY DEF RenderTyped
<1>2. typed' = [k \in Keys |-> IF q # NoPanel /\ Unsaved(q, p, k) THEN entered[k] ELSE None]
  BY DEF RenderTyped
<1>3. typed' \in Drafts
  BY <1>2 DEF GoodScreen, Drafts
<1>4. flag' \in BOOLEAN /\ FlagFits'
  BY <1>1, Zenon DEF FlagFits, OnScreen, Dirty, Unsaved
<1>5. AccountsTypeOK'
  BY <1>1, <1>3, <1>4 DEF GoodScreen, AccountsTypeOK
<1>6. RequestsFit' /\ ButtonsFit' /\ SavesFit'
  BY <1>1 DEF GoodScreen, RequestsFit, ButtonsFit, SavesFit
<1>7. TestFormFits'
  BY <1>1 DEF GoodScreen, TestFormFits, TriedFits, OnScreen
<1>8. DraftIsTyped'
  BY <1>1, <1>2 DEF GoodScreen, DraftIsTyped, OnScreen
<1> QED BY <1>4, <1>5, <1>6, <1>7, <1>8 DEF AccountsInv

\* So does a render where nothing new is typed or sent.
LEMMA RenderAgain ==
  ASSUME NEW q, NEW p, Render(q, p), GoodScreen(q, p, typed, task'),
         pool' \in Pools, changes' \in 0 .. MaxChanges
  PROVE  AccountsInv'
BY RenderStep DEF Render

\* The operator moves about the panel: drafts and buttons stay, or the drafts go.
LEMMA MoveStep ==
  ASSUME AccountsInv, OnScreen, NEW r \in Panels, Render(r, payload), UNCHANGED <<pool, changes, task>>,
         TriedFits(r.tried, payload), r.busy = panel.busy,
         r.edits = panel.edits \/ r.edits = Baseline(payload)
  PROVE  AccountsInv'
<1>1. GoodScreen(panel, payload, typed, task) /\ panel # NoPanel
  BY ScreenNow DEF OnScreen
<1>2. r # NoPanel
  BY PoolsAssumption
<1>3. \A k \in Keys: Unsaved(r, payload, k) => Unsaved(panel, payload, k) /\ r.edits[k] = panel.edits[k]
  BY DEF Unsaved
<1>4. BusyFits(r, task)
  BY <1>1 DEF GoodScreen, BusyFits
<1>5. SentIsDraft(r, payload, task)
  BY <1>1, <1>3 DEF GoodScreen, SentIsDraft
<1>6. GoodScreen(r, payload, typed, task')
  BY <1>1, <1>2, <1>3, <1>4, <1>5 DEF GoodScreen
<1> QED BY <1>6, RenderAgain DEF AccountsInv, AccountsTypeOK

\* A request as it is sent, and the panel as it looks then: its button becomes busy,
\* and what it saves or tests is on screen.
Sent(t, q, x) ==
  /\ Send(t, q, x) /\ Carries(x) /\ x.own
  /\ x.op \in Slow => x.op \notin panel.busy
  /\ q.busy = panel.busy \cup ({x.op} \cap Slow) /\ q.edits = panel.edits
  /\ TriedFits(q.tried, payload)
  /\ x.op = "save" => \A k \in Keys: x.sent[k] # None => x.sent[k] = panel.edits[k]
  /\ x.op = "test" => FormShows(x) \/ BorrowsSpace(x)

\* Sending a request leaves the invariant: the button that becomes busy has this request.
LEMMA SendStep ==
  ASSUME AccountsInv, NEW t \in Tasks, NEW q \in Panels, NEW x \in TaskRecords, Sent(t, q, x)
  PROVE  AccountsInv'
<1> USE DEF Sent
<1>1. /\ GoodScreen(panel, payload, typed, task) /\ panel # NoPanel /\ q # NoPanel
      /\ Render(q, payload) /\ task' = [task EXCEPT ![t] = x] /\ pool' = pool /\ changes' = changes
      /\ task[t].pc = "idle"
  BY ScreenNow, PoolsAssumption DEF OnScreen, Send, At
<1>2. ~task[t].own
  BY <1>1 DEF GoodScreen, Carries
<1>3. task' \in [Tasks -> TaskRecords] /\ task'[t] = x /\ \A u \in Tasks \ {t}: task'[u] = task[u]
  BY <1>1 DEF GoodScreen
<1>4. \A k \in Keys: Unsaved(q, payload, k) <=> Unsaved(panel, payload, k)
  BY DEF Unsaved
<1>5. BusyFits(q, task')
  <2>1. BusyFits(panel, task)
    BY <1>1 DEF GoodScreen
  <2>2. ASSUME NEW op \in q.busy PROVE \E u \in Tasks: task'[u].own /\ task'[u].op = op
    BY <2>1, <1>2, <1>3 DEF BusyFits
  <2>3. ASSUME NEW u \in Tasks, task'[u].own, task'[u].op \in Slow PROVE task'[u].op \in q.busy
    BY <2>1, <2>3, <1>3 DEF BusyFits
  <2>4. ASSUME NEW u \in Tasks, NEW v \in Tasks, task'[u].own, task'[v].own,
               task'[u].op = task'[v].op, task'[u].op \in Slow
        PROVE  u = v
    BY <2>1, <2>4, <1>3 DEF BusyFits
  <2> QED BY <2>2, <2>3, <2>4 DEF BusyFits
<1>6. SentIsDraft(q, payload, task')
  BY <1>1, <1>3, <1>4 DEF GoodScreen, SentIsDraft
<1>7. GoodScreen(q, payload, typed, task')
  BY <1>1, <1>3, <1>4, <1>5, <1>6 DEF GoodScreen
<1> QED BY <1>1, <1>7, RenderAgain DEF AccountsInv, AccountsTypeOK

\* What a request becomes on its way.
LEMMA KeptTypes ==
  ASSUME NEW x \in TaskRecords, Carries(x)
  PROVE  /\ Kept(x) \in TaskRecords /\ Carries(Kept(x))
         /\ Kept(x).own => x.own /\ Kept(x) = x
         /\ x.own /\ x.op \in Slow => Kept(x) = x
<1>1. CASE x.pc \in {"idle", "call"}
  BY <1>1 DEF Kept
<1>2. CASE x.pc \notin {"idle", "call"} /\ x.own /\ x.op \in Slow \cup {"activate"}
  BY <1>2 DEF Kept
<1>3. CASE x.pc \notin {"idle", "call"} /\ ~(x.own /\ x.op \in Slow \cup {"activate"})
  <2> DEFINE y == [Idle EXCEPT !.op = "refresh", !.pc = x.pc, !.got = x.got]
  <2>1. Kept(x) = y
    BY <1>3 DEF Kept
  <2>2. /\ y \in TaskRecords /\ ~y.own /\ y.op = "refresh" /\ y.pc = x.pc /\ y.got = x.got
    BY PanelAssumption DEF TaskRecords, Idle, Nothing, Drafts, Ops, Keys
  <2> HIDE DEF y
  <2>3. Carries(y)
    BY <2>2, <1>3 DEF Carries, OfSpace, OfKey, OfAccount, Entering
  <2> QED BY <1>3, <2>1, <2>2, <2>3
<1> QED BY <1>1, <1>2, <1>3

\* Requests go on: those of the panel as what they are, the others for nobody.
GoesOn(ts, us) ==
  \A t \in Tasks:
    /\ us[t].own => ts[t].own /\ us[t].op = ts[t].op /\ us[t].sent = ts[t].sent
    /\ ts[t].own /\ ts[t].op \in Slow => us[t].own /\ us[t].op = ts[t].op

\* As long as requests go on, the buttons and the saves fit them.
LEMMA GoesOnFits ==
  ASSUME NEW q, NEW p, NEW ts, NEW us, GoesOn(ts, us), BusyFits(q, ts), SentIsDraft(q, p, ts),
         q.busy \subseteq Slow
  PROVE  BusyFits(q, us) /\ SentIsDraft(q, p, us)
<1>1. BusyFits(q, us)
  BY DEF GoesOn, BusyFits
<1>2. SentIsDraft(q, p, us)
  BY DEF GoesOn, SentIsDraft
<1> QED BY <1>1, <1>2

\* A step of the network or of the server that nothing shows.
LEMMA UnseenStep ==
  ASSUME AccountsInv, UNCHANGED <<payload, panel, flag, typed>>,
         pool' \in Pools, changes' \in 0 .. MaxChanges,
         task' \in [Tasks -> TaskRecords], \A t \in Tasks: Carries(task'[t]), GoesOn(task, task')
  PROVE  AccountsInv'
<1>1. GoodScreen(panel, payload, typed, task) /\ (panel # NoPanel => panel.busy \subseteq Slow)
  BY ScreenNow, PanelFields DEF GoodScreen
<1>2. RequestsFit'
  BY DEF AccountsInv, RequestsFit, GoesOn
<1>3. panel # NoPanel => BusyFits(panel, task') /\ SentIsDraft(panel, payload, task')
  BY <1>1, GoesOnFits DEF GoodScreen
<1>4. ButtonsFit' /\ SavesFit'
  BY <1>3 DEF ButtonsFit, SavesFit
<1>5. AccountsTypeOK'
  BY DEF AccountsInv, AccountsTypeOK
<1>6. TestFormFits'
  BY DEF AccountsInv, TestFormFits, OnScreen
<1>7. DraftIsTyped'
  BY DEF AccountsInv, DraftIsTyped, OnScreen
<1>8. FlagFits'
  BY DEF AccountsInv, FlagFits, OnScreen
<1> QED BY <1>2, <1>4, <1>5, <1>6, <1>7, <1>8 DEF AccountsInv
-----------------------------------------------------------------------------
(* The invariant holds in every reachable state *)

\* The invariant holds when the tab is first opened.
LEMMA InitInv == AccountsInit => AccountsInv
<1> SUFFICES ASSUME AccountsInit PROVE AccountsInv
  OBVIOUS
<1>1. pool \in Pools /\ payload = pool /\ panel = Mounted(payload) /\ changes = 0
      /\ flag = FALSE /\ task = [t \in Tasks |-> Idle] /\ typed = Nothing
  BY PoolsAssumption DEF AccountsInit
<1>2. /\ panel \in Panels /\ panel.edits = Baseline(payload) /\ panel.busy = {}
      /\ TriedFits(panel.tried, payload)
  BY <1>1, MountedTypes
<1>3. Idle \in TaskRecords /\ Carries(Idle) /\ ~Idle.own
  BY DEF Idle, TaskRecords, Nothing, Drafts, Ops, Carries, OfSpace, OfKey, OfAccount, Entering
<1>4. \A k \in Keys: ~Unsaved(panel, payload, k)
  BY <1>2 DEF Unsaved
<1>5. AccountsTypeOK
  <2>1. task \in [Tasks -> TaskRecords]
    BY <1>1, <1>3
  <2>2. typed \in Drafts
    BY <1>1 DEF Nothing, Drafts
  <2>3. changes \in 0 .. MaxChanges
    BY <1>1, PanelAssumption
  <2> QED BY <1>1, <1>2, <2>1, <2>2, <2>3 DEF AccountsTypeOK
<1>6. RequestsFit /\ ButtonsFit /\ SavesFit
  BY <1>1, <1>2, <1>3 DEF RequestsFit, ButtonsFit, BusyFits, SavesFit, SentIsDraft
<1>7. TestFormFits
  BY <1>2 DEF TestFormFits, TriedFits
<1>8. DraftIsTyped
  BY <1>4 DEF DraftIsTyped
<1>9. FlagFits
  BY <1>1, <1>4 DEF FlagFits, Dirty
<1> QED BY <1>5, <1>6, <1>7, <1>8, <1>9 DEF AccountsInv

\* What the panel on screen is made of.
LEMMA PanelNow ==
  ASSUME AccountsInv, OnScreen
  PROVE  /\ panel \in Panels /\ payload \in Pools /\ TriedFits(panel.tried, payload)
         /\ panel.chosen.account \in Accounts \cup {None} /\ panel.chosen.space \in Spaces \cup {None}
         /\ panel.tried.account \in Accounts \cup {None} /\ panel.tried.space \in Spaces \cup {None}
         /\ panel.tried.model \in Models \cup {AutoModel}
         /\ panel.edits \in Drafts /\ panel.busy \subseteq Slow
<1>1. panel \in Panels /\ payload \in Pools
  BY DEF AccountsInv, AccountsTypeOK, OnScreen
<1>2. TriedFits(panel.tried, payload)
  BY ScreenNow DEF GoodScreen, OnScreen
<1> QED BY <1>1, <1>2, PanelFields DEF Chosen, Tried

\* The operator opens an account or a workspace, or fills in the form of the quick test.
Moving ==
  \/ \E a \in Accounts: OpenAccount(a) \/ TryAccount(a)
  \/ \E s \in Spaces: OpenSpace(s) \/ TrySpace(s)
  \/ \E m \in Models \cup {AutoModel}: TryModel(m)
  \/ Fill

\* The drafts and the buttons stay.
Moved(r) ==
  /\ OnScreen /\ Render(r, payload) /\ UNCHANGED <<pool, changes, task>>
  /\ TriedFits(r.tried, payload) /\ r.busy = panel.busy /\ r.edits = panel.edits

\* Whatever the operator opens or fills in, the drafts and the buttons stay.
LEMMA Moves ==
  ASSUME AccountsInv, Moving PROVE \E r \in Panels: Moved(r)
<1>1. ASSUME NEW a \in Accounts, OpenAccount(a) PROVE \E r \in Panels: Moved(r)
  <2> DEFINE r == OpenedAccount(panel, payload, a)
  <2>1. r \in Panels /\ r.edits = panel.edits /\ r.busy = panel.busy /\ TriedFits(r.tried, payload)
    BY <1>1, PanelNow, OpenedTypes DEF OpenAccount
  <2>2. OnScreen /\ Render(r, payload) /\ UNCHANGED <<pool, changes, task>>
    BY <1>1 DEF OpenAccount
  <2> HIDE DEF r
  <2> QED BY <2>1, <2>2 DEF Moved
<1>2. ASSUME NEW a \in Accounts, TryAccount(a) PROVE \E r \in Panels: Moved(r)
  <2> DEFINE f == Try(payload, a, panel.tried.space, panel.tried.model)
             r == [panel EXCEPT !.tried = f]
  <2>1. OnScreen /\ Render(r, payload) /\ UNCHANGED <<pool, changes, task>>
    BY <1>2 DEF TryAccount
  <2>2. f \in Tried /\ TriedFits(f, payload) /\ panel \in Panels
    BY <2>1, PanelNow, TryFits
  <2> HIDE DEF f
  <2>3. r \in Panels /\ r.edits = panel.edits /\ r.busy = panel.busy /\ r.tried = f
    BY <2>2, PanelFields
  <2> HIDE DEF r
  <2> QED BY <2>1, <2>2, <2>3 DEF Moved
<1>3. ASSUME NEW s \in Spaces, OpenSpace(s) PROVE \E r \in Panels: Moved(r)
  <2> DEFINE r == [panel EXCEPT !.chosen.space = s]
  <2>1. OnScreen /\ Render(r, payload) /\ UNCHANGED <<pool, changes, task>>
    BY <1>3 DEF OpenSpace
  <2>2. r \in Panels /\ r.edits = panel.edits /\ r.busy = panel.busy /\ TriedFits(r.tried, payload)
    BY <2>1, PanelNow, PanelFields DEF Chosen
  <2> HIDE DEF r
  <2> QED BY <2>1, <2>2 DEF Moved
<1>4. ASSUME NEW s \in Spaces, TrySpace(s) PROVE \E r \in Panels: Moved(r)
  <2> DEFINE f == Try(payload, panel.tried.account, s, panel.tried.model)
             r == [panel EXCEPT !.tried = f]
  <2>1. OnScreen /\ Render(r, payload) /\ UNCHANGED <<pool, changes, task>>
    BY <1>4 DEF TrySpace
  <2>2. f \in Tried /\ TriedFits(f, payload) /\ panel \in Panels
    BY <2>1, PanelNow, TryFits
  <2> HIDE DEF f
  <2>3. r \in Panels /\ r.edits = panel.edits /\ r.busy = panel.busy /\ r.tried = f
    BY <2>2, PanelFields
  <2> HIDE DEF r
  <2> QED BY <2>1, <2>2, <2>3 DEF Moved
<1>5. ASSUME NEW m \in Models \cup {AutoModel}, TryModel(m) PROVE \E r \in Panels: Moved(r)
  <2> DEFINE f == [panel.tried EXCEPT !.model = m]
             r == [panel EXCEPT !.tried = f]
  <2>1. OnScreen /\ Render(r, payload) /\ UNCHANGED <<pool, changes, task>>
        /\ FitModel(payload, panel.tried.space, m) = m
    BY <1>5 DEF TryModel
  <2>2. panel \in Panels /\ panel.tried \in Tried /\ TriedFits(panel.tried, payload)
    BY <2>1, PanelNow, PanelFields
  <2>3. f \in Tried /\ TriedFits(f, payload)
    BY <2>1, <2>2 DEF Tried, TriedFits, FitModel
  <2> HIDE DEF f
  <2>4. r \in Panels /\ r.edits = panel.edits /\ r.busy = panel.busy /\ r.tried = f
    BY <2>2, <2>3, PanelFields
  <2> HIDE DEF r
  <2> QED BY <2>1, <2>3, <2>4 DEF Moved
<1>6. ASSUME Fill PROVE \E r \in Panels: Moved(r)
  <2> DEFINE a == panel.chosen.account
             jump == JumpOf(payload, a)
             r == Populated(panel, payload, a, jump)
  <2>1. /\ OnScreen /\ Render(r, payload) /\ UNCHANGED <<pool, changes, task>>
        /\ a \in payload.listed
    BY <1>6 DEF Fill
  <2>2. /\ panel \in Panels /\ payload \in Pools /\ a \in Accounts \cup {None}
    BY <2>1, PanelNow
  <2>3. a \in Accounts
    BY <2>1, <2>2, PanelAssumption DEF Pools
  <2>4. jump \in Spaces \cup {None}
    BY <2>2, JumpTypes
  <2> HIDE DEF a, jump
  <2>5. r \in Panels /\ r.edits = panel.edits /\ r.busy = panel.busy /\ TriedFits(r.tried, payload)
    BY <2>2, <2>3, <2>4, PopulatedTypes
  <2> HIDE DEF r
  <2> QED BY <2>1, <2>5 DEF Moved
<1> QED BY <1>1, <1>2, <1>3, <1>4, <1>5, <1>6 DEF Moving

\* What is typed makes one draft, which is what is remembered of it: the rest of a
\* new draft is what was seen, that of an unsaved one what it was.
LEMMA TypeKept ==
  ASSUME AccountsInv, NEW x \in Typed, Type(x[1], x[2], x[3])
  PROVE  /\ OnScreen /\ "save" \notin panel.busy /\ x[1] \in Keys
         /\ UNCHANGED <<pool, changes, task>>
         /\ \E e \in Drafts, entered \in Drafts:
              /\ RenderTyped([panel EXCEPT !.edits = e], payload, entered)
              /\ e[x[1]] = entered[x[1]]
              /\ \A j \in Keys \ {x[1]}: e[j] = panel.edits[j] /\ entered[j] = typed[j]
<1> DEFINE k == x[1]
           f == x[2]
           n == x[3]
           before == IF panel.edits[k] = None THEN Baseline(payload)[k] ELSE panel.edits[k]
           had == IF Unsaved(panel, payload, k) THEN typed[k] ELSE Baseline(payload)[k]
           e == [panel.edits EXCEPT ![k] = [before EXCEPT ![f] = n]]
           entered == [typed EXCEPT ![k] = [had EXCEPT ![f] = n]]
<1>1. k \in Keys /\ f \in Fields /\ n \in Numbers
  BY PanelAssumption
<1>2. /\ OnScreen /\ "save" \notin panel.busy /\ k \in payload.listed
      /\ UNCHANGED <<pool, changes, task>>
      /\ RenderTyped(UpdateEdit(panel, payload, k, f, n), payload, TypedOver(k, f, n))
  BY DEF Type
<1>3. /\ panel.edits \in Drafts /\ payload \in Pools /\ typed \in Drafts
      /\ GoodScreen(panel, payload, typed, task)
  BY <1>2, PanelNow, ScreenNow DEF GoodScreen
<1>4. Baseline(payload)[k] \in Setting
  BY <1>1, <1>2, <1>3, BaselineTypes
<1>5. before = had
  BY <1>1, <1>2, <1>3 DEF GoodScreen, Unsaved, OnScreen
<1>6. before \in Setting
  BY <1>1, <1>3, <1>4 DEF Drafts
<1>7. UpdateEdit(panel, payload, k, f, n) = [panel EXCEPT !.edits = e] /\ TypedOver(k, f, n) = entered
  BY DEF UpdateEdit, TypedOver
<1> HIDE DEF k, f, n, before, had
<1>8. [before EXCEPT ![f] = n] \in Setting
  BY <1>1, <1>6 DEF Setting
<1>9. /\ e \in Drafts /\ entered \in Drafts /\ e[k] = entered[k]
      /\ \A j \in Keys \ {k}: e[j] = panel.edits[j] /\ entered[j] = typed[j]
  BY <1>1, <1>3, <1>5, <1>8 DEF Drafts
<1> HIDE DEF e, entered
<1>10. RenderTyped([panel EXCEPT !.edits = e], payload, entered)
  BY <1>2, <1>7
<1> QED BY <1>1, <1>2, <1>9, <1>10 DEF k

\* Every step of the operator but a request leaves the invariant.
LEMMA OperatorStep ==
  ASSUME AccountsInv, AccountsOperator PROVE AccountsInv'
<1>5. ASSUME Moving PROVE AccountsInv'
  BY <1>5, Moves, MoveStep DEF Moved
<1>6. ASSUME Discard PROVE AccountsInv'
  <2> DEFINE r == [panel EXCEPT !.edits = Baseline(payload)]
  <2>1. OnScreen /\ Render(r, payload) /\ UNCHANGED <<pool, changes, task>>
    BY <1>6 DEF Discard
  <2>2. r \in Panels /\ r.edits = Baseline(payload) /\ r.busy = panel.busy
        /\ TriedFits(r.tried, payload)
    BY <2>1, PanelNow, BaselineTypes, PanelFields
  <2> HIDE DEF r
  <2> QED BY <2>1, <2>2, MoveStep
<1>7. ASSUME NEW x \in Typed, Type(x[1], x[2], x[3]) PROVE AccountsInv'
  <2> DEFINE k == x[1]
  <2>1. /\ OnScreen /\ "save" \notin panel.busy /\ k \in Keys
        /\ UNCHANGED <<pool, changes, task>>
    BY <1>7, TypeKept
  <2>2. PICK e \in Drafts, entered \in Drafts:
          /\ RenderTyped([panel EXCEPT !.edits = e], payload, entered)
          /\ e[k] = entered[k]
          /\ \A j \in Keys \ {k}: e[j] = panel.edits[j] /\ entered[j] = typed[j]
    BY <1>7, TypeKept
  <2> HIDE DEF k
  <2> DEFINE r == [panel EXCEPT !.edits = e]
  <2>3. /\ panel \in Panels /\ TriedFits(panel.tried, payload)
        /\ GoodScreen(panel, payload, typed, task)
    BY <2>1, PanelNow, ScreenNow
  <2>5. r \in Panels /\ r.edits = e /\ r.busy = panel.busy /\ r.tried = panel.tried /\ r # NoPanel
    BY <2>3, PanelFields, PoolsAssumption
  <2>10. RenderTyped(r, payload, entered)
    BY <2>2
  <2> HIDE DEF r
  <2>6. \A j \in Keys: Unsaved(r, payload, j) => r.edits[j] = entered[j]
    BY <2>1, <2>2, <2>3, <2>5 DEF GoodScreen, Unsaved, OnScreen
  <2>7. BusyFits(r, task)
    BY <2>1, <2>3, <2>5 DEF GoodScreen, BusyFits, OnScreen
  <2>8. SentIsDraft(r, payload, task)
    BY <2>1, <2>5, <2>7 DEF BusyFits, SentIsDraft, Slow
  <2>9. GoodScreen(r, payload, entered, task')
    BY <2>1, <2>3, <2>5, <2>6, <2>7, <2>8 DEF GoodScreen
  <2> QED BY <2>1, <2>9, <2>10, RenderStep DEF AccountsInv, AccountsTypeOK
<1>8. ASSUME Enter PROVE AccountsInv'
  <2> DEFINE r == Mounted(payload)
  <2>1. panel = NoPanel /\ Render(r, payload) /\ UNCHANGED <<pool, changes, task>>
    BY <1>8 DEF Enter, OnScreen
  <2>2. GoodScreen(panel, payload, typed, task)
    BY ScreenNow
  <2>3. r \in Panels /\ r # NoPanel /\ r.edits = Baseline(payload) /\ r.busy = {} /\ TriedFits(r.tried, payload)
    BY <2>2, MountedTypes, PoolsAssumption DEF GoodScreen
  <2> HIDE DEF r
  <2>4. \A t \in Tasks: ~task[t].own
    BY <2>1, <2>2 DEF GoodScreen
  <2>5. BusyFits(r, task) /\ SentIsDraft(r, payload, task)
    BY <2>3, <2>4 DEF BusyFits, SentIsDraft
  <2>6. \A k \in Keys: ~Unsaved(r, payload, k)
    BY <2>3 DEF Unsaved
  <2>7. GoodScreen(r, payload, typed, task')
    BY <2>1, <2>2, <2>3, <2>5, <2>6 DEF GoodScreen
  <2> QED BY <2>1, <2>7, RenderAgain DEF AccountsInv, AccountsTypeOK
<1>9. ASSUME NEW confirmed \in BOOLEAN, Leave(confirmed) PROVE AccountsInv'
  <2>1. /\ Render(NoPanel, payload) /\ pool' = pool /\ changes' = changes
        /\ task' = [t \in Tasks |-> Kept([task[t] EXCEPT !.own = FALSE])]
    BY <1>9 DEF Leave
  <2>2. GoodScreen(panel, payload, typed, task)
    BY ScreenNow
  <2>3. ASSUME NEW t \in Tasks
        PROVE  task'[t] \in TaskRecords /\ Carries(task'[t]) /\ ~task'[t].own
    <3> DEFINE y == [task[t] EXCEPT !.own = FALSE]
    <3>1. y \in TaskRecords /\ Carries(y) /\ ~y.own
      BY <2>2 DEF GoodScreen, TaskRecords, Carries
    <3>2. task'[t] = Kept(y)
      BY <2>1
    <3> HIDE DEF y
    <3> QED BY <3>1, <3>2, KeptTypes
  <2>4. task' \in [Tasks -> TaskRecords]
    BY <2>1, <2>3
  <2>5. GoodScreen(NoPanel, payload, typed, task')
    BY <2>2, <2>3, <2>4 DEF GoodScreen
  <2> QED BY <2>1, <2>5, RenderAgain DEF AccountsInv, AccountsTypeOK
<1> QED BY <1>5, <1>6, <1>7, <1>8, <1>9 DEF AccountsOperator, Moving

\* A request as it is sent.
LEMMA StartTypes ==
  ASSUME NEW t, NEW op \in Ops, NEW key \in Keys \cup {None},
         op \in OfSpace => key \in Spaces, op \in OfKey => key \in Keys,
         op \in OfAccount => key \in Accounts
  PROVE  LET x == Start(t, op, key) IN
         /\ x \in TaskRecords /\ Carries(x) /\ x.own /\ x.op = op /\ x.pc = "call" /\ x.key = key
         /\ x.sent = Nothing
BY DEF Start, Idle, TaskRecords, Carries, Nothing, Drafts

\* A button with a request of its own for a key, which may carry a workspace to open.
LEMMA ButtonSends ==
  ASSUME AccountsInv, OnScreen, NEW t \in Tasks, NEW op \in Ops, NEW key \in Keys,
         op \in OfSpace => key \in Spaces, op \in OfAccount => key \in Accounts,
         op \in Slow => op \notin panel.busy, op \notin {"save", "test"},
         NEW jump \in Spaces \cup {None},
         NEW x, x = Start(t, op, key) \/ x = [Start(t, op, key) EXCEPT !.jump = jump],
         Send(t, Busy(op), x)
  PROVE  \E q \in Panels, y \in TaskRecords: Sent(t, q, y)
<1>1. x \in TaskRecords /\ Carries(x) /\ x.own /\ x.op = op
  <2> DEFINE y == Start(t, op, key)
  <2>1. y \in TaskRecords /\ Carries(y) /\ y.own /\ y.op = op
    BY StartTypes
  <2>2. x = y \/ x = [y EXCEPT !.jump = jump]
    OBVIOUS
  <2> HIDE DEF y
  <2> QED BY <2>1, <2>2 DEF TaskRecords, Carries
<1>2. panel \in Panels /\ TriedFits(panel.tried, payload) /\ panel.busy \subseteq Slow
  BY PanelNow
<1>3. /\ Busy(op) \in Panels /\ Busy(op).busy = panel.busy \cup ({x.op} \cap Slow)
      /\ Busy(op).edits = panel.edits /\ Busy(op).tried = panel.tried
  <2>1. CASE op \in Slow
    BY <1>1, <1>2, <2>1, PanelFields DEF Busy
  <2>2. CASE op \notin Slow
    BY <1>1, <1>2, <2>2 DEF Busy
  <2> QED BY <2>1, <2>2
<1> QED BY <1>1, <1>2, <1>3 DEF Sent

\* What a button below the account on screen is offered for.
LEMMA OfferedFor ==
  ASSUME AccountsInv, NEW op, Offered(op)
  PROVE  /\ OnScreen /\ op \notin panel.busy /\ panel.chosen.account \in Accounts
         /\ OpenedSpace \in SpacesOf(payload, panel.chosen.account) \cup {None}
         /\ OpenedSpace \in Spaces \cup {None} /\ OnDisplay \in Keys
         /\ op \in OfSpace => OpenedSpace \in Spaces
<1>1. /\ OnScreen /\ op \notin panel.busy /\ panel.chosen.account \in payload.listed
      /\ op \in OfSpace => OpenedSpace # None
  BY DEF Offered, OfSpace
<1>2. payload.listed \subseteq Keys /\ None \notin Keys
  BY <1>1, PanelNow, PanelAssumption DEF Pools
<1>3. panel.chosen.account \in Accounts
  BY <1>1, <1>2, PanelNow
<1>4. OpenedSpace \in SpacesOf(payload, panel.chosen.account) \cup {None}
  BY DEF OpenedSpace
<1>5. OpenedSpace \in Spaces \cup {None}
  BY <1>4 DEF SpacesOf
<1> QED BY <1>1, <1>3, <1>4, <1>5 DEF OnDisplay, Keys

\* A test of a workspace that the account has, or of none where it has none, is what
\* the form shows when its effects have run.
LEMMA TryShows ==
  ASSUME NEW p \in Pools, NEW a \in Accounts, NEW s \in Spaces \cup {None}, NEW m,
         s \in SpacesOf(p, a) \/ (s = None /\ SpacesOf(p, a) = {})
  PROVE  LET n == ModelSent(a, s, m)
         IN payload = p => Try(p, a, s, n) = [account |-> a, space |-> s, model |-> n]
<1> SUFFICES ASSUME payload = p
             PROVE  Try(p, a, s, ModelSent(a, s, m)) =
                      [account |-> a, space |-> s, model |-> ModelSent(a, s, m)]
  OBVIOUS
<1>1. None \notin Spaces /\ SpacesOf(p, a) \subseteq Spaces
  BY PanelAssumption DEF SpacesOf, Keys
<1>2. Among(p, a, s, ActiveOf(p, a)) = s
  BY <1>1, FirstOfFacts DEF Among
<1>3. FitModel(p, s, ModelSent(a, s, m)) = ModelSent(a, s, m)
  BY <1>1 DEF ModelSent, FitModel
<1> QED BY <1>2, <1>3 DEF Try

\* The request of a quick test, and what the form shows of it.
LEMMA TestStarts ==
  ASSUME AccountsInv, NEW t \in Tasks, NEW a \in Accounts, NEW s \in Spaces \cup {None},
         Test(t, a, s),
         \/ s \in SpacesOf(payload, a) \/ (s = None /\ SpacesOf(payload, a) = {})
         \/ OpenedSpace = None /\ a = panel.chosen.account /\ a # panel.tried.account
            /\ s = panel.tried.space
  PROVE  \E q \in Panels, x \in TaskRecords: Sent(t, q, x)
<1> USE DEF Slow, Ops, OfSpace, OfKey, OfAccount, Entering
<1> DEFINE m == ModelSent(a, s, panel.tried.model)
           f == Try(payload, a, s, m)
           y == Start(t, "test", s)
           x == [y EXCEPT !.account = a, !.model = m]
           b == Busy("test")
           q == [b EXCEPT !.tried = f]
<1>1. OnScreen /\ "test" \notin panel.busy /\ Send(t, q, x)
  BY DEF Test
<1>2. panel \in Panels /\ payload \in Pools /\ panel.tried.model \in Models \cup {AutoModel}
  BY <1>1, PanelNow
<1>3. m \in Models \cup {AutoModel}
  BY <1>2 DEF ModelSent, FitModel
<1>4. f \in Tried /\ TriedFits(f, payload)
  BY <1>2, <1>3, TryFits
<1>5. \/ f = [account |-> a, space |-> s, model |-> m]
      \/ OpenedSpace = None /\ a = panel.chosen.account /\ a # panel.tried.account
         /\ s = panel.tried.space
  BY <1>2, TryShows
<1>6. y \in TaskRecords /\ Carries(y) /\ y.own /\ y.op = "test" /\ y.key = s
  BY StartTypes DEF Keys
<1> HIDE DEF m, f, y
<1>7. /\ x \in TaskRecords /\ Carries(x) /\ x.own /\ x.op = "test"
      /\ x.account = a /\ x.key = s /\ x.model = m
  BY <1>3, <1>6 DEF TaskRecords, Carries
<1>8. b \in Panels /\ b.busy = panel.busy \cup {"test"} /\ b.edits = panel.edits
  BY <1>2, PanelFields DEF Busy
<1> HIDE DEF b
<1>9. q \in Panels /\ q.busy = panel.busy \cup {"test"} /\ q.edits = panel.edits /\ q.tried = f
  BY <1>4, <1>8, PanelFields
<1> HIDE DEF x, q
<1>10. panel' = q
  BY <1>1 DEF Send, Render, RenderTyped
<1>11. FormShows(x) \/ BorrowsSpace(x)
  BY <1>5, <1>7, <1>9, <1>10 DEF FormShows, BorrowsSpace
<1> QED BY <1>1, <1>4, <1>7, <1>9, <1>11 DEF Sent

\* Both buttons of the quick test send such a request.
LEMMA TestSends ==
  ASSUME AccountsInv, NEW t \in Tasks, TestForm(t) \/ TestOnDisplay(t)
  PROVE  \E q \in Panels, x \in TaskRecords: Sent(t, q, x)
<1>1. OnScreen
  BY DEF TestForm, TestOnDisplay, Offered
<1>2. /\ panel.tried.account \in Accounts \cup {None} /\ panel.tried.space \in Spaces \cup {None}
      /\ TriedFits(panel.tried, payload)
  BY <1>1, PanelNow
<1>3. \/ panel.tried.space \in SpacesOf(payload, panel.tried.account)
      \/ panel.tried.space = None /\ SpacesOf(payload, panel.tried.account) = {}
  BY <1>2 DEF TriedFits
<1>4. CASE TestForm(t)
  BY <1>2, <1>3, <1>4, TestStarts DEF TestForm
<1>5. CASE TestOnDisplay(t)
  <2>1. /\ panel.chosen.account \in Accounts
        /\ OpenedSpace \in SpacesOf(payload, panel.chosen.account) \cup {None}
        /\ OpenedSpace \in Spaces \cup {None}
    BY <1>5, OfferedFor DEF TestOnDisplay
  <2>2. Test(t, panel.chosen.account, IF OpenedSpace = None THEN panel.tried.space ELSE OpenedSpace)
    BY <1>5 DEF TestOnDisplay
  <2>3. CASE OpenedSpace # None
    BY <2>1, <2>2, <2>3, TestStarts
  <2>4. CASE OpenedSpace = None /\ panel.chosen.account = panel.tried.account
    BY <1>2, <1>3, <2>1, <2>2, <2>4, TestStarts
  <2>5. CASE OpenedSpace = None /\ panel.chosen.account # panel.tried.account
    BY <1>2, <2>1, <2>2, <2>5, TestStarts
  <2> QED BY <2>3, <2>4, <2>5
<1> QED BY <1>4, <1>5

\* Every request is sent as the panel shows it.
LEMMA Sends ==
  ASSUME AccountsInv, NEW t \in Tasks, Request(t)
  PROVE  \E q \in Panels, x \in TaskRecords: Sent(t, q, x)
<1> USE DEF Slow, Ops, OfSpace, OfKey, OfAccount, Entering
<1>1. ASSUME Refresh(t) PROVE \E q \in Panels, x \in TaskRecords: Sent(t, q, x)
  <2> DEFINE y == Start(t, "refresh", None)
             x == [y EXCEPT !.pc = "reads"]
  <2>1. Send(t, panel, x) /\ OnScreen
    BY <1>1 DEF Refresh, Send
  <2>2. y \in TaskRecords /\ Carries(y) /\ y.own /\ y.op = "refresh"
    BY StartTypes
  <2> HIDE DEF y
  <2>3. x \in TaskRecords /\ Carries(x) /\ x.own /\ x.op = "refresh"
    BY <2>2 DEF TaskRecords, Carries
  <2> HIDE DEF x
  <2> QED BY <2>1, <2>3, PanelNow DEF Sent
<1>2. ASSUME Save(t) PROVE \E q \in Panels, x \in TaskRecords: Sent(t, q, x)
  <2> DEFINE s == OnDisplay
             sent == [k \in Keys |-> IF k \in {OpenedSpace, panel.chosen.account}
                                     THEN panel.edits[k] ELSE None]
             y == Start(t, "save", s)
             x == [y EXCEPT !.sent = sent]
             q == Busy("save")
  <2>1. Offered("save") /\ Send(t, q, x)
    BY <1>2 DEF Save
  <2>2. OnScreen /\ "save" \notin panel.busy /\ s \in Keys
    BY <2>1, OfferedFor
  <2> HIDE DEF s
  <2>3. panel \in Panels /\ panel.edits \in Drafts /\ TriedFits(panel.tried, payload)
    BY <2>2, PanelNow
  <2>4. sent \in Drafts /\ \A k \in Keys: sent[k] # None => sent[k] = panel.edits[k]
    BY <2>3 DEF Drafts
  <2>5. y \in TaskRecords /\ Carries(y) /\ y.own /\ y.op = "save"
    BY <2>2, StartTypes
  <2> HIDE DEF sent, y
  <2>6. x \in TaskRecords /\ Carries(x) /\ x.own /\ x.op = "save" /\ x.sent = sent
    BY <2>4, <2>5 DEF TaskRecords, Carries
  <2>7. q \in Panels /\ q.busy = panel.busy \cup {"save"} /\ q.edits = panel.edits
        /\ q.tried = panel.tried
    BY <2>3, PanelFields DEF Busy
  <2> HIDE DEF x, q
  <2> QED BY <2>1, <2>2, <2>3, <2>4, <2>6, <2>7 DEF Sent
<1>3. ASSUME SetDefault(t) PROVE \E q \in Panels, x \in TaskRecords: Sent(t, q, x)
  <2>1. Offered("default") /\ Send(t, Busy("default"), Start(t, "default", OpenedSpace))
    BY <1>3 DEF SetDefault, Busy
  <2> QED BY <2>1, OfferedFor, ButtonSends DEF Keys
<1>4. ASSUME RefreshModels(t) PROVE \E q \in Panels, x \in TaskRecords: Sent(t, q, x)
  <2>1. Offered("models") /\ Send(t, Busy("models"), Start(t, "models", OpenedSpace))
    BY <1>4 DEF RefreshModels
  <2> QED BY <2>1, OfferedFor, ButtonSends DEF Keys
<1>5. ASSUME RefreshSpaces(t) PROVE \E q \in Panels, x \in TaskRecords: Sent(t, q, x)
  <2>1. Offered("spaces") /\ Send(t, Busy("spaces"), Start(t, "spaces", panel.chosen.account))
    BY <1>5 DEF RefreshSpaces
  <2> QED BY <2>1, OfferedFor, ButtonSends DEF Keys
<1>6. ASSUME Activate(t) PROVE \E q \in Panels, x \in TaskRecords: Sent(t, q, x)
  <2> DEFINE jump == JumpOf(payload, panel.chosen.account)
  <2>1. Offered("activate")
        /\ Send(t, Busy("activate"), [Start(t, "activate", OnDisplay) EXCEPT !.jump = jump])
    BY <1>6 DEF Activate, Busy
  <2>2. OnScreen /\ OnDisplay \in Keys
    BY <2>1, OfferedFor
  <2>3. jump \in Spaces \cup {None}
    BY <2>2, PanelNow, JumpTypes
  <2> HIDE DEF jump
  <2> QED BY <2>1, <2>2, <2>3, ButtonSends DEF Keys
<1>7. ASSUME Delete(t) PROVE \E q \in Panels, x \in TaskRecords: Sent(t, q, x)
  <2>1. Offered("delete") /\ Send(t, Busy("delete"), Start(t, "delete", panel.chosen.account))
    BY <1>7 DEF Delete, Busy
  <2> QED BY <2>1, OfferedFor, ButtonSends DEF Keys
<1>8. ASSUME NEW a \in Accounts, StartLogin(t, a) PROVE \E q \in Panels, x \in TaskRecords: Sent(t, q, x)
  <2>1. OnScreen /\ "start" \notin panel.busy /\ Send(t, Busy("start"), Start(t, "start", a))
    BY <1>8 DEF StartLogin
  <2> QED BY <2>1, ButtonSends DEF Keys
<1>9. ASSUME NEW a \in Accounts, VerifyCode(t, a) \/ ImportAccount(t, a) PROVE \E q \in Panels, x \in TaskRecords: Sent(t, q, x)
  <2> DEFINE jump == JumpOf(payload, a)
  <2>1. PICK op \in Entering: EnterAccount(t, op, a)
    BY <1>9 DEF VerifyCode, ImportAccount
  <2>2. OnScreen /\ op \notin panel.busy
        /\ Send(t, Busy(op), [Start(t, op, a) EXCEPT !.jump = jump])
    BY <2>1 DEF EnterAccount
  <2>3. jump \in Spaces \cup {None}
    BY <2>2, PanelNow, JumpTypes
  <2>4. a \in Keys /\ op \in Ops /\ op \notin OfSpace /\ op \notin {"save", "test"}
    BY DEF Keys
  <2> HIDE DEF jump
  <2> QED BY <2>2, <2>3, <2>4, ButtonSends
<1>10. ASSUME TestForm(t) \/ TestOnDisplay(t) PROVE \E q \in Panels, x \in TaskRecords: Sent(t, q, x)
  BY <1>10, TestSends
<1> QED BY <1>1, <1>2, <1>3, <1>4, <1>5, <1>6, <1>7, <1>8, <1>9, <1>10 DEF Request

\* A request leaves the invariant.
LEMMA RequestStep ==
  ASSUME AccountsInv, NEW t \in Tasks, Request(t) PROVE AccountsInv'
BY Sends, SendStep

\* The end of a request: its button is free, its drafts are settled.
LEMMA EndStep ==
  ASSUME AccountsInv, NEW t \in Tasks, NEW q, NEW entered \in Drafts,
         End(t, q, payload, entered), pool' \in Pools, changes' \in 0 .. MaxChanges,
         ~task[t].own => q = panel,
         task[t].own => /\ q \in Panels /\ TriedFits(q.tried, payload)
                        /\ q.busy = panel.busy \ {task[t].op},
         panel # NoPanel => \A k \in Keys: Unsaved(q, payload, k) => q.edits[k] = entered[k],
         panel # NoPanel => SentIsDraft(q, payload, [task EXCEPT ![t] = Idle])
  PROVE  AccountsInv'
<1>1. /\ GoodScreen(panel, payload, typed, task)
      /\ RenderTyped(q, payload, entered) /\ task' = [task EXCEPT ![t] = Idle]
  BY ScreenNow DEF End
<1>2. Idle \in TaskRecords /\ Carries(Idle) /\ ~Idle.own
  BY DEF Idle, TaskRecords, Nothing, Drafts, Ops, Carries, OfSpace, OfKey, OfAccount, Entering
<1>3. /\ task' \in [Tasks -> TaskRecords] /\ task'[t] = Idle
      /\ \A u \in Tasks \ {t}: task'[u] = task[u]
  BY <1>1, <1>2 DEF GoodScreen
<1>4. (q # NoPanel <=> panel # NoPanel) /\ q \in Panels \cup {NoPanel}
  BY <1>1, PoolsAssumption DEF GoodScreen
<1>5. ASSUME panel # NoPanel PROVE BusyFits(q, task')
  <2>1. BusyFits(panel, task) /\ panel.busy \subseteq Slow
    BY <1>1, <1>5, PanelNow DEF GoodScreen, OnScreen
  <2>2. ASSUME NEW op \in q.busy PROVE \E u \in Tasks: task'[u].own /\ task'[u].op = op
    <3>1. PICK u \in Tasks: task[u].own /\ task[u].op = op
      BY <2>1, <2>2 DEF BusyFits
    <3>2. u # t
      BY <2>2, <3>1
    <3> QED BY <1>3, <3>1, <3>2
  <2>3. ASSUME NEW u \in Tasks, task'[u].own, task'[u].op \in Slow PROVE task'[u].op \in q.busy
    <3>1. u # t /\ task[u].own /\ task[u].op \in Slow /\ task'[u].op = task[u].op
      BY <1>2, <1>3, <2>3
    <3>2. task[u].op \in panel.busy /\ (task[t].own => task[u].op # task[t].op)
      BY <2>1, <3>1 DEF BusyFits
    <3> QED BY <3>1, <3>2
  <2>4. ASSUME NEW u \in Tasks, NEW v \in Tasks, task'[u].own, task'[v].own,
               task'[u].op = task'[v].op, task'[u].op \in Slow
        PROVE  u = v
    <3>1. u # t /\ v # t
      BY <1>2, <1>3, <2>4
    <3> QED BY <1>3, <2>1, <2>4, <3>1 DEF BusyFits
  <2> QED BY <2>2, <2>3, <2>4 DEF BusyFits
<1>6. GoodScreen(q, payload, entered, task')
  <2>1. \A u \in Tasks: Carries(task'[u]) /\ (task'[u].own => q # NoPanel)
    BY <1>1, <1>2, <1>3, <1>4 DEF GoodScreen
  <2>2. q # NoPanel => TriedFits(q.tried, payload)
    BY <1>1, <1>4 DEF GoodScreen
  <2>3. q # NoPanel => SentIsDraft(q, payload, task')
    BY <1>1, <1>4
  <2> QED BY <1>1, <1>3, <1>4, <1>5, <2>1, <2>2, <2>3 DEF GoodScreen
<1> QED BY <1>1, <1>6, RenderStep

\* A request that ends without touching a draft.
LEMMA QuietEnd ==
  ASSUME AccountsInv, NEW t \in Tasks, NEW q, NEW entered \in Drafts,
         End(t, q, payload, entered), pool' \in Pools, changes' \in 0 .. MaxChanges,
         ~task[t].own => q = panel,
         task[t].own => /\ q \in Panels /\ TriedFits(q.tried, payload)
                        /\ q.busy = panel.busy \ {task[t].op} /\ q.edits = panel.edits,
         \A k \in Keys: entered[k] = typed[k]
  PROVE  AccountsInv'
<1>1. GoodScreen(panel, payload, typed, task)
  BY ScreenNow
<1>2. panel # NoPanel => q.edits = panel.edits
  OBVIOUS
<1>3. panel # NoPanel => \A k \in Keys: Unsaved(q, payload, k) => q.edits[k] = entered[k]
  BY <1>1, <1>2 DEF GoodScreen, Unsaved
<1>4. ~Idle.own
  BY DEF Idle
<1>5. panel # NoPanel => SentIsDraft(q, payload, [task EXCEPT ![t] = Idle])
  BY <1>1, <1>2, <1>4 DEF GoodScreen, SentIsDraft, Unsaved
<1> QED BY <1>3, <1>5, EndStep

\* What the server does for a request leaves a pool.
LEMMA EffectTypes ==
  ASSUME AccountsInv, NEW t \in Tasks, Effect(task[t]) \/ UNCHANGED <<pool, changes>>
  PROVE  pool' \in Pools /\ changes' \in 0 .. MaxChanges
<1>1. /\ pool \in Pools /\ changes \in 0 .. MaxChanges
      /\ task[t] \in TaskRecords /\ Carries(task[t])
  BY DEF AccountsInv, AccountsTypeOK, RequestsFit
<1>2. CASE UNCHANGED <<pool, changes>>
  BY <1>1, <1>2
<1>3. CASE changes < MaxChanges /\ changes' = changes + 1 /\ pool' \in After(pool, task[t])
  BY <1>1, <1>3, AfterTypes, PanelAssumption
<1> QED BY <1>2, <1>3 DEF Effect

\* Whatever becomes of a request in flight, the invariant stays.
LEMMA NetworkStep ==
  ASSUME AccountsInv, NEW t \in Tasks, Network(t) PROVE AccountsInv'
<1>1. /\ task \in [Tasks -> TaskRecords] /\ task[t] \in TaskRecords /\ Carries(task[t])
      /\ pool \in Pools /\ changes \in 0 .. MaxChanges /\ typed \in Drafts
      /\ GoodScreen(panel, payload, typed, task) /\ (task[t].own => OnScreen)
  BY ScreenNow DEF AccountsInv, AccountsTypeOK, RequestsFit, OnScreen
<1>2. ASSUME Call(t) PROVE AccountsInv'
  <2> DEFINE y == [task[t] EXCEPT !.pc = IF task[t].op = "test" THEN "rest" ELSE "reads"]
  <2>1. /\ Effect(task[t]) /\ UNCHANGED <<payload, panel, flag, typed>>
        /\ task' = [task EXCEPT ![t] = Kept(y)]
    BY <1>2 DEF Call
  <2>2. /\ y \in TaskRecords /\ Carries(y) /\ y.own = task[t].own /\ y.op = task[t].op
        /\ y.sent = task[t].sent
    BY <1>1 DEF TaskRecords, Carries
  <2> HIDE DEF y
  <2>3. /\ Kept(y) \in TaskRecords /\ Carries(Kept(y))
        /\ Kept(y).own => y.own /\ Kept(y) = y
        /\ y.own /\ y.op \in Slow => Kept(y) = y
    BY <2>2, KeptTypes
  <2>4. task' \in [Tasks -> TaskRecords] /\ \A u \in Tasks: Carries(task'[u])
    BY <1>1, <2>1, <2>3 DEF GoodScreen
  <2>5. GoesOn(task, task')
    BY <1>1, <2>1, <2>2, <2>3 DEF GoesOn
  <2> QED BY <2>1, <2>4, <2>5, EffectTypes, UnseenStep
<1>3. ASSUME Read(t) PROVE AccountsInv'
  <2> DEFINE y == [task[t] EXCEPT !.pc = "read", !.got = pool]
  <2>1. At(t, "reads") /\ UNCHANGED <<pool, changes, payload, panel, flag, typed>>
    BY <1>3 DEF Read
  <2>2. task' = [task EXCEPT ![t] = y]
    BY <1>1, <1>3 DEF Read
  <2>3. /\ y \in TaskRecords /\ Carries(y) /\ y.own = task[t].own /\ y.op = task[t].op
        /\ y.sent = task[t].sent
    BY <1>1, <2>1 DEF TaskRecords, Carries, At
  <2> HIDE DEF y
  <2>4. task' \in [Tasks -> TaskRecords] /\ \A u \in Tasks: Carries(task'[u])
    BY <1>1, <2>2, <2>3 DEF GoodScreen
  <2>5. GoesOn(task, task')
    BY <1>1, <2>2, <2>3 DEF GoesOn
  <2> QED BY <1>1, <2>1, <2>4, <2>5, UnseenStep
<1>4. ASSUME Land(t) PROVE AccountsInv'
  <2> DEFINE y == [task[t] EXCEPT !.pc = "rest", !.got = None]
             p == task[t].got
             q == IF OnScreen THEN Adopted(panel, payload, p) ELSE NoPanel
  <2>1. At(t, "read") /\ Render(q, p) /\ UNCHANGED <<pool, changes>>
    BY <1>4 DEF Land
  <2>2. task' = [task EXCEPT ![t] = y]
    BY <1>1, <1>4 DEF Land
  <2>3. /\ y \in TaskRecords /\ Carries(y) /\ y.own = task[t].own /\ y.op = task[t].op
        /\ y.sent = task[t].sent
    BY <1>1, <2>1 DEF TaskRecords, Carries, At
  <2>4. p \in Pools
    BY <1>1, <2>1 DEF Carries, At
  <2> HIDE DEF y, p
  <2>5. task' \in [Tasks -> TaskRecords] /\ \A u \in Tasks: Carries(task'[u])
    BY <1>1, <2>2, <2>3 DEF GoodScreen
  <2>6. GoesOn(task, task')
    BY <1>1, <2>2, <2>3 DEF GoesOn
  <2>7. CASE OnScreen
    <3>1. /\ panel \in Panels /\ panel.busy \subseteq Slow /\ panel # NoPanel
      BY <2>7, PanelNow DEF OnScreen
    <3>2. /\ q \in Panels /\ q.edits = Refreshed(panel, payload, p) /\ q.busy = panel.busy
          /\ TriedFits(q.tried, p) /\ q # NoPanel
      BY <2>4, <2>7, <3>1, AdoptedTypes, PoolsAssumption
    <3> HIDE DEF q
    <3>3. \A k \in Keys: Unsaved(q, p, k) => Unsaved(panel, payload, k) /\ q.edits[k] = panel.edits[k]
      BY <3>2 DEF Unsaved, Refreshed
    <3>4. BusyFits(q, task) /\ SentIsDraft(q, p, task)
      BY <1>1, <3>1, <3>2, <3>3 DEF GoodScreen, BusyFits, SentIsDraft
    <3>5. BusyFits(q, task') /\ SentIsDraft(q, p, task')
      BY <2>6, <3>1, <3>2, <3>4, GoesOnFits
    <3>6. \A k \in Keys: Unsaved(q, p, k) => q.edits[k] = typed[k]
      BY <1>1, <3>1, <3>3 DEF GoodScreen
    <3>7. GoodScreen(q, p, typed, task')
      BY <1>1, <2>4, <2>5, <3>2, <3>5, <3>6 DEF GoodScreen
    <3> QED BY <1>1, <2>1, <3>7, RenderAgain
  <2>8. CASE ~OnScreen
    <3>1. q = NoPanel /\ panel = NoPanel
      BY <2>8 DEF OnScreen
    <3>2. \A u \in Tasks: ~task'[u].own
      BY <1>1, <2>6, <3>1 DEF GoodScreen, GoesOn
    <3>3. GoodScreen(q, p, typed, task')
      BY <1>1, <2>4, <2>5, <3>1, <3>2 DEF GoodScreen
    <3> HIDE DEF q
    <3> QED BY <1>1, <2>1, <3>3, RenderAgain
  <2> QED BY <2>7, <2>8
<1>5. ASSUME Fails(t) PROVE AccountsInv'
  <2> DEFINE q == IF task[t].own THEN Free(panel, task[t]) ELSE panel
  <2>1. End(t, q, payload, typed) /\ (Effect(task[t]) \/ UNCHANGED <<pool, changes>>)
    BY <1>5 DEF Fails
  <2>2. pool' \in Pools /\ changes' \in 0 .. MaxChanges
    BY <2>1, EffectTypes
  <2>3. task[t].own => /\ q \in Panels /\ TriedFits(q.tried, payload)
                       /\ q.busy = panel.busy \ {task[t].op} /\ q.edits = panel.edits
    BY <1>1, PanelNow, FreeTypes
  <2>4. ~task[t].own => q = panel
    OBVIOUS
  <2> HIDE DEF q
  <2> QED BY <1>1, <2>1, <2>2, <2>3, <2>4, QuietEnd
<1>6. ASSUME Ends(t) PROVE AccountsInv'
  <2> DEFINE q == IF task[t].own THEN Done(panel, payload, task[t]) ELSE panel
             left == LeftOver(payload, task[t])
             entered == [k \in Keys |-> IF k \in left THEN task[t].sent[k] ELSE typed[k]]
  <2>1. End(t, q, payload, entered) /\ UNCHANGED <<pool, changes>>
    BY <1>6 DEF Ends
  <2>2. entered \in Drafts
    BY <1>1 DEF Drafts, TaskRecords
  <2>3. task[t].own => /\ q \in Panels /\ TriedFits(q.tried, payload)
                       /\ q.busy = panel.busy \ {task[t].op}
                       /\ q.edits = IF task[t].op = "save"
                                    THEN ClearedEdits(panel.edits, payload, task[t].sent)
                                    ELSE panel.edits
    BY <1>1, PanelNow, DoneTypes
  <2>4. ~task[t].own => q = panel
    OBVIOUS
  <2>5. CASE task[t].own /\ task[t].op = "save"
    <3>1. panel \in Panels /\ panel # NoPanel
      BY <1>1, <2>5, PanelNow DEF OnScreen
    <3>2. /\ q.edits = ClearedEdits(panel.edits, payload, task[t].sent)
          /\ left = {k \in Keys : task[t].sent[k] # None /\ k \notin payload.listed}
      BY <2>3, <2>5 DEF LeftOver
    <3> HIDE DEF q, left
    <3>3. \A k \in Keys: Unsaved(q, payload, k) =>
            \/ task[t].sent[k] = None /\ k \notin left
               /\ q.edits[k] = panel.edits[k] /\ Unsaved(panel, payload, k)
            \/ k \in left /\ q.edits[k] = task[t].sent[k]
      BY <3>2 DEF ClearedEdits, Unsaved
    <3>4. \A k \in Keys: Unsaved(q, payload, k) => q.edits[k] = entered[k]
      BY <1>1, <3>1, <3>3 DEF GoodScreen
    <3>5. \A u \in Tasks: task[u].own /\ task[u].op = "save" => u = t
      BY <1>1, <2>5, <3>1 DEF GoodScreen, BusyFits, Slow
    <3>6. SentIsDraft(q, payload, [task EXCEPT ![t] = Idle])
      BY <1>1, <3>5 DEF SentIsDraft, Idle
    <3> HIDE DEF entered
    <3> QED BY <1>1, <2>1, <2>2, <2>3, <2>5, <3>4, <3>6, EndStep
  <2>6. CASE ~(task[t].own /\ task[t].op = "save")
    <3>1. \A k \in Keys: entered[k] = typed[k]
      BY <2>6 DEF LeftOver
    <3> HIDE DEF q, entered
    <3> QED BY <1>1, <2>1, <2>2, <2>3, <2>4, <2>6, <3>1, QuietEnd
  <2> QED BY <2>5, <2>6
<1> QED BY <1>2, <1>3, <1>4, <1>5, <1>6 DEF Network

\* What another console changes on the server leaves the invariant.
LEMMA OtherConsoleStep ==
  ASSUME AccountsInv, OtherConsole PROVE AccountsInv'
<1>1. /\ pool \in Pools /\ changes \in 0 .. MaxChanges /\ MaxChanges \in Nat
      /\ \A t \in Tasks: Carries(task[t])
  BY PanelAssumption DEF AccountsInv, AccountsTypeOK, RequestsFit
<1>2. /\ changes < MaxChanges /\ changes' = changes + 1
      /\ UNCHANGED <<payload, panel, flag, task, typed>>
  BY DEF OtherConsole
<1>3. changes' \in 0 .. MaxChanges
  BY <1>1, <1>2
<1>4. ASSUME NEW x \in Typed, x[1] \in pool.listed,
             pool' = Saved(pool, [Nothing EXCEPT ![x[1]] =
                                    [pool.setting[x[1]] EXCEPT ![x[2]] = x[3]]])
      PROVE  pool' \in Pools
  <2> DEFINE next == [pool.setting[x[1]] EXCEPT ![x[2]] = x[3]]
  <2>1. x[1] \in Keys /\ x[2] \in Fields /\ x[3] \in Numbers
    BY PanelAssumption
  <2>2. pool.setting[x[1]] \in Setting
    BY <1>1, <2>1 DEF Pools
  <2>3. next \in Setting
    BY <2>1, <2>2 DEF Setting
  <2> HIDE DEF next
  <2>4. [Nothing EXCEPT ![x[1]] = next] \in Drafts
    BY <2>1, <2>3 DEF Nothing, Drafts
  <2>5. pool' = Saved(pool, [Nothing EXCEPT ![x[1]] = next])
    BY <1>4 DEF next
  <2> QED BY <1>1, <2>4, <2>5, SavedTypes
<1>5. ASSUME \E a \in pool.listed \cap Accounts: pool' = Deleted(pool, a) PROVE pool' \in Pools
  BY <1>1, <1>5, DeletedTypes
<1>6. ASSUME \E a \in pool.listed \cap Accounts: \E found \in SubsetsOf(a):
               pool' = Listed(pool, a, found)
      PROVE  pool' \in Pools
  BY <1>1, <1>6, ListedTypes DEF SubsetsOf, Keys
<1>7. pool' \in Pools
  BY <1>4, <1>5, <1>6 DEF OtherConsole
<1>8. task' \in [Tasks -> TaskRecords] /\ GoesOn(task, task')
  BY <1>2 DEF AccountsInv, AccountsTypeOK, GoesOn
<1> QED BY <1>1, <1>2, <1>3, <1>7, <1>8, UnseenStep

(***************************************************************************)
(* The inductive invariant of the panel.                                   *)
(***************************************************************************)
THEOREM AccountsInductive == AccountsSpec => []AccountsInv
<1>1. AccountsInv /\ [AccountsNext]_accountsVars => AccountsInv'
  <2> SUFFICES ASSUME AccountsInv, [AccountsNext]_accountsVars PROVE AccountsInv'
    OBVIOUS
  <2>1. CASE UNCHANGED accountsVars
    <3>1. UNCHANGED <<pool, changes, payload, panel, flag, task, typed>>
      BY <2>1 DEF accountsVars
    <3>2. GoesOn(task, task')
      BY <3>1 DEF GoesOn
    <3> QED BY <3>1, <3>2, UnseenStep DEF AccountsInv, AccountsTypeOK, RequestsFit
  <2> QED BY <2>1, OperatorStep, OtherConsoleStep, RequestStep, NetworkStep DEF AccountsNext
<1> QED BY <1>1, InitInv, PTL DEF AccountsSpec

(***************************************************************************)
(* Every value has its type, the form of the quick test fits the list, and *)
(* no button is busy without a request (the three effects that follow a    *)
(* payload, and the handlers' finally).                                    *)
(***************************************************************************)
THEOREM AccountsSoundAlways == AccountsSpec => []AccountsSound
<1>1. AccountsInv => AccountsSound
  BY DEF AccountsInv, AccountsSound, ButtonsFit, BusyFits, FlagFits, BusyHasTask, OnScreen
<1> QED BY <1>1, AccountsInductive, PTL

(***************************************************************************)
(* Unsaved values are what was typed over what was seen, whatever has been *)
(* read, saved or removed meanwhile, but for what a save leaves of a       *)
(* workspace gone.                                                         *)
(***************************************************************************)
THEOREM DraftsAreTyped == AccountsSpec => []DraftIsTyped
<1>1. AccountsInv => DraftIsTyped
  BY DEF AccountsInv
<1> QED BY <1>1, AccountsInductive, PTL

(***************************************************************************)
(* A draft goes only when the operator drops it, a save of it has ended,   *)
(* or its workspace is not listed or has that value.                       *)
(***************************************************************************)
THEOREM DraftsSurviveAlways == AccountsSpec => DraftsSurvive
<1>1. ASSUME AccountsInv, AccountsNext, OnScreen, NEW k \in payload.listed,
             Unsaved(panel, payload, k)
      PROVE  KeepsDraft(k)
  <2>1. /\ panel \in Panels /\ panel # NoPanel /\ payload \in Pools /\ k \in Keys
        /\ GoodScreen(panel, payload, typed, task)
    BY <1>1, PanelNow, ScreenNow DEF OnScreen, Pools
  <2>2. ASSUME NEW q \in Panels, q.edits = panel.edits, panel' = q PROVE KeepsDraft(k)
    BY <2>2, PoolsAssumption DEF KeepsDraft
  <2>3. ASSUME Moving PROVE KeepsDraft(k)
    BY <1>1, <2>2, <2>3, Moves DEF Moved, Render, RenderTyped
  <2>4. ASSUME NEW x \in Typed, Type(x[1], x[2], x[3]) PROVE KeepsDraft(k)
    <3>1. x[1] \in Keys /\ x[2] \in Fields /\ x[3] \in Numbers
      BY PanelAssumption
    <3>2. CASE x[1] = k
      BY <2>4, <3>1, <3>2 DEF KeepsDraft
    <3>3. CASE x[1] # k
      <4>1. PICK e \in Drafts: panel' = [panel EXCEPT !.edits = e] /\ e[k] = panel.edits[k]
        BY <1>1, <2>1, <2>4, <3>3, TypeKept DEF RenderTyped
      <4>2. panel' \in Panels /\ panel'.edits = e
        BY <2>1, <4>1, PanelFields
      <4> QED BY <4>1, <4>2, PoolsAssumption DEF KeepsDraft
    <3> QED BY <3>2, <3>3
  <2>5. ASSUME NEW confirmed \in BOOLEAN, Leave(confirmed) PROVE KeepsDraft(k)
    <3>1. flag = TRUE
      BY <1>1, <2>1 DEF AccountsInv, FlagFits, Dirty
    <3> QED BY <2>5, <3>1 DEF Leave, KeepsDraft
  <2>6. ASSUME OtherConsole \/ \E t \in Tasks: Call(t) \/ Read(t) PROVE KeepsDraft(k)
    <3>1. panel' = panel
      BY <2>6 DEF OtherConsole, Call, Read
    <3> QED BY <2>1, <2>2, <3>1
  <2>7. ASSUME NEW t \in Tasks, Request(t) PROVE KeepsDraft(k)
    BY <1>1, <2>2, <2>7, Sends DEF Sent, Send, Render, RenderTyped
  <2>8. ASSUME NEW t \in Tasks, Fails(t) PROVE KeepsDraft(k)
    <3>1. task[t] \in TaskRecords
      BY <2>1 DEF GoodScreen
    <3>2. panel' = IF task[t].own THEN Free(panel, task[t]) ELSE panel
      BY <2>8 DEF Fails, End, RenderTyped
    <3> QED BY <2>1, <2>2, <3>1, <3>2, FreeTypes
  <2>9. ASSUME NEW t \in Tasks, Land(t) PROVE KeepsDraft(k)
    <3> DEFINE p == task[t].got
    <3>1. p \in Pools /\ payload' = p /\ panel' = Adopted(panel, payload, p)
      BY <1>1, <2>1, <2>9 DEF GoodScreen, Carries, Land, At, Render, RenderTyped
    <3>2. panel' \in Panels /\ panel'.edits = Refreshed(panel, payload, p)
      BY <2>1, <3>1, AdoptedTypes
    <3> HIDE DEF p
    <3>3. k \in p.listed => panel'.edits[k] = panel.edits[k]
      BY <1>1, <2>1, <3>2 DEF Refreshed
    <3> QED BY <3>1, <3>2, <3>3, PoolsAssumption DEF KeepsDraft
  <2>10. ASSUME NEW t \in Tasks, Ends(t) PROVE KeepsDraft(k)
    <3>1. task[t] \in TaskRecords /\ Carries(task[t]) /\ TriedFits(panel.tried, payload)
      BY <2>1 DEF GoodScreen
    <3>2. panel' = IF task[t].own THEN Done(panel, payload, task[t]) ELSE panel
      BY <2>10 DEF Ends, End, RenderTyped
    <3>3. CASE task[t].own /\ task[t].op = "save" /\ task[t].sent[k] # None
      <4>1. task[t].sent[k] = panel.edits[k]
        BY <1>1, <2>1, <3>3 DEF GoodScreen, SentIsDraft
      <4> QED BY <2>10, <3>3, <4>1 DEF KeepsDraft
    <3>4. CASE task[t].own /\ ~(task[t].op = "save" /\ task[t].sent[k] # None)
      <4>1. panel' \in Panels
            /\ panel'.edits = IF task[t].op = "save"
                              THEN ClearedEdits(panel.edits, payload, task[t].sent) ELSE panel.edits
        BY <2>1, <3>1, <3>2, <3>4, DoneTypes
      <4>2. panel'.edits[k] = panel.edits[k]
        BY <2>1, <3>4, <4>1 DEF ClearedEdits
      <4> QED BY <4>1, <4>2, PoolsAssumption DEF KeepsDraft
    <3>5. CASE ~task[t].own
      BY <2>1, <2>2, <3>2, <3>5
    <3> QED BY <3>3, <3>4, <3>5
  <2>11. ~Enter
    BY <1>1 DEF Enter
  <2>12. ASSUME Discard PROVE KeepsDraft(k)
    BY <2>12 DEF KeepsDraft
  <2> QED BY <1>1, <2>3, <2>4, <2>5, <2>6, <2>7, <2>8, <2>9, <2>10, <2>11, <2>12
        DEF AccountsNext, AccountsOperator, Moving, Network
<1>2. ASSUME AccountsInv, [AccountsNext]_accountsVars
      PROVE  [OnScreen => \A k \in payload.listed: Unsaved(panel, payload, k) => KeepsDraft(k)]_accountsVars
  BY <1>1, <1>2
<1> QED BY <1>2, AccountsInductive, PTL DEF AccountsSpec, DraftsSurvive

(***************************************************************************)
(* The form of the quick test shows what is being tested (runQuickTest and *)
(* the effects of the form), whatever it showed before and whatever has    *)
(* been removed meanwhile; but for a workspace taken from another          *)
(* account's form.                                                         *)
(***************************************************************************)
THEOREM TestsAreShown == AccountsSpec => TestIsShown
<1>1. ASSUME AccountsInv, AccountsNext, NEW t \in Tasks, TestSent(t)
      PROVE  FormShows(task'[t]) \/ BorrowsSpace(task'[t])
  <2> USE DEF TestSent
  <2>1. /\ task \in [Tasks -> TaskRecords] /\ task[t].op = "none" /\ task[t].pc = "idle"
    BY <1>1 DEF AccountsInv, AccountsTypeOK, RequestsFit, Carries, At
  <2>2. task'[t] # task[t]
    BY <1>1, <2>1
  <2>3. ~OtherConsole /\ ~Moving /\ ~Discard /\ ~Enter /\ ~\E x \in Typed: Type(x[1], x[2], x[3])
    BY <2>2, <1>1, Moves DEF OtherConsole, Moved, Discard, Enter, Type
  <2>4. ASSUME NEW confirmed \in BOOLEAN PROVE ~Leave(confirmed)
    <3> DEFINE y == [task[t] EXCEPT !.own = FALSE]
    <3>1. y.pc = "idle" /\ y.op = "none"
      BY <2>1 DEF TaskRecords
    <3>2. Leave(confirmed) => task'[t] = Kept(y)
      BY DEF Leave
    <3> HIDE DEF y
    <3>3. Kept(y) = y
      BY <3>1 DEF Kept
    <3> QED BY <1>1, <3>1, <3>2, <3>3
  <2>5. ASSUME NEW u \in Tasks, Network(u) PROVE FALSE
    <3>1. task[u].pc # "idle"
      BY <2>5 DEF Network, Call, Fails, Read, Land, Ends, At
    <3>2. u # t
      BY <2>1, <3>1
    <3>3. \E y: task' = [task EXCEPT ![u] = y]
      BY <2>5 DEF Network, Call, Fails, Read, Land, Ends, End
    <3> QED BY <2>1, <2>2, <3>2, <3>3
  <2>6. PICK u \in Tasks: Request(u)
    BY <1>1, <2>3, <2>4, <2>5 DEF AccountsNext, AccountsOperator, Moving
  <2>7. PICK q \in Panels, x \in TaskRecords: Sent(u, q, x)
    BY <1>1, <2>6, Sends
  <2>8. task' = [task EXCEPT ![u] = x]
    BY <2>7 DEF Sent, Send
  <2>9. task'[t] = x
    BY <2>1, <2>2, <2>8
  <2> QED BY <1>1, <2>7, <2>9 DEF Sent
<1>2. ASSUME AccountsInv, [AccountsNext]_accountsVars
      PROVE  [\A t \in Tasks: TestSent(t) =>
                FormShows(task'[t]) \/ BorrowsSpace(task'[t])]_accountsVars
  BY <1>1, <1>2
<1> QED BY <1>2, AccountsInductive, PTL DEF AccountsSpec, TestIsShown
===============================================================================
