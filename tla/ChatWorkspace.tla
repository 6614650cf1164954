---------------------------- MODULE ChatWorkspace ----------------------------
(* The chat workspace (chat-workspace.tsx): the conversation on screen, the *)
(* reads that fill it, the turn it runs, the message it changes and the     *)
(* conversation it deletes. The operator acts, answers land and the page is *)
(* reloaded in any order. A transcript is the number of its turns and how   *)
(* much of the last answer it holds.                                        *)
EXTENDS Integers

CONSTANTS
  Convs,     \* the ids of conversations
  Reads,     \* openings and polls in flight at a time (a bound)
  MaxTurns,  \* turns of a conversation (a bound)
  Full,      \* the length of an answer that is complete
  NoConv     \* the empty conversationID

ASSUME ChatAssumption ==
  /\ NoConv \notin Convs
  /\ MaxTurns \in Nat \ {0} /\ Full \in Nat \ {0}

VARIABLES
  store,    \* the server's conversations
  conv,     \* conversationID
  shown,    \* messages
  loading, failed, remote,  \* loading, loadFailed, remoteRunning
  editing,  \* the conversation of the message that is edited (editingID)
  read,     \* loads of openConversation and of the poll
  run,      \* performRun; abortRef is set and running is true unless it is idle
  change,   \* commitEdit or removeMessage; savingEdit is true unless it is idle
  row,      \* removeConversation
  saved     \* the conversationID kept in the browser's storage

screen == <<conv, shown, loading, failed, remote, editing>>
vars == <<store, screen, read, run, change, row, saved>>

Ids == Convs \cup {NoConv}
Transcripts == [of: Ids, turns: 0..MaxTurns, text: 0..Full,
                mine: BOOLEAN,   \* it ends with the answer of this page's last turn
                moved: BOOLEAN]  \* history: that turn was put in another conversation
Stored == [state: {"never", "live", "gone"}, turns: 0..MaxTurns, text: 0..Full, busy: BOOLEAN]

ReadRecords == [kind: {"none", "open", "poll"}, pc: {"idle", "asked", "answered"},
                of: Ids, got: Stored]
RunRecords == [pc: {"idle", "files", "sent", "stream", "settle", "settled"},
               of: Ids, into: Ids, ok: BOOLEAN, aborted: BOOLEAN, got: Stored]
ChangeRecords == [kind: {"edit", "remove"}, pc: {"idle", "asked", "answered", "list"},
                  of: Ids, message: Ids, got: Stored]
RowRecords == [pc: {"idle", "asked", "answered"}, of: Ids, open: BOOLEAN]

Blank == [of |-> NoConv, turns |-> 0, text |-> 0, mine |-> FALSE, moved |-> FALSE]
Unborn == [state |-> "never", turns |-> 0, text |-> 0, busy |-> FALSE]
Gone == [Unborn EXCEPT !.state = "gone"]

\* The messages of a conversation as a read brings them.
Messages(c, s) == [Blank EXCEPT !.of = c, !.turns = s.turns, !.text = s.text]

Running == run.pc # "idle"
Saving == change.pc # "idle"

NoRead == [kind |-> "none", pc |-> "idle", of |-> NoConv, got |-> Unborn]
NoRun == [pc |-> "idle", of |-> NoConv, into |-> NoConv, ok |-> FALSE,
          aborted |-> FALSE, got |-> Unborn]
NoChange == [kind |-> "edit", pc |-> "idle", of |-> NoConv, message |-> NoConv, got |-> Unborn]
NoRow == [pc |-> "idle", of |-> NoConv, open |-> FALSE]

-----------------------------------------------------------------------------
(* Parts of the handlers *)

\* The rows of the list are there to be opened or deleted while no turn runs.
RowsOffered == ~Running

\* So are the buttons of a message, unless another change is being saved.
MessageOffered == ~Running /\ ~Saving /\ shown.turns > 0

\* A message whose edit is open can be saved or left alone while nothing is saved.
EditOffered == editing # NoConv /\ ~Saving

\* The composer takes a message for a conversation that is on screen and at rest.
ComposerOffered == ~Running /\ ~loading /\ ~failed /\ ~remote

\* A read that is asked for now. loadRevision has moved on, or the effect of the
\* poll has been torn down: the reads in flight before have lost their claim on
\* the screen, their answers do nothing, and the model forgets them.
Asked(kind, c) == [kind |-> kind, pc |-> "asked", of |-> c, got |-> Unborn]
Superseded == [t \in Reads |-> NoRead]

\* Mutant: an opening leaves the reads before it alone.
OnlyAnother(t, c) == [read EXCEPT ![t] = Asked("open", c)]

Only(t, c) == [u \in Reads |-> IF u = t THEN Asked("open", c) ELSE NoRead]

\* openConversation up to its await.
Opened(t, c) ==
  /\ conv' = c /\ shown' = Blank
  /\ loading' = TRUE /\ failed' = FALSE /\ remote' = FALSE /\ editing' = NoConv
  /\ read' = Only(t, c)

\* Mutant: resetConversation leaves the spinner of the load it has given up.
ClearedLoading ==
  /\ conv' = NoConv /\ shown' = Blank
  /\ loading' = loading /\ failed' = FALSE /\ remote' = FALSE /\ editing' = NoConv
  /\ read' = Superseded

\* What resetConversation does when no turn runs.
Cleared ==
  /\ conv' = NoConv /\ shown' = Blank
  /\ loading' = FALSE /\ failed' = FALSE /\ remote' = FALSE /\ editing' = NoConv
  /\ read' = Superseded

\* The storage follows the screen while nothing is being loaded.
Persisted == saved' = IF loading' THEN saved ELSE conv'

Init ==
  /\ store \in [Convs -> {Unborn} \cup
                  {[state |-> "live", turns |-> 1, text |-> Full, busy |-> b]: b \in BOOLEAN}]
  /\ saved \in Convs \cup {NoConv}
  /\ conv = saved /\ shown = Blank
  /\ loading = (saved # NoConv) /\ failed = FALSE /\ remote = FALSE /\ editing = NoConv
  /\ run = NoRun /\ change = NoChange /\ row = NoRow
  /\ IF saved = NoConv THEN read = [t \in Reads |-> NoRead]
     ELSE \E t \in Reads:
            read = [u \in Reads |-> IF u = t THEN Asked("open", saved) ELSE NoRead]

-----------------------------------------------------------------------------
(* The operator *)

\* A conversation of the list, the retry button, or one to resume.
Open(t, c) ==
  /\ RowsOffered /\ read[t].pc = "idle"
  /\ store[c].state # "never" \/ (failed /\ c = conv)
  /\ Opened(t, c) /\ Persisted
  /\ UNCHANGED <<store, run, change, row>>

New ==
  /\ ~Running
  /\ Cleared /\ Persisted
  /\ UNCHANGED <<store, run, change, row>>

StartEdit ==
  /\ MessageOffered
  /\ editing' = shown.of
  /\ UNCHANGED <<store, conv, shown, loading, failed, remote, read, run, change, row, saved>>

CancelEdit ==
  /\ EditOffered
  /\ editing' = NoConv
  /\ UNCHANGED <<store, conv, shown, loading, failed, remote, read, run, change, row, saved>>

\* commitEdit, of a message on screen; the edit may have been opened before a turn
\* was started.
CommitEdit ==
  /\ EditOffered /\ conv # NoConv /\ editing = shown.of
  /\ change' = [kind |-> "edit", pc |-> "asked", of |-> conv, message |-> editing, got |-> Unborn]
  /\ UNCHANGED <<store, screen, read, run, row, saved>>

\* removeMessage, after a confirmation.
RemoveMessage ==
  /\ MessageOffered /\ conv # NoConv
  /\ change' = [kind |-> "remove", pc |-> "asked", of |-> conv, message |-> shown.of, got |-> Unborn]
  /\ UNCHANGED <<store, screen, read, run, row, saved>>

\* The message is sent; a new conversation gets a fresh id.
Perform(c) ==
  /\ ComposerOffered /\ ~Saving
  /\ IF conv = NoConv THEN store[c].state = "never" ELSE c = conv
  /\ run' = [NoRun EXCEPT !.pc = "files", !.of = c]
  /\ UNCHANGED <<store, screen, read, change, row, saved>>

Stop ==
  /\ run.pc \in {"files", "sent", "stream"} /\ ~run.aborted
  /\ run' = [run EXCEPT !.aborted = TRUE]
  /\ UNCHANGED <<store, screen, read, change, row, saved>>

\* The row of a conversation is deleted, after a confirmation. Whether it is the
\* open one is seen by the handler of the render in which it was clicked.
Remove(c) ==
  /\ row.pc = "idle" /\ RowsOffered
  /\ store[c].state = "live" /\ ~store[c].busy
  /\ row' = [pc |-> "asked", of |-> c, open |-> conv = c]
  /\ UNCHANGED <<store, screen, read, run, change, saved>>

\* The page is reloaded, or left and entered again: the workspace is mounted
\* anew with what the storage holds.
Reload(t) ==
  /\ run' = NoRun /\ change' = NoChange /\ row' = NoRow
  /\ conv' = saved /\ shown' = Blank /\ loading' = (saved # NoConv)
  /\ failed' = FALSE /\ remote' = FALSE /\ editing' = NoConv
  /\ read' = IF saved = NoConv THEN Superseded ELSE Only(t, saved)
  /\ UNCHANGED <<store, saved>>

-----------------------------------------------------------------------------
(* The server, and its other clients *)

Begun(s) == [state |-> "live", turns |-> s.turns + 1, text |-> 0, busy |-> TRUE]

OtherTurn(c) ==
  /\ store[c].state = "live" /\ ~store[c].busy /\ store[c].turns < MaxTurns
  /\ store' = [store EXCEPT ![c] = Begun(@)]
  /\ UNCHANGED <<screen, read, run, change, row, saved>>

\* More of the answer is in the snapshot; it may lag behind the stream.
ServerGoes(c) ==
  /\ store[c].busy /\ store[c].text < Full
  /\ store' = [store EXCEPT ![c].text = @ + 1]
  /\ UNCHANGED <<screen, read, run, change, row, saved>>

\* The turn is completed, or ends as it is.
ServerEnds(c) ==
  /\ store[c].busy
  /\ \E text \in {Full, store[c].text}:
       store' = [store EXCEPT ![c].text = text, ![c].busy = FALSE]
  /\ UNCHANGED <<screen, read, run, change, row, saved>>

OtherDelete(c) ==
  /\ store[c].state = "live" /\ ~store[c].busy
  /\ store' = [store EXCEPT ![c] = Gone]
  /\ UNCHANGED <<screen, read, run, change, row, saved>>

-----------------------------------------------------------------------------
(* Openings and polls *)

Poll(t) ==
  /\ remote /\ conv # NoConv /\ read[t].pc = "idle"
  /\ read' = [read EXCEPT ![t] = Asked("poll", conv)]
  /\ UNCHANGED <<store, screen, run, change, row, saved>>

AnswerRead(t) ==
  /\ read[t].pc = "asked"
  /\ read' = [read EXCEPT ![t].pc = "answered", ![t].got = store[read[t].of]]
  /\ UNCHANGED <<store, screen, run, change, row, saved>>

\* The reads after read t, when the effect of the poll follows remote: its other
\* polls go on while the conversation still runs.
Landed(t) == IF remote' THEN [read EXCEPT ![t] = NoRead] ELSE Superseded

LandFound(t) ==
  /\ read[t].pc = "answered" /\ read[t].got.state = "live"
  /\ shown' = Messages(read[t].of, read[t].got)
  /\ remote' = read[t].got.busy
  /\ loading' = (loading /\ read[t].kind # "open")
  /\ UNCHANGED <<store, conv, failed, editing, run, change, row>>
  /\ read' = Landed(t) /\ Persisted

\* The record is missing: an opening goes on with a new conversation, unless a
\* turn runs; a poll tries again.
LandMissing(t) ==
  /\ read[t].pc = "answered" /\ read[t].got.state # "live"
  /\ read[t].kind = "open" /\ ~Running
  /\ conv' = NoConv /\ shown' = Blank
  /\ loading' = FALSE /\ failed' = FALSE /\ remote' = FALSE /\ editing' = NoConv
  /\ read' = Superseded
  /\ UNCHANGED <<store, run, change, row>> /\ Persisted

\* The read fails: an opening can be retried, a poll tries again.
LandError(t) ==
  /\ read[t].pc # "idle"
  /\ failed' = (failed \/ read[t].kind = "open")
  /\ loading' = (loading /\ read[t].kind # "open")
  /\ read' = [read EXCEPT ![t] = NoRead]
  /\ UNCHANGED <<store, conv, shown, remote, editing, run, change, row>> /\ Persisted

-----------------------------------------------------------------------------
(* The turn *)

\* The files are read: the question and an empty answer are put on screen and
\* the request is sent, unless the operator has stopped the turn.
FilesRead ==
  /\ run.pc = "files"
  /\ UNCHANGED <<store, loading, failed, remote, editing, read, change, row>>
  /\ IF run.aborted
       THEN run' = NoRun /\ UNCHANGED <<conv, shown, saved>>
       ELSE /\ shown.turns < MaxTurns
            /\ run' = [run EXCEPT !.pc = "sent"]
            /\ conv' = run.of
            /\ shown' = [of |-> IF conv = NoConv THEN run.of ELSE shown.of,
                         turns |-> shown.turns + 1, text |-> 0,
                         mine |-> TRUE, moved |-> shown.moved]
            /\ Persisted

\* A conversation whose first turn may not have got a thread.
MayLackThread(s) == s.state = "live" /\ s.turns = 1 /\ s.text = 0

\* Where the server runs the turn: it continues the conversation, refusing one
\* that is busy, and begins one that is missing with the id it was asked for. A
\* conversation without a thread cannot be continued, and keeps its id: the turn
\* begins a new one.
TakenBy(c) ==
  \/ c = run.of /\ ~store[c].busy
  \/ MayLackThread(store[run.of]) /\ store[c].state = "never"

\* The server begins the turn of the request.
ServerTakes ==
  /\ run.pc = "sent" /\ ~run.aborted
  /\ \E c \in Convs:
       /\ TakenBy(c) /\ store[c].turns < MaxTurns
       /\ store' = [store EXCEPT ![c] = Begun(@)]
       /\ run' = [run EXCEPT !.pc = "stream", !.into = c]
  /\ UNCHANGED <<screen, read, change, row, saved>>

\* A piece of the answer, for the message it was sent for.
Delta ==
  /\ run.pc = "stream" /\ shown.mine /\ shown.text < Full
  /\ shown' = [shown EXCEPT !.text = @ + 1]
  /\ UNCHANGED <<store, conv, loading, failed, remote, editing, read, run, change, row, saved>>

\* The stream has ended as it should, with its closing mark: the answer is whole.
StreamDone == run.pc = "stream" /\ ~store[run.into].busy /\ store[run.into].text = Full

\* The result arrives: the answer is complete, and the conversation that the server
\* says it belongs to is open from now on, and read once more.
RunSucceeds ==
  /\ StreamDone
  /\ shown' = [shown EXCEPT !.text = IF shown.mine THEN Full ELSE @,
                            !.moved = @ \/ run.into # run.of]
  /\ run' = [run EXCEPT !.pc = "settle", !.ok = TRUE, !.of = run.into]
  /\ conv' = run.into
  /\ UNCHANGED <<store, loading, failed, remote, editing, read, change, row>> /\ Persisted

\* A file cannot be read: nothing has been sent, the conversation is read anyway.
FilesFail ==
  /\ run.pc = "files"
  /\ run' = [run EXCEPT !.pc = "settle"]
  /\ UNCHANGED <<store, screen, read, change, row, saved>>

\* The request is refused, the stream ends without its closing mark or the turn is
\* stopped: what is on screen stays, and the conversation is read.
RunFails ==
  /\ run.pc \in {"sent", "stream"}
  /\ run' = [run EXCEPT !.pc = "settle"]
  /\ UNCHANGED <<store, screen, read, change, row, saved>>

SettleAsked ==
  /\ run.pc = "settle"
  /\ run' = [run EXCEPT !.pc = "settled", !.got = store[run.of]]
  /\ UNCHANGED <<store, screen, read, change, row, saved>>

\* Mutant: the snapshot is shown as it is.
OverlaidBare(s) == Messages(run.of, s)

\* What is shown once the snapshot of a failed turn is there: the answer that
\* was seen, if it is longer than the one the snapshot ends with. The message of
\* the answer is stored with its first piece: a snapshot without any of it ends with
\* the question, and is shown as it is.
Overlaid(s) ==
  IF shown.mine /\ s.text > 0 /\ shown.text > s.text
    THEN [Messages(run.of, s) EXCEPT !.text = shown.text]
    ELSE Messages(run.of, s)

SettleLands ==
  /\ run.pc = "settled" /\ run.got.state = "live"
  /\ shown' = IF run.ok THEN Messages(run.of, run.got) ELSE Overlaid(run.got)
  /\ remote' = IF run.ok THEN remote ELSE run.got.busy
  /\ run' = NoRun
  /\ UNCHANGED <<store, conv, loading, failed, editing, read, change, row, saved>>

\* The conversation is not there, or cannot be read: the turn stays as it is.
SettleFails ==
  /\ run.pc = "settle" \/ (run.pc = "settled" /\ run.got.state # "live")
  /\ run' = NoRun
  /\ UNCHANGED <<store, screen, read, change, row, saved>>

-----------------------------------------------------------------------------
(* A changed message, a deleted conversation *)

AnswerChange ==
  /\ change.pc = "asked" /\ change.message = change.of
  /\ store[change.of].state = "live" /\ ~store[change.of].busy
  /\ change' = [change EXCEPT !.pc = "answered", !.got = store[change.of]]
  /\ UNCHANGED <<store, screen, read, run, row, saved>>

\* The answer carries the whole conversation; it is shown if that is still open.
\* The list is read again before the next change or turn.
LandChange ==
  /\ change.pc = "answered"
  /\ shown' = IF conv = change.of THEN Messages(change.of, change.got) ELSE shown
  /\ editing' = IF change.kind = "edit" \/ conv = change.of THEN NoConv ELSE editing
  /\ change' = [NoChange EXCEPT !.pc = "list"]
  /\ UNCHANGED <<store, conv, loading, failed, remote, read, run, row, saved>>

\* The change is refused, its answer is lost, or the list has been read or not.
ChangeEnds ==
  /\ change.pc # "idle"
  /\ change' = NoChange
  /\ UNCHANGED <<store, screen, read, run, row, saved>>

\* The server deletes the conversation, and the answer lands with the list.
AnswerRemove ==
  /\ row.pc = "asked" /\ store[row.of].state = "live" /\ ~store[row.of].busy
  /\ store' = [store EXCEPT ![row.of] = Gone]
  /\ row' = [row EXCEPT !.pc = "answered"]
  /\ UNCHANGED <<screen, read, run, change, saved>>

\* Mutant: a turn does not keep resetConversation from clearing the screen.
LandRemoveAnyway ==
  /\ row.pc = "answered"
  /\ row' = NoRow
  /\ UNCHANGED <<store, run, change>>
  /\ IF row.open THEN Cleared /\ Persisted
     ELSE UNCHANGED <<screen, read, saved>>

\* startNew, if the conversation was the open one when its row was clicked;
\* resetConversation leaves a screen alone on which a turn runs.
LandRemove ==
  /\ row.pc = "answered"
  /\ row' = NoRow
  /\ UNCHANGED <<store, run, change>>
  /\ IF row.open /\ ~Running THEN Cleared /\ Persisted
     ELSE UNCHANGED <<screen, read, saved>>

RemoveFails ==
  /\ row.pc # "idle"
  /\ row' = NoRow
  /\ UNCHANGED <<store, screen, read, run, change, saved>>

-----------------------------------------------------------------------------
Operator ==
  \/ \E t \in Reads: \/ \E c \in Convs: Open(t, c)
                     \/ Reload(t)
  \/ New \/ Stop \/ StartEdit \/ CancelEdit \/ CommitEdit \/ RemoveMessage
  \/ \E c \in Convs: Perform(c) \/ Remove(c)

Server == \E c \in Convs: OtherTurn(c) \/ ServerGoes(c) \/ ServerEnds(c) \/ OtherDelete(c)

Reading(t) ==
  AnswerRead(t) \/ LandFound(t) \/ LandMissing(t) \/ LandError(t)

Turn ==
  \/ FilesRead \/ ServerTakes \/ Delta \/ RunSucceeds \/ FilesFail \/ RunFails
  \/ SettleAsked \/ SettleLands \/ SettleFails

Changing == AnswerChange \/ LandChange \/ ChangeEnds

Removing == AnswerRemove \/ LandRemove \/ RemoveFails

Next ==
  \/ Operator \/ Server \/ Turn \/ Changing \/ Removing
  \/ \E t \in Reads: Poll(t) \/ Reading(t)

Spec == Init /\ [][Next]_vars

-----------------------------------------------------------------------------
(* Properties *)

TypeOK ==
  /\ store \in [Convs -> Stored]
  /\ conv \in Ids /\ editing \in Ids /\ saved \in Ids
  /\ shown \in Transcripts
  /\ loading \in BOOLEAN /\ failed \in BOOLEAN /\ remote \in BOOLEAN
  /\ read \in [Reads -> ReadRecords] /\ run \in RunRecords
  /\ change \in ChangeRecords /\ row \in RowRecords

\* The transcript on screen is the open conversation's own, whatever loads, polls,
\* edits and turns of other conversations are answered while it is open
\* (loadRevision, activeConversationRef and the poll's cancelled flag). "Switching
\* conversations while this save was in flight must not paste one conversation's
\* messages (and their message IDs) under another one" (chat-workspace.tsx:615).
\* The one exception is a turn that the server has begun a new conversation for,
\* until that one has been read.
TranscriptIsOwn == shown.turns > 0 => shown.of = conv \/ shown.moved

\* A turn has the screen for itself until it is over: its conversation stays open,
\* or the new one that it has not put on screen yet, and nothing loads or polls.
RunHasScreen ==
  Running =>
    /\ conv = run.of \/ (conv = NoConv /\ shown = Blank)
    /\ ~loading /\ ~failed /\ ~remote

\* A screen that loads or has failed to load is waiting for something: its newest
\* load is in flight, or the operator may retry.
LoadingHasRead ==
  /\ loading => \E t \in Reads: read[t].kind = "open" /\ read[t].of = conv
  /\ failed => conv # NoConv /\ ~Running

\* The state of the screen is sound: every value has its type, an answer never
\* longer than it was sent, and nothing waits for nothing (openConversation).
Sound == TypeOK /\ LoadingHasRead

\* What a failed turn has shown of its answer is still there when it is over,
\* however far the server's copy of the answer is behind and whether it can be read or
\* not (chat-workspace.tsx:687); but for a copy that has nothing of the answer.
PartialKept ==
  [][~run.ok /\ shown.mine /\ (SettleFails \/ (SettleLands /\ run.got.text > 0)) =>
       shown'.text >= shown.text]_vars

\* Not kept: "Keep the partial answer until that snapshot catches up"
\* (chat-workspace.tsx:686) of any snapshot. One that ends with the question has no
\* message to put the answer in: that of the old conversation, when the server has
\* begun a new one for the turn, or of a turn that has been stored without its
\* answer. What was on screen is gone.
PartialAlwaysKept ==
  [][~run.ok /\ shown.mine /\ (SettleLands \/ SettleFails) => shown'.text >= shown.text]_vars

\* "A dropped connection can leave the server snapshot behind the visible stream.
\* Keep the partial answer until that snapshot catches up"
\* (chat-workspace.tsx:685): while its turn is the last one of the conversation on
\* screen, an answer never gets shorter.
SameAnswer ==
  /\ shown'.of = shown.of /\ shown'.turns = shown.turns
  /\ <<run, change, conv>>' = <<run, change, conv>>
AnswerNeverShrinks == [][SameAnswer => shown'.text >= shown.text]_vars
===============================================================================
