----------------------------- MODULE EventMerging -----------------------------
(* How the hook of the console (use-admin-console.ts) merges the events of    *)
(* the stream into its list of conversations and into the transcripts it      *)
(* keeps, compared with what a reader of the events would expect. The loops   *)
(* are recursive functions, so that the comparison can be proved as well.     *)
EXTENDS ConversationsPanel

CONSTANTS
  Rows,       \* ids of conversations; ids of messages, too
  Times,      \* values of updated_at
  Home, Elsewhere, \* the Notion thread of a row that was read, and another one
  NoTitle, OldTitle, NewTitle,
  MaxEvents   \* events merged in a row (a bound)

ASSUME MergingAssumption ==
  /\ Times \subseteq Nat /\ Times # {} /\ MaxEvents \in Nat
  /\ NoTitle \notin {OldTitle, NewTitle} /\ OldTitle # NewTitle /\ Home # Elsewhere

\* A row of the list, and the summary of an event, which the server always
\* calls local and may send without a title.
Summaries == [id: Rows, time: Times, thread: {Home}, title: {OldTitle},
              origin: {"local", "merged"}]
SummaryEvents == [id: Rows, time: Times, thread: {Home, Elsewhere}, title: {NoTitle, NewTitle},
                  origin: {"local"}]

\* What carries an id, and where the first with an id is (find, findIndex).
IdsOf(items) == {items[i].id : i \in DOMAIN items}
PlaceOf(items, id) ==
  CHOOSE i \in DOMAIN items : items[i].id = id /\ \A j \in 1..i - 1 : items[j].id # id

DistinctIds(items) == \A i, j \in DOMAIN items : items[i].id = items[j].id => i = j

-----------------------------------------------------------------------------
(* The list *)

\* Newest first; rows of one time keep their order.
SortConversations(rows) ==
  LET before(i, j) == \/ rows[i].time > rows[j].time
                      \/ rows[i].time = rows[j].time /\ i <= j
      rank(j) == Cardinality({i \in DOMAIN rows : before(i, j)})
  IN [k \in DOMAIN rows |-> rows[CHOOSE j \in DOMAIN rows : rank(j) = k]]

\* A title that is missing is taken from the other row.
OrElse(title, other) == IF title = NoTitle THEN other ELSE title

\* The row of an event replaces the one that is shown, except that the title of
\* a merged conversation stays when its local half reports on the same thread.
MergeSummary(current, next) ==
  LET preserve == /\ current.origin = "merged" /\ next.origin = "local"
                  /\ current.thread = next.thread
  IN [next EXCEPT !.title = IF preserve THEN OrElse(current.title, next.title)
                                        ELSE OrElse(next.title, current.title)]

\* Mutant: the row stays where it is, and so may be out of order.
UpsertInPlace(rows, next) ==
  IF next.id \in IdsOf(rows)
    THEN [i \in DOMAIN rows |->
            IF rows[i].id = next.id THEN MergeSummary(rows[i], next) ELSE rows[i]]
    ELSE SortConversations(Append(rows, next))

\* The rows of the other conversations.
Others(rows, id) ==
  LET upTo[n \in 0..Len(rows)] ==
        IF n = 0 THEN <<>>
        ELSE IF rows[n].id = id THEN upTo[n - 1] ELSE Append(upTo[n - 1], rows[n])
  IN upTo[Len(rows)]

\* The row is taken out, merged and put back, and the list sorted again.
UpsertSummary(rows, next) ==
  SortConversations(Append(Others(rows, next.id),
    IF next.id \in IdsOf(rows) THEN MergeSummary(rows[PlaceOf(rows, next.id)], next) ELSE next))

Upserted(rows, events) ==
  LET upTo[n \in 0..Len(events)] ==
        IF n = 0 THEN rows ELSE UpsertSummary(upTo[n - 1], events[n])
  IN upTo[Len(events)]

(* A transcript *)

\* A message replaces the one with its id, or comes last.
MergeMessages(messages, next) ==
  IF next.id \in IdsOf(messages)
    THEN [messages EXCEPT ![PlaceOf(messages, next.id)] = next]
    ELSE Append(messages, next)

Transcript(events) ==
  LET upTo[n \in 0..Len(events)] ==
        IF n = 0 THEN <<>> ELSE MergeMessages(upTo[n - 1], events[n])
  IN upTo[Len(events)]

-----------------------------------------------------------------------------
(* What is expected of several events *)

ListsOver(S, length) == UNION {[1..n -> S] : n \in 0..length}

\* The lists that a read may leave: each conversation once, newest first.
Listings ==
  {l \in ListsOver(Summaries, Cardinality(Rows)) :
     DistinctIds(l) /\ \A i, j \in DOMAIN l : i < j => l[i].time >= l[j].time}

\* The last of some places, and that of the last event of one row.
Latest(places) == CHOOSE k \in places : \A j \in places : j <= k
LastOf(events, id) == Latest({k \in DOMAIN events : events[k].id = id})

\* The events that name a conversation: the first leaves the title of a merged
\* conversation alone, and makes it an ordinary one.
Naming(rows, events, id) ==
  LET was == rows[PlaceOf(rows, id)]
      first == PlaceOf(events, id)
      leaves == /\ id \in IdsOf(rows) /\ was.origin = "merged"
                /\ was.thread = events[first].thread
  IN {k \in DOMAIN events : /\ events[k].id = id /\ events[k].title # NoTitle
                            /\ k = first => ~leaves}

\* The title is the one that was sent last, or that of the row.
TitleOf(rows, events, id) ==
  IF Naming(rows, events, id) # {} THEN events[Latest(Naming(rows, events, id))].title
  ELSE IF id \in IdsOf(rows) THEN rows[PlaceOf(rows, id)].title ELSE NoTitle

\* Where a conversation belongs among those of its time: the one heard of last
\* comes last.
PlaceIn(rows, events, id) ==
  IF id \in IdsOf(events) THEN Len(rows) + LastOf(events, id) ELSE PlaceOf(rows, id)

\* Every conversation is listed once, as its last event tells it, newest first.
Settled(rows, events, after) ==
  /\ DistinctIds(after) /\ IdsOf(after) = IdsOf(rows) \cup IdsOf(events)
  /\ \A i \in DOMAIN after :
       LET id == after[i].id IN
       IF id \in IdsOf(events)
         THEN after[i] = [events[LastOf(events, id)] EXCEPT !.title = TitleOf(rows, events, id)]
         ELSE after[i] = rows[PlaceOf(rows, id)]
  /\ \A i, j \in DOMAIN after : i < j =>
       \/ after[i].time > after[j].time
       \/ /\ after[i].time = after[j].time
          /\ PlaceIn(rows, events, after[i].id) < PlaceIn(rows, events, after[j].id)

\* Messages stay in the order in which they were first heard of, with the text
\* heard last.
Transcribed(events, after) ==
  /\ IdsOf(after) = IdsOf(events)
  /\ \A i \in DOMAIN after : after[i] = events[LastOf(events, after[i].id)]
  /\ \A i, j \in DOMAIN after :
       i < j => PlaceOf(events, after[i].id) < PlaceOf(events, after[j].id)

EveryUpsert ==
  \A rows \in Listings, events \in ListsOver(SummaryEvents, MaxEvents) :
    Settled(rows, events, Upserted(rows, events))

EveryDelta ==
  \A events \in ListsOver([id: Rows, text: Times], MaxEvents + 1) :
    Transcribed(events, Transcript(events))

\* A row of the console's list as the hook holds it, its time the earliest.
RowOf(c, title) ==
  [id |-> c, time |-> CHOOSE t \in Times : \A u \in Times : t <= u,
   thread |-> Home, title |-> title, origin |-> "local"]

\* The lists that the conversations on screen may form.
Listed == {l \in ListsOver({RowOf(c, OldTitle) : c \in InList(list)}, Cardinality(Convs)) :
             DistinctIds(l) /\ IdsOf(l) = InList(list)}

\* Whatever events come in a row, also twice or for rows of one time: the list
\* stays newest first and names each conversation once, with the title that was
\* sent last, the first event of a merged conversation aside
\* (upsertConversationSummary); so landing an event adds at most its own
\* conversation to the list.
UpsertsAgree ==
  /\ EveryUpsert
  /\ \A i \in DOMAIN queue, rows \in Listed :
       LET after == UpsertSummary(rows, RowOf(queue[i].conv, NewTitle))
       IN DistinctIds(after) /\ IdsOf(after) = InList(list) \cup {queue[i].conv}

\* Whatever deltas come in a row: the transcript holds each message once, in the
\* order first heard of, with the text heard last (mergeConversationMessages);
\* likewise for the events on their way.
DeltasAgree ==
  /\ EveryDelta
  /\ LET heard == [i \in DOMAIN queue |-> [id |-> queue[i].conv, text |-> queue[i].status]]
     IN Transcribed(heard, Transcript(heard))

\* What the hook makes of its events, list and transcripts: both of the above.
MergingAgrees == UpsertsAgree /\ DeltasAgree
===============================================================================
