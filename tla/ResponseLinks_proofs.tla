------------------------ MODULE ResponseLinks_proofs ------------------------
(***************************************************************************)
(* For every set of conversations and answers and every capacity of the    *)
(* queue: a deletion reaches all answers of its conversation, and what can *)
(* be continued can be continued after a restart.                          *)
(***************************************************************************)
EXTENDS ResponseLinks, SequenceTheorems, TLAPS

USE LinksAssumption

-----------------------------------------------------------------------------
(* The inductive invariant *)

\* A deletion has forgotten the answers of c, and has asked to delete their rows.
Forgotten(c) == del[c] \in {"send", "room", "inline", "row", "remove"} \/ conv[c] = "gone"
Asked(c) == del[c] \in {"row", "remove"} \/ conv[c] = "gone"

Active == {"running", "saved", "inline", "sent"}

\* A conversation is claimed while it is deleted, and its row goes after the request.
Claimed ==
  \A c \in Convs : /\ del[c] # "none" <=> conv[c] = "deleting"
                   /\ c \notin stored => del[c] = "remove" \/ conv[c] = "gone"

\* A conversation runs while one of its answers is on its way; the answer of a failed
\* turn is on record when it is saved.
Running ==
  /\ \A r \in Responses : turn[r] \in Active => conv[Home[r]] = "running"
  /\ \A r, s \in Responses :
       turn[r] \in Active /\ turn[s] \in Active /\ Home[r] = Home[s] => r = s
  /\ \A r \in Responses : turn[r] \in {"late", "lateInline"} => r \in leaked

\* Who waits for room waits once, and only a closed writer is worked around.
Waiting ==
  /\ \A i, j \in DOMAIN waiters : waiters[i] = waiters[j] => i = j
  /\ \A c \in Convs : del[c] = "inline" => writer \in {"closed", "drained"}

OutOfMemory == \A r \in Responses \ leaked : Forgotten(Home[r]) => r \notin links

OutOfTable ==
  \A r \in Responses \ leaked :
    Asked(Home[r]) /\ (row[r] # "none" \/ IsPending(Save(r))) => DeleteBehind(r)

\* A write of the answer that is still to be carried out behind every deletion.
SaveBehind(r) ==
  \E i \in DOMAIN Pending :
     /\ Pending[i] = Save(r)
     /\ \A j \in DOMAIN Pending : j > i => Pending[j] # Delete(Home[r])

\* A deletion that was given up does not take a newer answer with it.
SavedAfter ==
  \A r \in links \ (unsaved \cup leaked) :
    IsPending(Delete(Home[r])) => turn[r] \in {"saved", "inline"} \/ SaveBehind(r)

IInv ==
  /\ TypeOK /\ Claimed /\ Running /\ Waiting
  /\ OutOfMemory /\ OutOfTable /\ SavedAfter /\ LinksAreDurable

-----------------------------------------------------------------------------
(* Operations and the order in which they are still to be carried out      *)

LEMMA OpFacts ==
  /\ \A r \in Responses : Save(r) \in Ops /\ Save(r).op = "save" /\ Save(r).of = r
  /\ \A c \in Convs : Delete(c) \in Ops /\ Delete(c).op = "delete" /\ Delete(c).of = c
  /\ \A r \in Responses, c \in Convs : Save(r) # Delete(c)
  /\ \A r, s \in Responses : Save(r) = Save(s) => r = s
  /\ \A c, d \in Convs : Delete(c) = Delete(d) => c = d
  /\ \A op \in Ops : \/ \E r \in Responses : op = Save(r)
                     \/ \E c \in Convs : op = Delete(c)
<1>1. \A r \in Responses : Save(r) \in Ops /\ Save(r).op = "save" /\ Save(r).of = r
  BY DEF Save, Ops, SaveOps
<1>2. \A c \in Convs : Delete(c) \in Ops /\ Delete(c).op = "delete" /\ Delete(c).of = c
  BY DEF Delete, Ops, DeleteOps
<1>3. \A op \in Ops : \/ \E r \in Responses : op = Save(r)
                      \/ \E c \in Convs : op = Delete(c)
  BY DEF Save, Delete, Ops, SaveOps, DeleteOps
<1>4. \A r \in Responses, c \in Convs : Save(r) # Delete(c)
  BY <1>1, <1>2
<1>5. \A r, s \in Responses : Save(r) = Save(s) => r = s
  BY <1>1, Zenon
<1>6. \A c, d \in Convs : Delete(c) = Delete(d) => c = d
  BY <1>2, Zenon
<1> QED BY <1>1, <1>2, <1>3, <1>4, <1>5, <1>6

In(s, x) == \E i \in DOMAIN s : s[i] = x
Last(s, x, y) == \E i \in DOMAIN s : s[i] = x /\ \A j \in DOMAIN s : j > i => s[j] # y

LEMMA AppendFacts ==
  ASSUME NEW s \in Seq(Ops), NEW e \in Ops, NEW x, NEW y
  PROVE  /\ In(Append(s, e), x) <=> In(s, x) \/ x = e
         /\ e # y /\ (e = x \/ Last(s, x, y)) => Last(Append(s, e), x, y)
<1> DEFINE t == Append(s, e)
<1>1. /\ Len(s) \in Nat /\ DOMAIN s = 1 .. Len(s) /\ DOMAIN t = 1 .. Len(s) + 1
      /\ \A i \in 1 .. Len(s) : t[i] = s[i]
      /\ t[Len(s) + 1] = e
  BY AppendProperties, LenProperties
<1> HIDE DEF t
<1>2. In(t, x) <=> In(s, x) \/ x = e
  <2>1. ASSUME In(t, x) PROVE In(s, x) \/ x = e
    BY <1>1, <2>1 DEF In
  <2>2. ASSUME In(s, x) PROVE In(t, x)
    BY <1>1, <2>2 DEF In
  <2>3. ASSUME x = e PROVE In(t, x)
    BY <1>1, <2>3 DEF In
  <2> QED BY <2>1, <2>2, <2>3
<1>3. ASSUME e # y, e = x PROVE Last(t, x, y)
  BY <1>1, <1>3 DEF Last
<1>4. ASSUME e # y, Last(s, x, y) PROVE Last(t, x, y)
  <2>1. PICK i \in 1 .. Len(s) : s[i] = x /\ \A j \in 1 .. Len(s) : j > i => s[j] # y
    BY <1>1, <1>4 DEF Last
  <2>2. ASSUME NEW j \in 1 .. Len(s) + 1, j > i PROVE t[j] # y
    BY <1>1, <1>4, <2>1, <2>2
  <2> QED BY <1>1, <2>1, <2>2 DEF Last
<1> QED BY <1>2, <1>3, <1>4 DEF t

LEMMA TailFacts ==
  ASSUME NEW s \in Seq(Ops), s # <<>>, NEW x, NEW y
  PROVE  /\ In(s, Head(s))
         /\ In(Tail(s), x) => In(s, x)
         /\ In(s, x) => x = Head(s) \/ In(Tail(s), x)
         /\ Last(s, x, y) => Last(Tail(s), x, y) \/ (x = Head(s) /\ ~In(Tail(s), y))
<1> DEFINE t == Tail(s)
<1>1. /\ Len(s) \in Nat \ {0} /\ DOMAIN s = 1 .. Len(s) /\ DOMAIN t = 1 .. Len(s) - 1
      /\ \A i \in 1 .. Len(s) - 1 : t[i] = s[i + 1]
      /\ Head(s) = s[1]
  BY HeadTailProperties, LenProperties, EmptySeq
<1> HIDE DEF t
<1>2. In(s, Head(s)) /\ (In(t, x) => In(s, x))
  <2>1. 1 \in DOMAIN s /\ s[1] = Head(s)
    BY <1>1
  <2>2. \A i \in DOMAIN t : i + 1 \in DOMAIN s /\ s[i + 1] = t[i]
    BY <1>1
  <2>3. In(s, Head(s))
    BY <2>1, Zenon DEF In
  <2>4. ASSUME In(t, x) PROVE In(s, x)
    <3>1. PICK i \in DOMAIN t : t[i] = x
      BY <2>4, Zenon DEF In
    <3> QED BY <2>2, <3>1, Zenon DEF In
  <2> QED BY <2>3, <2>4
<1>3. ASSUME NEW i \in 1 .. Len(s), i # 1
      PROVE  i - 1 \in 1 .. Len(s) - 1 /\ t[i - 1] = s[i]
  BY <1>1, <1>3
<1>4. ASSUME In(s, x) PROVE x = Head(s) \/ In(t, x)
  <2>1. PICK i \in 1 .. Len(s) : s[i] = x
    BY <1>1, <1>4 DEF In
  <2>2. CASE i = 1
    BY <1>1, <2>1, <2>2
  <2>3. CASE i # 1
    <3>1. i - 1 \in DOMAIN t /\ t[i - 1] = x
      BY <1>1, <1>3, <2>1, <2>3
    <3> QED BY <3>1, Zenon DEF In
  <2> QED BY <2>2, <2>3
<1>5. ASSUME Last(s, x, y) PROVE Last(t, x, y) \/ (x = Head(s) /\ ~In(t, y))
  <2>1. PICK i \in 1 .. Len(s) : s[i] = x /\ \A j \in 1 .. Len(s) : j > i => s[j] # y
    BY <1>1, <1>5 DEF Last
  <2>2. CASE i = 1
    BY <1>1, <2>1, <2>2 DEF In
  <2>3. CASE i # 1
    <3>1. i - 1 \in DOMAIN t /\ t[i - 1] = x
      BY <1>1, <1>3, <2>1, <2>3
    <3>2. ASSUME NEW j \in DOMAIN t, j > i - 1 PROVE t[j] # y
      BY <1>1, <2>1, <3>2
    <3> QED BY <3>1, <3>2 DEF Last
  <2> QED BY <2>2, <2>3
<1> QED BY <1>2, <1>4, <1>5 DEF t

LEMMA InPending ==
  /\ \A op : IsPending(op) <=> In(Pending, op)
  /\ \A r : DeleteBehind(r) <=> Last(Pending, Delete(Home[r]), Save(r))
  /\ \A r : SaveBehind(r) <=> Last(Pending, Save(r), Delete(Home[r]))
BY Zenon DEF IsPending, DeleteBehind, SaveBehind, In, Last

LEMMA InPendingNext ==
  /\ \A op : IsPending(op)' <=> In(Pending', op)
  /\ \A r : DeleteBehind(r)' <=> Last(Pending', Delete(Home[r]), Save(r))
  /\ \A r : SaveBehind(r)' <=> Last(Pending', Save(r), Delete(Home[r]))
BY Zenon DEF IsPending, DeleteBehind, SaveBehind, In, Last

LEMMA PendingType ==
  ASSUME TypeOK
  PROVE  Pending \in Seq(Ops)
<1>1. hand = Nothing \/ <<hand>> \in Seq(Ops)
  BY DEF TypeOK
<1>2. queue \in Seq(Ops) /\ <<>> \in Seq(Ops)
  BY EmptySeq DEF TypeOK
<1> QED BY <1>1, <1>2, ConcatProperties DEF Pending

\* What is to be carried out stays, gets one more at its end, or loses its first.
Same ==
  /\ \A op \in Ops : IsPending(op)' <=> IsPending(op)
  /\ \A r \in Responses : /\ DeleteBehind(r)' <=> DeleteBehind(r)
                          /\ SaveBehind(r)' <=> SaveBehind(r)

Added(op) ==
  /\ \A x \in Ops : IsPending(x)' <=> IsPending(x) \/ x = op
  /\ \A r \in Responses :
       /\ op # Save(r) /\ (op = Delete(Home[r]) \/ DeleteBehind(r)) => DeleteBehind(r)'
       /\ op # Delete(Home[r]) /\ (op = Save(r) \/ SaveBehind(r)) => SaveBehind(r)'

Landed(op) ==
  /\ IsPending(op)
  /\ \A x \in Ops : /\ IsPending(x)' => IsPending(x)
                    /\ IsPending(x) => x = op \/ IsPending(x)'
  /\ \A r \in Responses :
       /\ DeleteBehind(r) => DeleteBehind(r)' \/ (op = Delete(Home[r]) /\ ~IsPending(Save(r))')
       /\ SaveBehind(r) => SaveBehind(r)' \/ (op = Save(r) /\ ~IsPending(Delete(Home[r]))')

LEMMA StaysSame ==
  ASSUME UNCHANGED <<queue, hand>>
  PROVE  Same
<1>1. Pending' = Pending
  BY DEF Pending
<1> QED BY <1>1, InPending, InPendingNext, Zenon DEF Same

LEMMA AddedEffect ==
  ASSUME TypeOK, NEW op \in Ops, Pending' = Append(Pending, op)
  PROVE  Added(op)
<1>1. Pending \in Seq(Ops)
  BY PendingType
<1>2. ASSUME NEW x \in Ops PROVE IsPending(x)' <=> IsPending(x) \/ x = op
  <2>1. In(Append(Pending, op), x) <=> In(Pending, x) \/ x = op
    BY <1>1, AppendFacts, Zenon
  <2> QED BY <2>1, InPending, InPendingNext, Zenon
<1>3. ASSUME NEW r \in Responses, op # Save(r), op = Delete(Home[r]) \/ DeleteBehind(r)
      PROVE  DeleteBehind(r)'
  <2>1. Last(Append(Pending, op), Delete(Home[r]), Save(r))
    BY <1>1, <1>3, AppendFacts, InPending, Zenon
  <2> QED BY <2>1, InPendingNext, Zenon
<1>4. ASSUME NEW r \in Responses, op # Delete(Home[r]), op = Save(r) \/ SaveBehind(r)
      PROVE  SaveBehind(r)'
  <2>1. Last(Append(Pending, op), Save(r), Delete(Home[r]))
    BY <1>1, <1>4, AppendFacts, InPending, Zenon
  <2> QED BY <2>1, InPendingNext, Zenon
<1> QED BY <1>2, <1>3, <1>4, Zenon DEF Added

LEMMA EnqueueEffect ==
  ASSUME TypeOK, NEW op \in Ops, Enqueue(op)
  PROVE  Added(op)
<1> DEFINE first == IF hand = Nothing THEN <<>> ELSE <<hand>>
<1>1. first \in Seq(Ops) /\ queue \in Seq(Ops)
  BY DEF TypeOK
<1>2. Pending = first \o queue /\ Pending' = first \o Append(queue, op)
  BY DEF Pending, Enqueue
<1> HIDE DEF first
<1>3. first \o Append(queue, op) = Append(first \o queue, op)
  <2>1. /\ Append(queue, op) = queue \o <<op>> /\ <<op>> \in Seq(Ops)
    BY <1>1, AppendIsConcat
  <2>2. first \o queue \in Seq(Ops)
    BY <1>1, ConcatProperties
  <2>3. Append(first \o queue, op) = (first \o queue) \o <<op>>
    BY <2>2, AppendIsConcat
  <2> QED BY <1>1, <2>1, <2>3, ConcatAssociative
<1> QED BY <1>2, <1>3, AddedEffect

LEMMA TakeEffect ==
  ASSUME TypeOK, Take
  PROVE  \/ waiters = <<>> /\ Same /\ UNCHANGED <<waiters, del>>
         \/ /\ waiters # <<>> /\ Head(waiters) \in Convs /\ del[Head(waiters)] = "room"
            /\ Added(Delete(Head(waiters)))
            /\ waiters' = Tail(waiters) /\ del' = [del EXCEPT ![Head(waiters)] = "row"]
<1>1. /\ hand = Nothing /\ queue \in Seq(Ops) /\ queue # <<>> /\ hand' = Head(queue)
      /\ Head(queue) \in Ops /\ Tail(queue) \in Seq(Ops)
      /\ hand' # Nothing
  BY HeadTailProperties DEF TypeOK, Take
<1>2. Pending = queue
  BY <1>1, ConcatEmptySeq DEF Pending
<1>3. queue = <<Head(queue)>> \o Tail(queue)
  BY <1>1
<1>4. CASE waiters = <<>>
  <2>1. queue' = Tail(queue) /\ UNCHANGED <<waiters, del>>
    BY <1>4 DEF Take
  <2>2. Pending' = Pending
    BY <1>1, <1>2, <1>3, <2>1 DEF Pending
  <2> QED BY <1>4, <2>1, <2>2, InPending, InPendingNext, Zenon DEF Same
<1>5. CASE waiters # <<>>
  <2> DEFINE c == Head(waiters)
  <2>1. /\ queue' = Append(Tail(queue), Delete(c))
        /\ waiters' = Tail(waiters) /\ del' = [del EXCEPT ![c] = "row"]
    BY <1>5 DEF Take
  <2>2. c \in Convs /\ del[c] = "room"
    <3>1. waiters \in Seq(Convs) /\ \A i \in DOMAIN waiters : del[waiters[i]] = "room"
      BY DEF TypeOK
    <3>2. 1 \in DOMAIN waiters /\ c = waiters[1] /\ c \in Convs
      BY <1>5, <3>1, HeadTailProperties, LenProperties, EmptySeq
    <3> QED BY <3>1, <3>2
  <2>3. Delete(c) \in Ops
    BY <2>2, OpFacts, Zenon
  <2> HIDE DEF c
  <2>4. Pending' = <<Head(queue)>> \o Append(Tail(queue), Delete(c))
    BY <1>1, <2>1 DEF Pending
  <2>5. <<Head(queue)>> \o Append(Tail(queue), Delete(c)) = Append(queue, Delete(c))
    <3>1. <<Head(queue)>> \in Seq(Ops) /\ <<Delete(c)>> \in Seq(Ops)
      BY <1>1, <2>3
    <3>2. /\ Append(Tail(queue), Delete(c)) = Tail(queue) \o <<Delete(c)>>
          /\ Append(queue, Delete(c)) = queue \o <<Delete(c)>>
      BY <1>1, <2>3, AppendIsConcat
    <3>3. <<Head(queue)>> \o (Tail(queue) \o <<Delete(c)>>)
            = (<<Head(queue)>> \o Tail(queue)) \o <<Delete(c)>>
      BY <1>1, <3>1, ConcatAssociative
    <3> QED BY <1>3, <3>2, <3>3
  <2>6. Added(Delete(c))
    BY <1>2, <2>3, <2>4, <2>5, AddedEffect
  <2> QED BY <1>5, <2>1, <2>2, <2>6 DEF c
<1> QED BY <1>4, <1>5

LEMMA LandEffect ==
  ASSUME TypeOK, Land
  PROVE  hand \in Ops /\ Landed(hand) /\ Apply(hand)
<1>1. hand \in Ops /\ queue \in Seq(Ops) /\ Apply(hand)
  BY DEF TypeOK, Land
<1>2. Pending = <<hand>> \o queue /\ Pending' = queue
  <2>1. hand # Nothing /\ hand' = Nothing /\ queue' = queue
    BY DEF Land
  <2> QED BY <1>1, <2>1, ConcatEmptySeq DEF Pending
<1>3. Pending \in Seq(Ops) /\ Pending # <<>> /\ Head(Pending) = hand /\ Tail(Pending) = queue
  BY <1>1, <1>2, PendingType
<1>4. /\ In(Pending, hand)
      /\ \A x : In(queue, x) => In(Pending, x)
      /\ \A x : In(Pending, x) => x = hand \/ In(queue, x)
      /\ \A x, y : Last(Pending, x, y) => Last(queue, x, y) \/ (x = hand /\ ~In(queue, y))
  BY <1>3, TailFacts, Zenon
<1> QED BY <1>1, <1>2, <1>4, InPending, InPendingNext, Zenon DEF Landed

-----------------------------------------------------------------------------
(* What a write does to the table                                          *)

Rows == [Responses -> {"none", "body", "blank"}]

LEMMA CleanedFacts ==
  ASSUME NEW rows \in Rows
  PROVE  /\ Cleaned(rows) \in Rows /\ Unorphaned(rows) \in Rows
         /\ \A r \in Responses :
              /\ Cleaned(rows)[r] # "none" => rows[r] # "none"
              /\ Unorphaned(rows)[r] # "none" => rows[r] # "none"
              /\ rows[r] # "none" /\ Home[r] \in stored /\ age[r] # "past"
                   => Cleaned(rows)[r] # "none"
BY DEF Rows, Cleaned, Unorphaned

\* The row of an answer exists afterwards only if it did or if it was written, not if
\* it was deleted, and otherwise unless its time is over or the error is on record.
Wrote(op) ==
  /\ row' \in Rows
  /\ leaked \subseteq leaked' /\ leaked' \subseteq Responses
  /\ unsaved \subseteq unsaved' /\ unsaved' \subseteq Responses
  /\ \A r \in Responses :
       /\ row'[r] # "none" => row[r] # "none" \/ op = Save(r)
       /\ op = Delete(Home[r]) /\ r \notin leaked' => row'[r] = "none"
       /\ /\ op # Delete(Home[r]) /\ Home[r] \in stored /\ age[r] # "past"
          /\ r \notin unsaved' /\ (row[r] # "none" \/ op = Save(r))
          => row'[r] # "none"

LEMMA SaveWrote ==
  ASSUME TypeOK, NEW s \in Responses,
         leaked \subseteq leaked', leaked' \subseteq Responses,
         unsaved \subseteq unsaved', unsaved' \subseteq Responses,
         row' \in Written(Save(s)) \/ (row' = row /\ s \in unsaved')
  PROVE  Wrote(Save(s))
<1> DEFINE rows == [row EXCEPT ![s] = "body"]
<1>1. row \in Rows /\ rows \in Rows
  BY DEF TypeOK, Rows
<1>2. row' \in {rows, Cleaned(rows)} \/ (row' = row /\ s \in unsaved')
  <2>1. Save(s).op # "delete" /\ Save(s).of = s
    BY OpFacts
  <2> QED BY <2>1, Zenon DEF Written
<1>3. rows[s] = "body" /\ \A r \in Responses : r # s => rows[r] = row[r]
  BY <1>1 DEF Rows
<1>4. \A r \in Responses : Save(s) # Delete(Home[r]) /\ (Save(s) = Save(r) <=> r = s)
  BY OpFacts, Zenon
<1> HIDE DEF rows
<1>5. /\ Cleaned(rows) \in Rows
      /\ \A r \in Responses :
              /\ Cleaned(rows)[r] # "none" => rows[r] # "none"
              /\ rows[r] # "none" /\ Home[r] \in stored /\ age[r] # "past"
                   => Cleaned(rows)[r] # "none"
  BY <1>1, CleanedFacts
<1> QED BY <1>1, <1>2, <1>3, <1>4, <1>5 DEF Wrote

LEMMA DeleteWrote ==
  ASSUME TypeOK, NEW c \in Convs,
         leaked \subseteq leaked', leaked' \subseteq Responses,
         unsaved \subseteq unsaved', unsaved' \subseteq Responses,
         row' \in Written(Delete(c)) \/ (row' = row /\ Of(c) \subseteq leaked')
  PROVE  Wrote(Delete(c))
<1>1. row \in Rows
  BY DEF TypeOK, Rows
<1>2. \/ row' = [r \in Responses |-> IF Home[r] = c THEN "none" ELSE row[r]]
      \/ row' = row /\ Of(c) \subseteq leaked'
  BY OpFacts DEF Written
<1>3. \A r \in Responses : Delete(c) # Save(r) /\ (Delete(c) = Delete(Home[r]) <=> c = Home[r])
  BY OpFacts, Zenon
<1> QED BY <1>1, <1>2, <1>3 DEF Wrote, Of, Rows

LEMMA ApplyEffect ==
  ASSUME TypeOK, NEW op \in Ops, Apply(op)
  PROVE  Wrote(op)
<1>1. CASE \E s \in Responses : op = Save(s)
  <2>1. PICK s \in Responses : op = Save(s)
    BY <1>1
  <2>2. op.op = "save" /\ op.of = s /\ unsaved \subseteq Responses /\ leaked \subseteq Responses
    BY <2>1, OpFacts DEF TypeOK
  <2>3. \/ row' \in Written(op) /\ UNCHANGED <<unsaved, leaked>>
        \/ row' = row /\ unsaved' = unsaved \cup {s} /\ leaked' = leaked
    BY <2>2 DEF Apply, Failed
  <2> QED BY <2>1, <2>2, <2>3, SaveWrote
<1>2. CASE \E c \in Convs : op = Delete(c)
  <2>1. PICK c \in Convs : op = Delete(c)
    BY <1>2
  <2>2. op.op = "delete" /\ op.of = c /\ unsaved \subseteq Responses /\ leaked \subseteq Responses
    BY <2>1, OpFacts DEF TypeOK
  <2>3. \/ row' \in Written(op) /\ UNCHANGED <<unsaved, leaked>>
        \/ row' = row /\ unsaved' = unsaved /\ leaked' = leaked \cup Of(c)
    BY <2>2 DEF Apply, Failed
  <2> QED BY <2>1, <2>2, <2>3, DeleteWrote DEF Of
<1> QED BY <1>1, <1>2, OpFacts, Zenon

LEMMA SaveInlineEffect ==
  ASSUME TypeOK, NEW s \in Responses, ApplyInline(Save(s))
  PROVE  /\ Wrote(Save(s)) /\ leaked' = leaked
         /\ IsPending(Delete(Home[s])) => s \in unsaved'
<1>1. Save(s).op = "save" /\ Save(s).of = s /\ unsaved \subseteq Responses /\ leaked \subseteq Responses
  BY OpFacts DEF TypeOK
<1>2. \/ /\ row' \in Written(Save(s)) /\ leaked' = leaked
         /\ unsaved' = IF IsPending(Delete(Home[s])) THEN unsaved \cup {s} ELSE unsaved
      \/ row' = row /\ unsaved' = unsaved \cup {s} /\ leaked' = leaked
  BY <1>1 DEF ApplyInline, Failed
<1> QED BY <1>1, <1>2, SaveWrote

LEMMA DeleteInlineEffect ==
  ASSUME TypeOK, NEW c \in Convs, ApplyInline(Delete(c)), writer # "open"
  PROVE  /\ Wrote(Delete(c)) /\ unsaved' = unsaved
         /\ \A r \in Of(c) : IsPending(Save(r)) => r \in leaked'
<1>1. /\ Delete(c).op = "delete" /\ Delete(c).of = c
      /\ unsaved \subseteq Responses /\ leaked \subseteq Responses
  BY OpFacts DEF TypeOK
<1>2. \/ /\ row' \in Written(Delete(c)) /\ unsaved' = unsaved
         /\ leaked' = leaked \cup {r \in Of(c) : IsPending(Save(r))}
      \/ row' = row /\ unsaved' = unsaved /\ leaked' = leaked \cup Of(c)
  BY <1>1 DEF ApplyInline, Failed
<1> QED BY <1>1, <1>2, DeleteWrote DEF Of

-----------------------------------------------------------------------------
(* The steps                                                               *)

\* A step that what is proved here does not notice.
Quiet ==
  /\ UNCHANGED <<conv, stored, links, age, row, turn, del, queue, hand, waiters>>
  /\ UNCHANGED <<unsaved, leaked>>
  /\ writer' \in {"closed", "drained"} \/ writer \notin {"closed", "drained"}

LEMMA Steps ==
  ASSUME TypeOK, [Next]_vars
  PROVE  \/ Quiet \/ Take \/ Land \/ Tick \/ DropOrphans \/ Restart
         \/ \E r \in Responses :
              \/ Begin(r) \/ Fail(r) \/ Look(r) \/ Remember(r)
              \/ SendSave(r) \/ SaveInline(r) \/ Complete(r)
         \/ \E c \in Convs :
              \/ Claim(c) \/ Unclaim(c) \/ Forget(c) \/ SendDelete(c)
              \/ DeleteInline(c) \/ DeleteRow(c) \/ Remove(c)
<1>1. CASE UNCHANGED vars
  BY <1>1 DEF vars, talk, memory, table, writing, Quiet
<1>2. CASE \E c \in Convs : Evict(c)
  BY <1>2 DEF Evict, memory, table, writing, Quiet
<1>3. CASE \E r \in Responses : Continue(r)
  BY <1>3 DEF Continue, table, writing, Quiet
<1>4. CASE Drain \/ AskToClose \/ CloseQueue
  BY <1>4 DEF Drain, AskToClose, CloseQueue, talk, memory, table, Quiet
<1>5. CASE Sweep \/ FindOrphans
  BY <1>5 DEF Sweep, FindOrphans, talk, memory, table, writing, Quiet
<1> QED BY <1>1, <1>2, <1>3, <1>4, <1>5 DEF Next, TurnStep, DeletionStep

LEMMA TypeStep ==
  ASSUME TypeOK, Waiting, [Next]_vars
  PROVE  TypeOK'
<1>0. CASE UNCHANGED vars
  BY <1>0 DEF TypeOK, vars, talk, memory, table, writing
<1>1. ASSUME NEW r \in Responses, Begin(r) PROVE TypeOK'
  BY <1>1 DEF TypeOK, Begin, Move, Become, memory, table, writing
<1>2. ASSUME NEW r \in Responses, Fail(r) PROVE TypeOK'
  BY <1>2 DEF TypeOK, Fail, Move, Become, memory, table, writing
<1>3. ASSUME NEW r \in Responses, Look(r) PROVE TypeOK'
  BY <1>3 DEF TypeOK, Look, Move, talk, memory, table, writing
<1>4. ASSUME NEW r \in Responses, Remember(r) PROVE TypeOK'
  BY <1>4 DEF TypeOK, Remember, Move, Live, talk, writing
<1>5. ASSUME NEW r \in Responses, SendSave(r) PROVE TypeOK'
  <2>1. turn' \in [Responses -> {"none", "running", "failed", "found", "saved", "late",
                                "inline", "lateInline", "sent", "done"}]
    BY <1>5 DEF TypeOK, SendSave, Move
  <2>2. UNCHANGED <<talk, memory, age, table, del, sweep, hand, waiters, writer>>
    BY <1>5 DEF SendSave, Enqueue, writing
  <2>3. queue' \in Seq(Ops) /\ Len(queue') <= MaxQueue
    <3>1. Save(r) \in Ops
      BY <1>5, OpFacts
    <3>2. CASE Enqueue(Save(r)) /\ HasRoom
      BY <3>1, <3>2, AppendProperties DEF TypeOK, Enqueue, HasRoom
    <3>3. CASE UNCHANGED queue
      BY <3>3 DEF TypeOK
    <3> QED BY <1>5, <3>2, <3>3 DEF SendSave, writing
  <2> QED BY <2>1, <2>2, <2>3 DEF TypeOK, talk, memory, table
<1>6. ASSUME NEW r \in Responses, SaveInline(r) PROVE TypeOK'
  <2>1. Wrote(Save(r))
    BY <1>6, SaveInlineEffect DEF SaveInline
  <2> QED BY <1>6, <2>1 DEF TypeOK, SaveInline, Move, Wrote, Rows, talk, memory, writing
<1>7. ASSUME NEW r \in Responses, Complete(r) PROVE TypeOK'
  BY <1>7 DEF TypeOK, Complete, Move, Become, memory, table, writing
<1>8. ASSUME NEW r \in Responses, Continue(r) PROVE TypeOK'
  BY <1>8 DEF TypeOK, Continue, Live, table, writing
<1>9. ASSUME NEW c \in Convs, Claim(c) \/ Unclaim(c) PROVE TypeOK'
  BY <1>9 DEF TypeOK, Claim, Unclaim, Step, Become, memory, table, writing
<1>10. ASSUME NEW c \in Convs, Forget(c) PROVE TypeOK'
  BY <1>10 DEF TypeOK, Forget, Step, talk, table, writing
<1>11. ASSUME NEW c \in Convs, SendDelete(c) PROVE TypeOK'
  <2>1. UNCHANGED <<talk, memory, age, table, turn, sweep, hand, writer>>
    BY <1>11 DEF SendDelete, Enqueue, writing
  <2>2. /\ del' \in [Convs -> {"none", "links", "send", "room", "inline", "row", "remove"}]
        /\ del[c] = "send"
        /\ \A d \in Convs : d # c => del'[d] = del[d]
        /\ waiters' # waiters => del'[c] = "room"
    BY <1>11 DEF TypeOK, SendDelete, Step, Enqueue, writing
  <2>3. queue' \in Seq(Ops) /\ Len(queue') <= MaxQueue
    <3>1. Delete(c) \in Ops
      BY <1>11, OpFacts
    <3>2. CASE Enqueue(Delete(c)) /\ HasRoom
      BY <3>1, <3>2, AppendProperties DEF TypeOK, Enqueue, HasRoom
    <3>3. CASE UNCHANGED queue
      BY <3>3 DEF TypeOK
    <3> QED BY <1>11, <3>2, <3>3 DEF SendDelete, writing
  <2>4. waiters' \in Seq(Convs) /\ \A i \in DOMAIN waiters' : del'[waiters'[i]] = "room"
    <3>1. waiters \in Seq(Convs) /\ \A i \in DOMAIN waiters : del[waiters[i]] = "room"
      BY DEF TypeOK
    <3>2. CASE waiters' = Append(waiters, c) /\ del'[c] = "room"
      BY <2>2, <3>1, <3>2, AppendProperties, LenProperties
    <3>3. CASE waiters' = waiters
      <4>1. ASSUME NEW i \in DOMAIN waiters PROVE del'[waiters[i]] = "room"
        <5>1. waiters[i] \in Convs
          BY <3>1, <4>1, LenProperties
        <5> QED BY <2>2, <3>1, <5>1
      <4> QED BY <3>1, <3>3, <4>1
    <3>4. waiters' = waiters \/ waiters' = Append(waiters, c)
      BY <1>11 DEF SendDelete, Enqueue, writing
    <3> QED BY <2>2, <3>2, <3>3, <3>4
  <2> QED BY <2>1, <2>2, <2>3, <2>4 DEF TypeOK, talk, memory, table
<1>12. ASSUME NEW c \in Convs, DeleteInline(c) PROVE TypeOK'
  <2>1. Wrote(Delete(c))
    <3>1. writer # "open"
      BY <1>12 DEF Waiting, DeleteInline, Step
    <3> QED BY <1>12, <3>1, DeleteInlineEffect DEF DeleteInline
  <2> QED BY <1>12, <2>1 DEF TypeOK, DeleteInline, Step, Wrote, Rows, talk, memory, writing
<1>13. ASSUME NEW c \in Convs, DeleteRow(c) \/ Remove(c) PROVE TypeOK'
  BY <1>13 DEF TypeOK, DeleteRow, Remove, Step, Become, memory, table, writing
<1>14. ASSUME NEW c \in Convs, Evict(c) PROVE TypeOK'
  BY <1>14 DEF TypeOK, Evict, memory, table, writing
<1>15. CASE Take
  <2>1. UNCHANGED <<talk, memory, age, table, turn, writer, sweep>>
    BY <1>15 DEF Take
  <2>2. hand' \in Ops
    BY <1>15, HeadTailProperties DEF TypeOK, Take
  <2>3. CASE waiters = <<>>
    <3>1. queue' = Tail(queue) /\ UNCHANGED <<waiters, del>>
      BY <1>15, <2>3 DEF Take
    <3>2. queue' \in Seq(Ops) /\ Len(queue') <= MaxQueue
      BY <1>15, <3>1, HeadTailProperties, LenProperties DEF TypeOK, Take
    <3> QED BY <2>1, <2>2, <3>1, <3>2 DEF TypeOK, talk, memory, table
  <2>4. CASE waiters # <<>>
    <3> DEFINE c == Head(waiters)
    <3>1. /\ c \in Convs /\ del[c] = "room"
          /\ waiters' = Tail(waiters) /\ del' = [del EXCEPT ![c] = "row"]
          /\ queue' = Append(Tail(queue), Delete(c))
      BY <1>15, <2>4, TakeEffect DEF Take
    <3>2. queue' \in Seq(Ops) /\ Len(queue') <= MaxQueue
      <4>1. Delete(c) \in Ops
        BY <3>1, OpFacts, Zenon
      <4>2. /\ queue \in Seq(Ops) /\ queue # <<>> /\ Len(queue) <= MaxQueue
        BY <1>15 DEF TypeOK, Take
      <4>3. Tail(queue) \in Seq(Ops) /\ Len(Tail(queue)) = Len(queue) - 1 /\ Len(queue) \in Nat
        BY <4>2, HeadTailProperties, LenProperties
      <4> HIDE DEF c
      <4> QED BY <3>1, <4>1, <4>2, <4>3, AppendProperties
    <3>3. waiters' \in Seq(Convs) /\ \A i \in DOMAIN waiters' : del'[waiters'[i]] = "room"
      <4>1. /\ waiters \in Seq(Convs) /\ del \in [Convs -> {"none", "links", "send", "room", "inline", "row", "remove"}]
            /\ \A i \in DOMAIN waiters : del[waiters[i]] = "room"
        BY DEF TypeOK
      <4>2. /\ Len(waiters) \in Nat \ {0} /\ DOMAIN waiters = 1 .. Len(waiters)
            /\ Tail(waiters) \in Seq(Convs) /\ DOMAIN Tail(waiters) = 1 .. Len(waiters) - 1
            /\ \A i \in 1 .. Len(waiters) - 1 : Tail(waiters)[i] = waiters[i + 1]
            /\ c = waiters[1]
        BY <2>4, <4>1, HeadTailProperties, LenProperties, EmptySeq
      <4>3. ASSUME NEW i \in 1 .. Len(waiters) - 1
            PROVE  del'[Tail(waiters)[i]] = "room"
        <5>1. /\ i + 1 \in 1 .. Len(waiters) /\ i + 1 # 1 /\ 1 \in 1 .. Len(waiters)
          BY <4>2, <4>3
        <5>2. waiters[i + 1] # waiters[1]
          BY <4>2, <5>1 DEF Waiting
        <5>3. waiters[i + 1] \in Convs
          BY <4>1, <5>1, ElementOfSeq
        <5> QED BY <3>1, <4>1, <4>2, <4>3, <5>1, <5>2, <5>3
      <4> QED BY <3>1, <4>2, <4>3
    <3>4. del' \in [Convs -> {"none", "links", "send", "room", "inline", "row", "remove"}]
      BY <3>1 DEF TypeOK
    <3> QED BY <2>1, <2>2, <3>2, <3>3, <3>4 DEF TypeOK, talk, memory, table
  <2> QED BY <2>3, <2>4
<1>16. CASE Land
  <2>1. Wrote(hand)
    BY <1>16, LandEffect, ApplyEffect
  <2> QED BY <1>16, <2>1 DEF TypeOK, Land, Wrote, Rows, talk, memory
<1>17. CASE Drain \/ AskToClose \/ CloseQueue
  BY <1>17 DEF TypeOK, Drain, AskToClose, CloseQueue, talk, memory, table
<1>18. CASE Tick
  BY <1>18 DEF TypeOK, Tick, Older, Ages, talk, memory, table, writing
<1>19. CASE Sweep \/ FindOrphans
  BY <1>19 DEF TypeOK, Sweep, FindOrphans, Live, talk, memory, table, writing
<1>20. CASE DropOrphans
  BY <1>20 DEF TypeOK, DropOrphans, talk, table, writing
<1>21. CASE Restart
  <2>1. row' \in Rows
    BY <1>21, CleanedFacts DEF TypeOK, Restart, Rows
  <2>2. queue' \in Seq(Ops) /\ waiters' \in Seq(Convs) /\ Len(queue') = 0 /\ waiters' = <<>>
    BY <1>21, EmptySeq DEF Restart
  <2> QED BY <1>21, <2>1, <2>2 DEF TypeOK, Restart, Rows, Of
<1> QED BY <1>0, <1>1, <1>2, <1>3, <1>4, <1>5, <1>6, <1>7, <1>8, <1>9, <1>10, <1>11, <1>12, <1>13,
           <1>14, <1>15, <1>16, <1>17, <1>18, <1>19, <1>20, <1>21 DEF Next, TurnStep, DeletionStep

LEMMA ClaimedStep ==
  ASSUME TypeOK, Claimed, Running, [Next]_vars
  PROVE  Claimed'
<1>1. CASE Quiet \/ Land \/ Tick \/ DropOrphans
  BY <1>1 DEF Claimed, Quiet, Land, Tick, DropOrphans, talk
<1>2. CASE Take
  <2>1. UNCHANGED <<conv, stored>>
    BY <1>2 DEF Take, talk
  <2>2. CASE UNCHANGED del
    BY <2>1, <2>2 DEF Claimed
  <2>3. CASE /\ Head(waiters) \in Convs /\ del[Head(waiters)] = "room"
             /\ del' = [del EXCEPT ![Head(waiters)] = "row"]
    BY <2>1, <2>3 DEF Claimed, TypeOK
  <2> QED BY <1>2, <2>2, <2>3, TakeEffect
<1>3. CASE Restart
  BY <1>3 DEF Claimed, Restart
<1>4. ASSUME NEW r \in Responses,
             Look(r) \/ Remember(r) \/ SendSave(r) \/ SaveInline(r)
      PROVE  Claimed'
  BY <1>4 DEF Claimed, Look, Remember, SendSave, SaveInline, talk
<1>5. ASSUME NEW r \in Responses, Begin(r) PROVE Claimed'
  BY <1>5 DEF Claimed, TypeOK, Begin, Become
<1>6. ASSUME NEW r \in Responses, Fail(r) \/ Complete(r) PROVE Claimed'
  <2>1. conv[Home[r]] = "running"
    BY <1>6 DEF Running, Active, Fail, Complete, Move
  <2> QED BY <1>6, <2>1 DEF Claimed, TypeOK, Fail, Complete, Become
<1>7. ASSUME NEW c \in Convs,
             \/ Claim(c) \/ Unclaim(c) \/ Forget(c) \/ SendDelete(c)
             \/ DeleteInline(c) \/ DeleteRow(c) \/ Remove(c)
      PROVE  Claimed'
  BY <1>7 DEF Claimed, TypeOK, Claim, Unclaim, Forget, SendDelete, DeleteInline, DeleteRow,
              Remove, Step, Become, talk
<1> QED BY <1>1, <1>2, <1>3, <1>4, <1>5, <1>6, <1>7, Steps

LEMMA RunningStep ==
  ASSUME TypeOK, Claimed, Running, [Next]_vars
  PROVE  Running'
<1>1. CASE Quiet \/ Tick \/ DropOrphans \/ Take
  BY <1>1 DEF Running, Quiet, Tick, DropOrphans, Take, talk, table
<1>2. CASE Land
  <2>1. leaked \subseteq leaked' /\ UNCHANGED <<conv, turn>>
    BY <1>2, LandEffect, ApplyEffect DEF Wrote, Land, talk
  <2> QED BY <2>1 DEF Running
<1>3. CASE Restart
  BY <1>3 DEF Running, Restart, Active, TypeOK
<1>4. ASSUME NEW r \in Responses, Begin(r) PROVE Running'
  BY <1>4 DEF Running, TypeOK, Active, Begin, Move, Become, table
<1>5. ASSUME NEW r \in Responses, Fail(r) \/ Complete(r) PROVE Running'
  <2>1. /\ turn[r] \in Active /\ turn'[r] \in {"failed", "done"}
        /\ \A s \in Responses : s # r => turn'[s] = turn[s]
        /\ conv' = [conv EXCEPT ![Home[r]] = "idle"] /\ leaked' = leaked
    BY <1>5 DEF TypeOK, Fail, Complete, Move, Become, table, Active
  <2>2. \A s \in Responses : turn'[s] \in Active => turn[s] \in Active /\ Home[s] # Home[r]
    BY <2>1 DEF Running, Active
  <2>3. \A s \in Responses : turn'[s] \in {"late", "lateInline"} => turn[s] \in {"late", "lateInline"}
    BY <2>1
  <2> QED BY <2>1, <2>2, <2>3 DEF Running, TypeOK
<1>6. ASSUME NEW r \in Responses, Look(r) \/ Remember(r) \/ SendSave(r) PROVE Running'
  <2>1. /\ conv' = conv /\ leaked \subseteq leaked'
        /\ \A s \in Responses : s # r => turn'[s] = turn[s]
    BY <1>6 DEF TypeOK, Look, Remember, SendSave, Move, talk, table
  <2>2. /\ turn'[r] \in Active => turn[r] \in Active
        /\ turn'[r] \in {"late", "lateInline"} => turn[r] = "late" \/ r \in leaked'
    <3>1. CASE Look(r)
      BY <3>1 DEF TypeOK, Active, Look, Move
    <3>2. CASE Remember(r)
      BY <3>2 DEF TypeOK, Active, Remember, Move
    <3>3. CASE SendSave(r)
      BY <3>3 DEF TypeOK, Active, SendSave, Move
    <3> QED BY <1>6, <3>1, <3>2, <3>3
  <2>3. \A s \in Responses : turn'[s] \in Active => turn[s] \in Active
    BY <2>1, <2>2
  <2>4. \A s \in Responses : turn'[s] \in {"late", "lateInline"} => s \in leaked'
    BY <2>1, <2>2 DEF Running
  <2> QED BY <2>1, <2>3, <2>4 DEF Running
<1>7. ASSUME NEW r \in Responses, SaveInline(r) PROVE Running'
  <2>1. leaked' = leaked
    BY <1>7, SaveInlineEffect DEF SaveInline
  <2> QED BY <1>7, <2>1 DEF Running, TypeOK, Active, SaveInline, Move, talk
<1>8. ASSUME NEW c \in Convs,
             \/ Claim(c) \/ Unclaim(c) \/ Forget(c) \/ SendDelete(c)
             \/ DeleteInline(c) \/ DeleteRow(c) \/ Remove(c)
      PROVE  Running'
  <2>1. /\ conv[c] # "running" /\ turn' = turn
        /\ \A d \in Convs : d # c => conv'[d] = conv[d]
    BY <1>8 DEF Claimed, TypeOK, Claim, Unclaim, Forget, SendDelete, DeleteInline, DeleteRow,
                Remove, Step, Become, talk
  <2>2. leaked \subseteq leaked'
    BY <1>8 DEF Claim, Unclaim, Forget, SendDelete, DeleteInline, DeleteRow, Remove, table,
                ApplyInline, Failed
  <2> QED BY <2>1, <2>2 DEF Running
<1> QED BY <1>1, <1>2, <1>3, <1>4, <1>5, <1>6, <1>7, <1>8, Steps

LEMMA WaitingStep ==
  ASSUME TypeOK, Waiting, [Next]_vars
  PROVE  Waiting'
<1>1. CASE Quiet \/ Land \/ Tick \/ DropOrphans
  BY <1>1 DEF Waiting, Quiet, Land, Tick, DropOrphans, writing
<1>2. CASE Take
  <2>1. writer' = writer
    BY <1>2 DEF Take
  <2>2. CASE UNCHANGED <<waiters, del>>
    BY <2>1, <2>2 DEF Waiting
  <2>3. CASE /\ waiters # <<>> /\ waiters' = Tail(waiters)
             /\ Head(waiters) \in Convs /\ del' = [del EXCEPT ![Head(waiters)] = "row"]
    <3>1. /\ Len(waiters) \in Nat \ {0} /\ DOMAIN waiters = 1 .. Len(waiters)
          /\ DOMAIN waiters' = 1 .. Len(waiters) - 1
          /\ \A i \in 1 .. Len(waiters) - 1 : waiters'[i] = waiters[i + 1]
      BY <2>3, HeadTailProperties, LenProperties, EmptySeq DEF TypeOK
    <3>2. \A i, j \in DOMAIN waiters' : waiters'[i] = waiters'[j] => i = j
      <4> SUFFICES ASSUME NEW i \in DOMAIN waiters', NEW j \in DOMAIN waiters',
                          waiters'[i] = waiters'[j]
                   PROVE  i = j
        OBVIOUS
      <4>1. i + 1 \in DOMAIN waiters /\ j + 1 \in DOMAIN waiters /\ waiters[i + 1] = waiters[j + 1]
        BY <3>1
      <4>2. i + 1 = j + 1
        BY <4>1 DEF Waiting
      <4> QED BY <3>1, <4>2
    <3>3. \A c \in Convs : del'[c] = "inline" => writer' \in {"closed", "drained"}
      BY <2>1, <2>3 DEF Waiting, TypeOK
    <3> QED BY <3>2, <3>3 DEF Waiting
  <2> QED BY <1>2, <2>2, <2>3, TakeEffect
<1>3. CASE Restart
  BY <1>3 DEF Waiting, Restart
<1>4. ASSUME NEW r \in Responses,
             \/ Begin(r) \/ Fail(r) \/ Look(r) \/ Remember(r)
             \/ SendSave(r) \/ SaveInline(r) \/ Complete(r)
      PROVE  Waiting'
  BY <1>4 DEF Waiting, Begin, Fail, Look, Remember, SendSave, SaveInline, Complete, Enqueue, writing
<1>5. ASSUME NEW c \in Convs,
             Claim(c) \/ Unclaim(c) \/ Forget(c) \/ DeleteInline(c) \/ DeleteRow(c) \/ Remove(c)
      PROVE  Waiting'
  BY <1>5 DEF Waiting, TypeOK, Claim, Unclaim, Forget, DeleteInline, DeleteRow, Remove, Step, writing
<1>6. ASSUME NEW c \in Convs, SendDelete(c) PROVE Waiting'
  <2>1. writer' = writer
    BY <1>6 DEF SendDelete, Enqueue, writing
  <2>2. \A d \in Convs : del'[d] = "inline" => writer' \in {"closed", "drained"}
    BY <1>6, <2>1 DEF Waiting, TypeOK, SendDelete, Step, CanRead
  <2>3. CASE waiters' = waiters
    BY <2>2, <2>3 DEF Waiting
  <2>4. CASE waiters' = Append(waiters, c) /\ del[c] = "send"
    <3>1. /\ Len(waiters) \in Nat /\ DOMAIN waiters = 1 .. Len(waiters)
          /\ DOMAIN waiters' = 1 .. Len(waiters) + 1
          /\ \A i \in 1 .. Len(waiters) : waiters'[i] = waiters[i]
          /\ waiters'[Len(waiters) + 1] = c
          /\ \A i \in 1 .. Len(waiters) : del[waiters[i]] = "room"
      BY <2>4, AppendProperties, LenProperties DEF TypeOK
    <3>2. \A i, j \in DOMAIN waiters' : waiters'[i] = waiters'[j] => i = j
      BY <2>4, <3>1 DEF Waiting
    <3> QED BY <2>2, <3>2 DEF Waiting
  <2> QED BY <1>6, <2>3, <2>4 DEF SendDelete, Step, Enqueue, writing
<1> QED BY <1>1, <1>2, <1>3, <1>4, <1>5, <1>6, Steps

LEMMA MemoryStep ==
  ASSUME TypeOK, Claimed, Running, OutOfMemory, OutOfTable, [Next]_vars
  PROVE  OutOfMemory'
<1>1. CASE Quiet \/ Tick \/ DropOrphans
  <2>1. UNCHANGED <<conv, del, leaked>> /\ links' \subseteq links
    BY <1>1 DEF Quiet, Tick, DropOrphans, talk, memory, table
  <2> QED BY <2>1 DEF OutOfMemory, Forgotten
<1>2. CASE Take
  <2>1. UNCHANGED <<conv, links, leaked>>
    BY <1>2 DEF Take, talk, memory, table
  <2>2. \A c \in Convs : Forgotten(c)' => Forgotten(c)
    BY <1>2, <2>1, TakeEffect DEF Forgotten, TypeOK
  <2> QED BY <2>1, <2>2 DEF OutOfMemory
<1>3. CASE Land
  <2>1. leaked \subseteq leaked' /\ UNCHANGED <<conv, del, links>>
    BY <1>3, LandEffect, ApplyEffect DEF Wrote, Land, talk, memory
  <2> QED BY <2>1 DEF OutOfMemory, Forgotten
<1>4. CASE Restart
  <2> SUFFICES ASSUME NEW r \in Responses, r \notin leaked', Forgotten(Home[r])'
               PROVE  r \notin links'
    BY DEF OutOfMemory
  <2>1. Home[r] \in Convs /\ Home[r] \notin stored
    BY <1>4 DEF Forgotten, Restart
  <2>2. Asked(Home[r])
    BY <2>1 DEF Claimed, Asked
  <2>3. r \notin leaked /\ ~IsPending(Delete(Home[r]))
    BY <1>4, <2>1 DEF Restart, Of
  <2>4. row[r] = "none"
    BY <2>2, <2>3 DEF OutOfTable, DeleteBehind, IsPending
  <2>5. row'[r] = "none"
    <3>1. row \in Rows /\ Cleaned(row) \in Rows
      BY CleanedFacts DEF TypeOK, Rows
    <3> QED BY <1>4, <2>4, <3>1, CleanedFacts DEF Restart
  <2> QED BY <1>4, <2>5 DEF Restart
<1>5. ASSUME NEW r \in Responses, Begin(r) \/ Fail(r) \/ Look(r) \/ SendSave(r) \/ Complete(r)
      PROVE  OutOfMemory'
  <2>1. UNCHANGED <<del, links, leaked>>
    BY <1>5 DEF Begin, Fail, Look, SendSave, Complete, memory, table
  <2>2. \A c \in Convs : conv'[c] = "gone" => conv[c] = "gone"
    BY <1>5 DEF TypeOK, Begin, Fail, Look, SendSave, Complete, Become, talk
  <2> QED BY <2>1, <2>2 DEF OutOfMemory, Forgotten
<1>6. ASSUME NEW r \in Responses, SaveInline(r) PROVE OutOfMemory'
  <2>1. leaked' = leaked
    BY <1>6, SaveInlineEffect DEF SaveInline
  <2> QED BY <1>6, <2>1 DEF OutOfMemory, Forgotten, SaveInline, talk, memory
<1>7. ASSUME NEW r \in Responses, Remember(r) PROVE OutOfMemory'
  <2>1. CASE turn[r] = "running" /\ UNCHANGED leaked
    <3>1. ~Forgotten(Home[r])
      BY <2>1 DEF Running, Active, Claimed, Forgotten
    <3> QED BY <1>7, <2>1, <3>1 DEF OutOfMemory, Forgotten, Remember, talk
  <2>2. CASE leaked' = leaked \cup {r}
    BY <1>7, <2>2 DEF OutOfMemory, Forgotten, Remember, talk
  <2> QED BY <1>7, <2>1, <2>2 DEF Remember, Move
<1>8. ASSUME NEW c \in Convs, Claim(c) \/ Unclaim(c) PROVE OutOfMemory'
  BY <1>8 DEF OutOfMemory, Forgotten, TypeOK, Claim, Unclaim, Step, Become, memory, table
<1>9. ASSUME NEW c \in Convs, Forget(c) PROVE OutOfMemory'
  BY <1>9 DEF OutOfMemory, Forgotten, TypeOK, Forget, Step, Of, talk, table
<1>10. ASSUME NEW c \in Convs,
              SendDelete(c) \/ DeleteInline(c) \/ DeleteRow(c) \/ Remove(c)
       PROVE  OutOfMemory'
  <2>1. links' = links /\ leaked \subseteq leaked'
    BY <1>10 DEF SendDelete, DeleteInline, DeleteRow, Remove, memory, table, ApplyInline, Failed
  <2>2. \A d \in Convs : Forgotten(d)' => Forgotten(d)
    BY <1>10 DEF Forgotten, TypeOK, SendDelete, DeleteInline, DeleteRow, Remove, Step, Become, talk
  <2> QED BY <2>1, <2>2 DEF OutOfMemory
<1> QED BY <1>1, <1>2, <1>3, <1>4, <1>5, <1>6, <1>7, <1>8, <1>9, <1>10, Steps

LEMMA TableStep ==
  ASSUME TypeOK, Claimed, Running, Waiting, OutOfTable, [Next]_vars
  PROVE  OutOfTable'
<1>0. ASSUME Same, leaked \subseteq leaked', row' = row,
             \A c \in Convs : Asked(c)' => Asked(c)
      PROVE  OutOfTable'
  BY <1>0, OpFacts, Zenon DEF OutOfTable, Same
<1>1. CASE Quiet \/ Tick \/ DropOrphans
  <2>1. Same
    BY <1>1, StaysSame DEF Quiet, Tick, DropOrphans, writing
  <2>2. UNCHANGED <<conv, del, row, leaked>>
    BY <1>1 DEF Quiet, Tick, DropOrphans, talk, table
  <2> QED BY <1>0, <2>1, <2>2 DEF Asked
<1>2. ASSUME NEW c \in Convs, Added(Delete(c)), UNCHANGED <<row, leaked>>,
             \A d \in Convs : d # c /\ Asked(d)' => Asked(d)
      PROVE  OutOfTable'
  <2> SUFFICES ASSUME NEW r \in Responses, r \notin leaked, Asked(Home[r])',
                      row[r] # "none" \/ IsPending(Save(r))'
               PROVE  DeleteBehind(r)'
    BY <1>2 DEF OutOfTable
  <2>1. /\ Save(r) \in Ops /\ Delete(c) # Save(r)
        /\ IsPending(Save(r))' => IsPending(Save(r))
    BY <1>2, OpFacts, Zenon DEF Added
  <2>2. CASE Home[r] = c
    BY <1>2, <2>1, <2>2, Zenon DEF Added
  <2>3. CASE Home[r] # c
    <3>1. DeleteBehind(r)
      BY <1>2, <2>1, <2>3 DEF OutOfTable
    <3> QED BY <1>2, <2>1, <3>1, Zenon DEF Added
  <2> QED BY <2>2, <2>3
<1>3. CASE Take
  <2>1. UNCHANGED <<conv, row, leaked>>
    BY <1>3 DEF Take, talk, table
  <2>2. CASE Same /\ UNCHANGED del
    BY <1>0, <2>1, <2>2 DEF Asked
  <2>3. CASE /\ Head(waiters) \in Convs /\ Added(Delete(Head(waiters)))
             /\ del' = [del EXCEPT ![Head(waiters)] = "row"]
    <3>1. \A d \in Convs : d # Head(waiters) /\ Asked(d)' => Asked(d)
      BY <2>1, <2>3 DEF Asked, TypeOK
    <3> QED BY <1>2, <2>1, <2>3, <3>1
  <2> QED BY <1>3, <2>2, <2>3, TakeEffect
<1>4. CASE Land
  <2>1. hand \in Ops /\ Landed(hand) /\ Wrote(hand) /\ UNCHANGED <<conv, del>>
    BY <1>4, LandEffect, ApplyEffect DEF Land, talk
  <2> SUFFICES ASSUME NEW r \in Responses, r \notin leaked', Asked(Home[r])',
                      row'[r] # "none" \/ IsPending(Save(r))'
               PROVE  DeleteBehind(r)'
    BY DEF OutOfTable
  <2>2. r \notin leaked /\ Asked(Home[r])
    BY <2>1 DEF Wrote, Asked
  <2>3. row[r] # "none" \/ IsPending(Save(r))
    <3>1. row'[r] # "none" => row[r] # "none" \/ hand = Save(r)
      BY <2>1 DEF Wrote
    <3>2. Save(r) \in Ops /\ (hand = Save(r) => IsPending(Save(r)))
      BY <2>1, OpFacts DEF Landed
    <3> QED BY <2>1, <3>1, <3>2 DEF Landed
  <2>4. DeleteBehind(r)
    BY <2>2, <2>3 DEF OutOfTable
  <2>5. CASE hand = Delete(Home[r]) /\ ~IsPending(Save(r))'
    BY <2>1, <2>5 DEF Wrote
  <2> QED BY <2>1, <2>4, <2>5 DEF Landed
<1>5. CASE Restart
  <2> SUFFICES ASSUME NEW r \in Responses, r \notin leaked', Asked(Home[r])',
                      row'[r] # "none" \/ IsPending(Save(r))'
               PROVE  FALSE
    BY DEF OutOfTable
  <2>1. Home[r] \in Convs /\ Home[r] \notin stored
    BY <1>5 DEF Asked, Restart
  <2>2. Asked(Home[r])
    BY <2>1 DEF Claimed, Asked
  <2>3. r \notin leaked /\ ~IsPending(Delete(Home[r]))
    BY <1>5, <2>1 DEF Restart, Of
  <2>4. row[r] = "none"
    BY <2>2, <2>3 DEF OutOfTable, DeleteBehind, IsPending
  <2>5. row'[r] = "none"
    <3>1. row \in Rows /\ Cleaned(row) \in Rows
      BY CleanedFacts DEF TypeOK, Rows
    <3> QED BY <1>5, <2>4, <3>1, CleanedFacts DEF Restart
  <2>6. ~IsPending(Save(r))'
    <3>1. Pending' = <<>>
      BY <1>5, ConcatEmptySeq, EmptySeq DEF Restart, Pending
    <3>2. ~In(<<>>, Save(r))
      BY DEF In
    <3> QED BY <3>1, <3>2, InPendingNext, Zenon
  <2> QED BY <2>5, <2>6
<1>6. ASSUME NEW r \in Responses, Begin(r) \/ Fail(r) \/ Look(r) \/ Remember(r) \/ Complete(r)
      PROVE  OutOfTable'
  <2>1. Same
    BY <1>6, StaysSame DEF Begin, Fail, Look, Remember, Complete, writing
  <2>2. UNCHANGED <<del, row>> /\ leaked \subseteq leaked'
    BY <1>6 DEF Begin, Fail, Look, Remember, Complete, table
  <2>3. \A c \in Convs : conv'[c] = "gone" => conv[c] = "gone"
    BY <1>6 DEF TypeOK, Begin, Fail, Look, Remember, Complete, Become, talk
  <2> QED BY <1>0, <2>1, <2>2, <2>3 DEF Asked
<1>7. ASSUME NEW s \in Responses, SendSave(s) PROVE OutOfTable'
  <2>1. UNCHANGED <<conv, del, row, leaked>> /\ turn[s] \in {"saved", "late"}
    BY <1>7 DEF SendSave, Move, talk, table
  <2>2. CASE Enqueue(Save(s))
    <3>1. Added(Save(s))
      BY <2>2, EnqueueEffect, OpFacts
    <3>2. s \in leaked \/ ~Asked(Home[s])
      BY <2>1 DEF Running, Claimed, Active, Asked
    <3> SUFFICES ASSUME NEW r \in Responses, r \notin leaked, Asked(Home[r]),
                        row[r] # "none" \/ IsPending(Save(r))'
                 PROVE  DeleteBehind(r)'
      BY <2>1 DEF OutOfTable, Asked
    <3>3. r # s
      BY <3>2
    <3>4. Save(r) \in Ops /\ Save(s) # Save(r)
      BY <3>3, OpFacts, Zenon
    <3>5. IsPending(Save(r))' => IsPending(Save(r))
      BY <3>1, <3>4 DEF Added
    <3>6. DeleteBehind(r)
      BY <3>5 DEF OutOfTable
    <3> QED BY <3>1, <3>4, <3>6 DEF Added
  <2>3. CASE UNCHANGED writing
    <3>1. Same
      BY <2>3, StaysSame DEF writing
    <3> QED BY <1>0, <2>1, <3>1 DEF Asked
  <2> QED BY <1>7, <2>2, <2>3 DEF SendSave
<1>8. ASSUME NEW s \in Responses, SaveInline(s) PROVE OutOfTable'
  <2>1. /\ Same /\ Wrote(Save(s)) /\ leaked' = leaked /\ UNCHANGED <<conv, del>>
        /\ turn[s] \in {"inline", "lateInline"}
    BY <1>8, StaysSame, SaveInlineEffect DEF SaveInline, Move, talk, writing
  <2>2. s \in leaked \/ ~Asked(Home[s])
    BY <2>1 DEF Running, Claimed, Active, Asked
  <2> SUFFICES ASSUME NEW r \in Responses, r \notin leaked, Asked(Home[r]),
                      row'[r] # "none" \/ IsPending(Save(r))
               PROVE  DeleteBehind(r)
    BY <2>1, OpFacts, Zenon DEF OutOfTable, Asked, Same
  <2>3. Save(r) # Save(s)
    BY <2>2, OpFacts, Zenon
  <2>4. row'[r] # "none" => row[r] # "none"
    BY <2>1, <2>3 DEF Wrote
  <2> QED BY <2>4 DEF OutOfTable
<1>9. ASSUME NEW c \in Convs, Claim(c) \/ Unclaim(c) \/ Forget(c) \/ DeleteRow(c) \/ Remove(c)
      PROVE  OutOfTable'
  <2>1. Same
    BY <1>9, StaysSame DEF Claim, Unclaim, Forget, DeleteRow, Remove, writing
  <2>2. UNCHANGED <<row, leaked>>
    BY <1>9 DEF Claim, Unclaim, Forget, DeleteRow, Remove, table
  <2>3. \A d \in Convs : Asked(d)' => Asked(d)
    BY <1>9 DEF Asked, TypeOK, Claim, Unclaim, Forget, DeleteRow, Remove, Step, Become, talk
  <2> QED BY <1>0, <2>1, <2>2, <2>3
<1>10. ASSUME NEW c \in Convs, SendDelete(c) PROVE OutOfTable'
  <2>1. UNCHANGED <<conv, row, leaked>>
    BY <1>10 DEF SendDelete, talk, table
  <2>2. CASE Step(c, "send", "row") /\ Enqueue(Delete(c))
    <3>1. Added(Delete(c))
      BY <2>2, EnqueueEffect, OpFacts
    <3>2. \A d \in Convs : d # c /\ Asked(d)' => Asked(d)
      BY <2>1, <2>2 DEF Asked, Step, TypeOK
    <3> QED BY <1>2, <2>1, <3>1, <3>2
  <2>3. CASE (Step(c, "send", "inline") \/ Step(c, "send", "room")) /\ UNCHANGED <<queue, hand>>
    <3>1. Same
      BY <2>3, StaysSame
    <3>2. \A d \in Convs : Asked(d)' => Asked(d)
      BY <2>1, <2>3 DEF Asked, Step, TypeOK
    <3> QED BY <1>0, <2>1, <3>1, <3>2
  <2> QED BY <1>10, <2>2, <2>3 DEF SendDelete, writing
<1>11. ASSUME NEW c \in Convs, DeleteInline(c) PROVE OutOfTable'
  <2>1. writer # "open"
    BY <1>11 DEF Waiting, DeleteInline, Step
  <2>2. /\ Same /\ Wrote(Delete(c))
        /\ \A r \in Of(c) : IsPending(Save(r)) => r \in leaked'
    BY <1>11, <2>1, StaysSame, DeleteInlineEffect DEF DeleteInline, writing
  <2>3. conv' = conv /\ \A d \in Convs : d # c => del'[d] = del[d]
    BY <1>11 DEF DeleteInline, Step, TypeOK, talk
  <2> SUFFICES ASSUME NEW r \in Responses, r \notin leaked', Asked(Home[r])',
                      row'[r] # "none" \/ IsPending(Save(r))
               PROVE  DeleteBehind(r)
    BY <2>2, OpFacts, Zenon DEF OutOfTable, Same
  <2>4. Delete(c) # Save(r) /\ Home[r] \in Convs
    BY OpFacts
  <2>5. Home[r] # c
    <3>1. Home[r] = c => row'[r] = "none"
      BY <2>2 DEF Wrote
    <3>2. Home[r] = c => ~IsPending(Save(r))
      BY <2>2 DEF Of
    <3> QED BY <3>1, <3>2
  <2>6. r \notin leaked /\ (row'[r] # "none" => row[r] # "none")
    BY <2>2, <2>4 DEF Wrote
  <2>7. Asked(Home[r])
    BY <2>3, <2>4, <2>5 DEF Asked
  <2> QED BY <2>6, <2>7 DEF OutOfTable
<1> QED BY <1>1, <1>3, <1>4, <1>5, <1>6, <1>7, <1>8, <1>9, <1>10, <1>11, Steps

LEMMA SavedStep ==
  ASSUME TypeOK, Running, Waiting, OutOfMemory, SavedAfter, [Next]_vars
  PROVE  SavedAfter'
<1>0. ASSUME Same, links' \subseteq links, unsaved \subseteq unsaved', leaked \subseteq leaked',
             \A r \in Responses : turn[r] \in {"saved", "inline"} => turn'[r] = turn[r]
      PROVE  SavedAfter'
  <2> SUFFICES ASSUME NEW r \in links', r \notin unsaved', r \notin leaked',
                      IsPending(Delete(Home[r]))'
               PROVE  (turn[r] \in {"saved", "inline"} \/ SaveBehind(r))'
    BY DEF SavedAfter
  <2>1. r \in links \ (unsaved \cup leaked) /\ r \in Responses
    BY <1>0 DEF TypeOK
  <2>2. IsPending(Delete(Home[r]))
    BY <1>0, <2>1, OpFacts DEF Same
  <2> QED BY <1>0, <2>1, <2>2 DEF SavedAfter, Same
<1>1. CASE Quiet \/ Tick \/ DropOrphans
  <2>1. Same
    BY <1>1, StaysSame DEF Quiet, Tick, DropOrphans, writing
  <2>2. UNCHANGED <<turn, unsaved, leaked>> /\ links' \subseteq links
    BY <1>1 DEF Quiet, Tick, DropOrphans, memory, table
  <2> QED BY <1>0, <2>1, <2>2
<1>2. ASSUME NEW c \in Convs, Added(Delete(c)), Forgotten(c),
             UNCHANGED <<links, unsaved, leaked, turn>>
      PROVE  SavedAfter'
  <2> SUFFICES ASSUME NEW r \in links \ (unsaved \cup leaked), IsPending(Delete(Home[r]))'
               PROVE  turn[r] \in {"saved", "inline"} \/ SaveBehind(r)'
    BY <1>2 DEF SavedAfter
  <2>1. r \in Responses /\ Home[r] # c
    BY <1>2 DEF OutOfMemory, TypeOK
  <2>2. Delete(c) # Delete(Home[r]) /\ Delete(Home[r]) \in Ops
    BY <1>2, <2>1, OpFacts, Zenon
  <2>3. IsPending(Delete(Home[r]))
    BY <1>2, <2>2 DEF Added
  <2> QED BY <1>2, <2>1, <2>2, <2>3 DEF Added, SavedAfter
<1>3. CASE Take
  <2>1. UNCHANGED <<links, unsaved, leaked, turn>>
    BY <1>3 DEF Take, memory, table
  <2>2. CASE Same
    BY <1>0, <2>1, <2>2
  <2>3. CASE /\ Head(waiters) \in Convs /\ Added(Delete(Head(waiters)))
             /\ del[Head(waiters)] = "room"
    BY <1>2, <2>1, <2>3 DEF Forgotten
  <2> QED BY <1>3, <2>2, <2>3, TakeEffect
<1>4. CASE Land
  <2>1. hand \in Ops /\ Landed(hand) /\ Wrote(hand) /\ UNCHANGED <<links, turn>>
    BY <1>4, LandEffect, ApplyEffect DEF Land, memory
  <2> SUFFICES ASSUME NEW r \in links, r \notin unsaved', r \notin leaked',
                      IsPending(Delete(Home[r]))'
               PROVE  turn[r] \in {"saved", "inline"} \/ SaveBehind(r)'
    BY <2>1 DEF SavedAfter
  <2>2. r \in Responses /\ r \notin unsaved /\ r \notin leaked
    BY <2>1 DEF Wrote, TypeOK
  <2>3. Delete(Home[r]) \in Ops /\ IsPending(Delete(Home[r]))
    BY <2>1, <2>2, OpFacts DEF Landed
  <2>4. turn[r] \in {"saved", "inline"} \/ SaveBehind(r)
    BY <2>2, <2>3 DEF SavedAfter
  <2> QED BY <2>1, <2>2, <2>4 DEF Landed
<1>5. CASE Restart
  <2>1. Pending' = <<>>
    BY <1>5, ConcatEmptySeq, EmptySeq DEF Restart, Pending
  <2>2. \A x : ~In(<<>>, x)
    BY DEF In
  <2> QED BY <2>1, <2>2, InPendingNext, Zenon DEF SavedAfter
<1>6. ASSUME NEW r \in Responses, Begin(r) \/ Fail(r) \/ Look(r) \/ Complete(r)
      PROVE  SavedAfter'
  <2>1. Same
    BY <1>6, StaysSame DEF Begin, Fail, Look, Complete, writing
  <2>2. UNCHANGED <<links, unsaved, leaked>>
    BY <1>6 DEF Begin, Fail, Look, Complete, memory, table
  <2>3. \A s \in Responses : turn[s] \in {"saved", "inline"} => turn'[s] = turn[s]
    BY <1>6 DEF TypeOK, Begin, Fail, Look, Complete, Move
  <2> QED BY <1>0, <2>1, <2>2, <2>3
<1>7. ASSUME NEW s \in Responses, Remember(s) PROVE SavedAfter'
  <2>1. /\ Same /\ unsaved' = unsaved /\ leaked \subseteq leaked' /\ links' = links \cup {s}
        /\ turn'[s] = "saved" \/ s \in leaked'
        /\ \A r \in Responses : r # s => turn'[r] = turn[r]
    BY <1>7, StaysSame DEF Remember, Move, TypeOK, writing
  <2> SUFFICES ASSUME NEW r \in links', r \notin unsaved, r \notin leaked',
                      IsPending(Delete(Home[r]))', r # s
               PROVE  (turn[r] \in {"saved", "inline"} \/ SaveBehind(r))'
    BY <2>1 DEF SavedAfter
  <2>2. r \in links \ (unsaved \cup leaked) /\ r \in Responses /\ turn'[r] = turn[r]
    BY <2>1 DEF TypeOK
  <2>3. IsPending(Delete(Home[r]))
    BY <2>1, <2>2, OpFacts DEF Same
  <2> QED BY <2>1, <2>2, <2>3 DEF SavedAfter, Same
<1>8. ASSUME NEW s \in Responses, SendSave(s) PROVE SavedAfter'
  <2>1. /\ UNCHANGED <<links, unsaved, leaked>>
        /\ \A r \in Responses : r # s => turn'[r] = turn[r]
    BY <1>8 DEF SendSave, Move, TypeOK, memory, table
  <2>2. CASE Enqueue(Save(s))
    <3>1. Added(Save(s))
      BY <2>2, EnqueueEffect, OpFacts
    <3> SUFFICES ASSUME NEW r \in links \ (unsaved \cup leaked), IsPending(Delete(Home[r]))'
                 PROVE  (turn[r] \in {"saved", "inline"} \/ SaveBehind(r))'
      BY <2>1 DEF SavedAfter
    <3>2. r \in Responses
      BY DEF TypeOK
    <3>3. Save(s) # Delete(Home[r]) /\ Delete(Home[r]) \in Ops
      BY <3>2, OpFacts
    <3>4. CASE r = s
      BY <3>1, <3>3, <3>4 DEF Added
    <3>5. CASE r # s
      <4>1. IsPending(Delete(Home[r]))
        BY <3>1, <3>3 DEF Added
      <4> QED BY <2>1, <3>1, <3>2, <3>3, <3>5, <4>1 DEF Added, SavedAfter
    <3> QED BY <3>4, <3>5
  <2>3. CASE UNCHANGED writing /\ (Move(s, "saved", "inline") \/ Move(s, "late", "lateInline"))
    <3>1. Same
      BY <2>3, StaysSame DEF writing
    <3>2. turn[s] \in {"saved", "inline"} => turn'[s] \in {"saved", "inline"}
      BY <2>3 DEF Move, TypeOK
    <3> SUFFICES ASSUME NEW r \in links \ (unsaved \cup leaked), IsPending(Delete(Home[r]))'
                 PROVE  (turn[r] \in {"saved", "inline"} \/ SaveBehind(r))'
      BY <2>1 DEF SavedAfter
    <3>3. r \in Responses /\ IsPending(Delete(Home[r]))
      BY <3>1, OpFacts DEF TypeOK, Same
    <3>4. turn[r] \in {"saved", "inline"} \/ SaveBehind(r)
      BY <3>3 DEF SavedAfter
    <3> QED BY <2>1, <3>1, <3>2, <3>3, <3>4 DEF Same
  <2> QED BY <1>8, <2>2, <2>3 DEF SendSave
<1>9. ASSUME NEW s \in Responses, SaveInline(s) PROVE SavedAfter'
  <2>1. /\ Same /\ Wrote(Save(s)) /\ leaked' = leaked /\ links' = links
        /\ IsPending(Delete(Home[s])) => s \in unsaved'
        /\ \A r \in Responses : r # s => turn'[r] = turn[r]
    BY <1>9, StaysSame, SaveInlineEffect DEF SaveInline, Move, TypeOK, memory, writing
  <2> SUFFICES ASSUME NEW r \in links, r \notin unsaved', r \notin leaked,
                      IsPending(Delete(Home[r]))'
               PROVE  (turn[r] \in {"saved", "inline"} \/ SaveBehind(r))'
    BY <2>1 DEF SavedAfter
  <2>2. r \in Responses /\ r \notin unsaved
    BY <2>1 DEF TypeOK, Wrote
  <2>3. IsPending(Delete(Home[r]))
    BY <2>1, <2>2, OpFacts DEF Same
  <2>4. r # s
    BY <2>1, <2>3
  <2> QED BY <2>1, <2>2, <2>3, <2>4 DEF SavedAfter, Same
<1>10. ASSUME NEW c \in Convs,
              Claim(c) \/ Unclaim(c) \/ Forget(c) \/ DeleteInline(c) \/ DeleteRow(c) \/ Remove(c)
       PROVE  SavedAfter'
  <2>1. Same
    BY <1>10, StaysSame DEF Claim, Unclaim, Forget, DeleteInline, DeleteRow, Remove, writing
  <2>2. /\ turn' = turn /\ links' \subseteq links
        /\ unsaved \subseteq unsaved' /\ leaked \subseteq leaked'
    BY <1>10 DEF Claim, Unclaim, Forget, DeleteInline, DeleteRow, Remove, memory, table,
                 ApplyInline, Failed
  <2> QED BY <1>0, <2>1, <2>2
<1>11. ASSUME NEW c \in Convs, SendDelete(c) PROVE SavedAfter'
  <2>1. UNCHANGED <<links, unsaved, leaked, turn>> /\ Forgotten(c)
    BY <1>11 DEF SendDelete, Step, Forgotten, memory, table
  <2>2. CASE Enqueue(Delete(c))
    BY <1>2, <2>1, <2>2, EnqueueEffect, OpFacts
  <2>3. CASE UNCHANGED <<queue, hand>>
    <3>1. Same
      BY <2>3, StaysSame
    <3> QED BY <1>0, <2>1, <3>1
  <2> QED BY <1>11, <2>2, <2>3 DEF SendDelete, writing
<1> QED BY <1>1, <1>3, <1>4, <1>5, <1>6, <1>7, <1>8, <1>9, <1>10, <1>11, Steps

LEMMA DurableStep ==
  ASSUME TypeOK, Claimed, Running, Waiting, OutOfMemory, SavedAfter, LinksAreDurable, [Next]_vars
  PROVE  LinksAreDurable'
<1> DEFINE Later(r) == turn[r] \in {"saved", "inline"}
<1>0. ASSUME \A x \in Ops : IsPending(x) => IsPending(x)', row' = row,
             links' \subseteq links, unsaved \subseteq unsaved', leaked \subseteq leaked',
             \A r \in Responses : Later(r) => Later(r)',
             \A r \in Responses : age[r] = "past" => age'[r] = "past"
      PROVE  LinksAreDurable'
  <2> SUFFICES ASSUME NEW r \in links', r \notin unsaved', r \notin leaked'
               PROVE  (\/ row[r] # "none" \/ IsPending(Save(r)) \/ Later(r) \/ age[r] = "past")'
    BY DEF LinksAreDurable
  <2>1. r \in links \ (unsaved \cup leaked) /\ r \in Responses
    BY <1>0 DEF TypeOK
  <2>2. row[r] # "none" \/ IsPending(Save(r)) \/ Later(r) \/ age[r] = "past"
    BY <2>1 DEF LinksAreDurable
  <2>3. Save(r) \in Ops
    BY <2>1, OpFacts
  <2> QED BY <1>0, <2>1, <2>2, <2>3
<1>1. \A r \in links \ leaked : Home[r] \in stored /\ ~Forgotten(Home[r])
  BY DEF OutOfMemory, Claimed, Forgotten, TypeOK
<1>2. CASE Quiet \/ Tick \/ DropOrphans
  <2>1. Same
    BY <1>2, StaysSame DEF Quiet, Tick, DropOrphans, writing
  <2>2. UNCHANGED <<turn, row, unsaved, leaked>> /\ links' \subseteq links
    BY <1>2 DEF Quiet, Tick, DropOrphans, memory, table
  <2>3. \A r \in Responses : age[r] = "past" => age'[r] = "past"
    BY <1>2 DEF Quiet, Tick, DropOrphans, Older
  <2> QED BY <1>0, <2>1, <2>2, <2>3 DEF Same
<1>3. CASE Take
  <2>1. UNCHANGED <<links, unsaved, leaked, turn, row, age>>
    BY <1>3 DEF Take, memory, table
  <2>2. \A x \in Ops : IsPending(x) => IsPending(x)'
    BY <1>3, TakeEffect DEF Same, Added
  <2> QED BY <1>0, <2>1, <2>2
<1>4. CASE Land
  <2>1. hand \in Ops /\ Landed(hand) /\ Wrote(hand) /\ UNCHANGED <<links, turn, age>>
    BY <1>4, LandEffect, ApplyEffect DEF Land, memory
  <2> SUFFICES ASSUME NEW r \in links, r \notin unsaved', r \notin leaked', ~Later(r),
                      age[r] # "past"
               PROVE  row'[r] # "none" \/ IsPending(Save(r))'
    BY <2>1 DEF LinksAreDurable
  <2>2. r \in Responses /\ r \notin unsaved /\ r \notin leaked /\ Home[r] \in stored
    BY <1>1, <2>1 DEF Wrote, TypeOK
  <2>3. Save(r) \in Ops /\ Save(r) # Delete(Home[r])
    BY <2>2, OpFacts
  <2>4. CASE hand = Delete(Home[r])
    <3>1. SaveBehind(r)
      BY <2>1, <2>2, <2>4 DEF Landed, SavedAfter
    <3>2. IsPending(Save(r))
      BY <3>1, Zenon DEF SaveBehind, IsPending
    <3> QED BY <2>1, <2>3, <2>4, <3>2 DEF Landed
  <2>5. CASE hand # Delete(Home[r])
    <3>1. row[r] # "none" \/ IsPending(Save(r))
      BY <2>2 DEF LinksAreDurable
    <3>2. row[r] # "none" \/ hand = Save(r) => row'[r] # "none"
      BY <2>1, <2>2, <2>5 DEF Wrote
    <3>3. IsPending(Save(r)) => hand = Save(r) \/ IsPending(Save(r))'
      BY <2>1, <2>3 DEF Landed
    <3> QED BY <3>1, <3>2, <3>3
  <2> QED BY <2>4, <2>5
<1>5. CASE Restart
  BY <1>5 DEF Restart, LinksAreDurable
<1>6. ASSUME NEW r \in Responses, Begin(r) \/ Fail(r) \/ Look(r) \/ Complete(r)
      PROVE  LinksAreDurable'
  <2>1. Same
    BY <1>6, StaysSame DEF Begin, Fail, Look, Complete, writing
  <2>2. UNCHANGED <<links, unsaved, leaked, row, age>>
    BY <1>6 DEF Begin, Fail, Look, Complete, memory, table
  <2>3. \A s \in Responses : Later(s) => Later(s)'
    BY <1>6 DEF TypeOK, Begin, Fail, Look, Complete, Move
  <2> QED BY <1>0, <2>1, <2>2, <2>3 DEF Same
<1>7. ASSUME NEW s \in Responses, Remember(s) PROVE LinksAreDurable'
  <2>1. /\ Same /\ UNCHANGED <<row, age, unsaved>> /\ leaked \subseteq leaked'
        /\ links' = links \cup {s}
        /\ turn'[s] = "saved" \/ s \in leaked'
        /\ \A r \in Responses : r # s => turn'[r] = turn[r]
    BY <1>7, StaysSame DEF Remember, Move, TypeOK, writing
  <2> SUFFICES ASSUME NEW r \in links', r \notin unsaved, r \notin leaked', r # s
               PROVE  (\/ row[r] # "none" \/ IsPending(Save(r)) \/ Later(r) \/ age[r] = "past")'
    BY <2>1 DEF LinksAreDurable
  <2>2. r \in links \ (unsaved \cup leaked) /\ r \in Responses /\ turn'[r] = turn[r]
    BY <2>1 DEF TypeOK
  <2>3. Save(r) \in Ops
    BY <2>2, OpFacts
  <2> QED BY <2>1, <2>2, <2>3 DEF LinksAreDurable, Same
<1>8. ASSUME NEW s \in Responses, SendSave(s) PROVE LinksAreDurable'
  <2>1. /\ UNCHANGED <<links, unsaved, leaked, row, age>>
        /\ \A r \in Responses : r # s => turn'[r] = turn[r]
    BY <1>8 DEF SendSave, Move, TypeOK, memory, table
  <2>2. /\ \A x \in Ops : IsPending(x) => IsPending(x)'
        /\ Later(s) => Later(s)' \/ IsPending(Save(s))'
    <3>1. CASE Enqueue(Save(s))
      BY <3>1, EnqueueEffect, OpFacts DEF Added
    <3>2. CASE UNCHANGED writing /\ (Move(s, "saved", "inline") \/ Move(s, "late", "lateInline"))
      <4>1. Same
        BY <3>2, StaysSame DEF writing
      <4> QED BY <3>2, <4>1 DEF Same, Move, TypeOK
    <3> QED BY <1>8, <3>1, <3>2 DEF SendSave
  <2> SUFFICES ASSUME NEW r \in links \ (unsaved \cup leaked)
               PROVE  (\/ row[r] # "none" \/ IsPending(Save(r)) \/ Later(r) \/ age[r] = "past")'
    BY <2>1 DEF LinksAreDurable
  <2>3. r \in Responses
    BY DEF TypeOK
  <2>4. Save(r) \in Ops
    BY <2>3, OpFacts
  <2>5. row[r] # "none" \/ IsPending(Save(r)) \/ Later(r) \/ age[r] = "past"
    BY DEF LinksAreDurable
  <2> QED BY <2>1, <2>2, <2>3, <2>4, <2>5
<1>9. ASSUME NEW s \in Responses, SaveInline(s) PROVE LinksAreDurable'
  <2>1. /\ Same /\ Wrote(Save(s)) /\ leaked' = leaked /\ UNCHANGED <<links, age>>
        /\ \A r \in Responses : r # s => turn'[r] = turn[r]
    BY <1>9, StaysSame, SaveInlineEffect DEF SaveInline, Move, TypeOK, memory, writing
  <2> SUFFICES ASSUME NEW r \in links, r \notin unsaved', r \notin leaked, age[r] # "past"
               PROVE  (\/ row[r] # "none" \/ IsPending(Save(r)) \/ Later(r))'
    BY <2>1 DEF LinksAreDurable
  <2>2. r \in Responses /\ r \notin unsaved /\ Home[r] \in stored
    BY <1>1, <2>1 DEF TypeOK, Wrote
  <2>3. Save(s) # Delete(Home[r]) /\ Save(r) \in Ops
    BY <2>2, OpFacts
  <2>4. row[r] # "none" \/ r = s => row'[r] # "none"
    BY <2>1, <2>2, <2>3 DEF Wrote
  <2> QED BY <2>1, <2>2, <2>3, <2>4 DEF LinksAreDurable, Same
<1>10. ASSUME NEW c \in Convs,
              Claim(c) \/ Unclaim(c) \/ Forget(c) \/ DeleteRow(c) \/ Remove(c)
       PROVE  LinksAreDurable'
  <2>1. Same
    BY <1>10, StaysSame DEF Claim, Unclaim, Forget, DeleteRow, Remove, writing
  <2>2. UNCHANGED <<turn, row, age, unsaved, leaked>> /\ links' \subseteq links
    BY <1>10 DEF Claim, Unclaim, Forget, DeleteRow, Remove, memory, table
  <2> QED BY <1>0, <2>1, <2>2 DEF Same
<1>11. ASSUME NEW c \in Convs, SendDelete(c) PROVE LinksAreDurable'
  <2>1. UNCHANGED <<links, unsaved, leaked, turn, row, age>>
    BY <1>11 DEF SendDelete, memory, table
  <2>2. \A x \in Ops : IsPending(x) => IsPending(x)'
    <3>1. CASE Enqueue(Delete(c))
      BY <3>1, EnqueueEffect, OpFacts DEF Added
    <3>2. CASE UNCHANGED <<queue, hand>>
      BY <3>2, StaysSame DEF Same
    <3> QED BY <1>11, <3>1, <3>2 DEF SendDelete, writing
  <2> QED BY <1>0, <2>1, <2>2
<1>12. ASSUME NEW c \in Convs, DeleteInline(c) PROVE LinksAreDurable'
  <2>1. writer # "open" /\ Forgotten(c)
    BY <1>12 DEF Waiting, DeleteInline, Step, Forgotten
  <2>2. Same /\ Wrote(Delete(c)) /\ UNCHANGED <<unsaved, links, turn, age>>
    BY <1>12, <2>1, StaysSame, DeleteInlineEffect DEF DeleteInline, memory, writing
  <2> SUFFICES ASSUME NEW r \in links, r \notin unsaved, r \notin leaked', age[r] # "past"
               PROVE  row'[r] # "none" \/ IsPending(Save(r))' \/ Later(r)
    BY <2>2 DEF LinksAreDurable
  <2>3. r \in Responses /\ r \notin leaked /\ Home[r] \in stored /\ Home[r] # c
    BY <1>1, <2>1, <2>2 DEF TypeOK, Wrote
  <2>4. Delete(c) # Delete(Home[r]) /\ Save(r) \in Ops
    BY <2>3, OpFacts, Zenon
  <2>5. row[r] # "none" => row'[r] # "none"
    BY <2>2, <2>3, <2>4 DEF Wrote
  <2> QED BY <2>2, <2>3, <2>4, <2>5 DEF LinksAreDurable, Same
<1> QED BY <1>2, <1>3, <1>4, <1>5, <1>6, <1>7, <1>8, <1>9, <1>10, <1>11, <1>12, Steps

-----------------------------------------------------------------------------
(* The theorems                                                            *)

LEMMA InitIInv == Init => IInv
<1> SUFFICES ASSUME Init PROVE IInv
  OBVIOUS
<1>1. TypeOK
  <2>1. <<>> \in Seq(Ops) /\ <<>> \in Seq(Convs) /\ Len(<<>>) = 0
    BY EmptySeq
  <2> QED BY <2>1 DEF Init, TypeOK, Ages
<1>2. Claimed /\ Running /\ Waiting
  BY DEF Init, Claimed, Running, Waiting, Active
<1>3. OutOfMemory /\ SavedAfter /\ LinksAreDurable
  BY DEF Init, OutOfMemory, SavedAfter, LinksAreDurable
<1>4. OutOfTable
  BY DEF Init, OutOfTable, Asked
<1> QED BY <1>1, <1>2, <1>3, <1>4 DEF IInv

\* The parts of the invariant hold together in every reachable state.
THEOREM Inductive == Spec => []IInv
<1>1. IInv /\ [Next]_vars => IInv'
  <2> SUFFICES ASSUME IInv, [Next]_vars PROVE IInv'
    OBVIOUS
  <2> USE DEF IInv
  <2>1. TypeOK' /\ Claimed' /\ Running' /\ Waiting'
    BY TypeStep, ClaimedStep, RunningStep, WaitingStep
  <2>2. OutOfMemory' /\ OutOfTable' /\ SavedAfter' /\ LinksAreDurable'
    BY MemoryStep, TableStep, SavedStep, DurableStep
  <2> QED BY <2>1, <2>2
<1> QED BY InitIInv, <1>1, PTL DEF Spec

\* Every variable keeps its type; the queue never holds more than its capacity.
THEOREM TypeCorrect == Spec => []TypeOK
<1>1. IInv => TypeOK
  BY DEF IInv
<1> QED BY Inductive, <1>1, PTL

\* A deletion of a conversation reaches every answer of it, in memory and in the table
\* (deleteResponsesByConversationOrThread and the writer).
THEOREM DeletionsReachAll == Spec => []DeletionReachesAll
<1>1. IInv => DeletionReachesAll
  BY DEF IInv, OutOfMemory, OutOfTable, Forgotten, Asked, DeletionReachesAll
<1> QED BY Inductive, <1>1, PTL

\* What can be continued can be continued after a restart (saveResponseWithAccount and
\* the writer).
THEOREM LinksStay == Spec => []LinksAreDurable
<1>1. IInv => LinksAreDurable
  BY DEF IInv
<1> QED BY Inductive, <1>1, PTL
===============================================================================
