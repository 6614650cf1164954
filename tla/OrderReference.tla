--------------------------- MODULE OrderReference ---------------------------
(***************************************************************************)
(* ConversationOrder states what the Go loops compute; this module walks   *)
(* the loops step by step and compares, on the list of the store and over  *)
(* all the lists of a few ids: nothing is in a list more than once.        *)
(***************************************************************************)
EXTENDS Conversations

CONSTANTS Ids,    \* conversation ids
          MaxList \* the capacities to try are 1..MaxList

ASSUME MaxListAssumption == MaxList \in Nat \ {0}

(* Nothing is listed twice.                                                *)
Distinct(o) == \A i, j \in DOMAIN o : o[i] = o[j] => i = j

Lists == {o \in UNION {[1..n -> Ids] : n \in 0..Cardinality(Ids)} : Distinct(o)}

-----------------------------------------------------------------------------
(* moveToFrontLocked: the scan for the id, copy(order[1:i+1], order[:i]),  *)
(* or the append in front.                                                 *)
FrontLoop(o, c) ==
  LET scan[i \in 1..Len(o) + 1] ==
        IF i > Len(o) THEN <<c>> \o o
        ELSE IF o[i] # c THEN scan[i + 1]
        ELSE <<c>> \o SubSeq(o, 1, i - 1) \o SubSeq(o, i + 1, Len(o))
  IN  IF o = <<>> \/ o[1] = c THEN o ELSE scan[1]

(* trimLocked, one entry a turn from the tail while the list is too long:  *)
(* walk[i] is the list when the entries behind the i-th have had theirs.   *)
TrimLoop(o, protected, max) ==
  LET walk[i \in 0..Len(o)] ==
        IF i = Len(o) THEN o
        ELSE IF Len(walk[i + 1]) <= max \/ walk[i + 1][i + 1] \in protected THEN walk[i + 1]
        ELSE SubSeq(walk[i + 1], 1, i) \o SubSeq(walk[i + 1], i + 2, Len(walk[i + 1]))
  IN  walk[0]

-----------------------------------------------------------------------------
(* The closed forms against the loops, on one list: moving each of ids,    *)
(* and trimming for every choice of protected entries and capacities.      *)
MovesAs(list, ids) == \A c \in ids : MoveToFront(list, c) = FrontLoop(list, c)

TrimsAs(list, ids, capacities) ==
  \A P \in SUBSET ids, max \in capacities :
     Without(list, Evicted(list, P, max)) = TrimLoop(list, P, max)

TrimsWell(list, ids, capacities) ==
  \A P \in SUBSET ids, max \in capacities :
     LET gone == Evicted(list, P, max)
         left == Without(list, gone)
     IN  /\ Len(left) <= max \/ \A i \in DOMAIN left : left[i] \in P
         /\ \A i, j \in DOMAIN list :
               i < j /\ list[i] \in gone /\ list[j] \notin P => list[j] \in gone

(* On every list over Ids.                                                 *)
EveryMove == \A list \in Lists : MovesAs(list, Ids)
EveryTrim == \A list \in Lists : TrimsAs(list, Ids, 1..MaxList)
EveryTrimWell == \A list \in Lists : TrimsWell(list, Ids, 1..MaxList)

(* On the list of the store and on every list of a few ids: the shift in   *)
(* place of moveToFrontLocked loses no entry, doubles none and keeps the   *)
(* order of the others, wherever the id was.  trimLocked, which shortens   *)
(* the very list it walks, ends with a list that fits, or with protected   *)
(* entries only, and it never drops an entry while an older unprotected    *)
(* one stays.                                                              *)
ListLoopsAgree ==
  /\ EveryMove /\ MovesAs(order, Conv)
  /\ EveryTrim /\ TrimsAs(order, Conv, {MaxResident})
  /\ EveryTrimWell /\ TrimsWell(order, Conv, {MaxResident})
=============================================================================
