------------------------- MODULE ConversationOrder -------------------------
(***************************************************************************)
(* The recency list of the in-memory conversation store                    *)
(* (src/internal/app/conversations.go): newest first, used to decide which *)
(* entry leaves the store when it holds more than maxConversationEntries.  *)
(***************************************************************************)
EXTENDS Naturals, Sequences, FiniteSets

(***************************************************************************)
(* moveToFrontLocked: the entries before c shift by one and c becomes the  *)
(* head.  An id that is not listed yet is prepended, except to an empty    *)
(* list, which stays empty.                                                *)
(***************************************************************************)
MoveToFront(o, c) ==
  LET at   == {i \in DOMAIN o : o[i] = c}
      last == IF at = {} THEN Len(o) + 1 ELSE CHOOSE i \in at : \A j \in at : i <= j
  IN  IF o = <<>> THEN o
      ELSE [i \in 1..(IF last > Len(o) THEN last ELSE Len(o)) |->
              IF i = 1 THEN c ELSE IF i <= last THEN o[i - 1] ELSE o[i]]

(* Mutant: the list is not rebuilt.                                        *)
WithoutNone(o, S) == o

(* The list without the ids of S; Delete rebuilds its order this way: the  *)
(* k-th entry is the k-th of those kept.                                   *)
Without(o, S) ==
  LET kept(i) == {j \in 1..i : o[j] \notin S}
      nth(k)  == CHOOSE i \in kept(Len(o)) : Cardinality(kept(i)) = k
  IN  [k \in 1..Cardinality(kept(Len(o))) |-> o[nth(k)]]

(* Mutant: the walk starts at the head.                                   *)
EvictedFromHead(o, protected, max) ==
  {o[i] : i \in {j \in DOMAIN o :
     /\ o[j] \notin protected
     /\ Len(o) > max
     /\ Cardinality({k \in 1..j : o[k] \notin protected}) <= Len(o) - max}}

(***************************************************************************)
(* trimLocked walks the list from its tail and drops every entry that is   *)
(* not protected until no more than max are left.  An unprotected entry is *)
(* therefore dropped exactly when the unprotected entries from it to the   *)
(* tail do not outnumber the excess.                                       *)
(***************************************************************************)
Evicted(o, protected, max) ==
  {o[i] : i \in {j \in DOMAIN o :
     /\ o[j] \notin protected
     /\ Len(o) > max
     /\ Cardinality({k \in j..Len(o) : o[k] \notin protected}) <= Len(o) - max}}
============================================================================
