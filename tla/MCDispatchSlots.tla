---------------------------- MODULE MCDispatchSlots ----------------------------
(* TLC instance of DispatchSlots: two workspaces of one account.           *)
EXTENDS DispatchSlots, TLC

CONSTANTS a1, w1, w2

OneAccount == w1 :> a1 @@ w2 :> a1

\* Attempts are interchangeable, and so are the names of objects.
SlotSymmetry == Permutations(Requests) \cup Permutations(Objects)
===============================================================================
