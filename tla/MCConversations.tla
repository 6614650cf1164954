-------------------------- MODULE MCConversations --------------------------
(* TLC instances of Conversations, with the comparison of its list         *)
(* operations and the loops they stand for.                                *)
EXTENDS OrderReference, TLC

ActorSymmetry == Permutations(Handlers) \cup Permutations(Deleters)
FullSymmetry  == ActorSymmetry \cup Permutations(Conv)

(* Past the first foreign ending or lost write the properties excuse the   *)
(* conversation; the run with two conversations stops there, the runs with *)
(* one explore what follows.                                               *)
Unexcused == foreign \cup dropped = {}
============================================================================
