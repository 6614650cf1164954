------------------------- MODULE MCConversationsPanel -------------------------
(* TLC's instance of ConversationsPanel: two conversations of two accounts,   *)
(* with the comparison of the hook's merging and what it amounts to. At most  *)
(* one event or selected detail at a time is on its way, beside a request.    *)
EXTENDS EventMerging, TLC

CONSTANTS c1, c2, a1, a2

SampleAccounts == (c1 :> a1) @@ (c2 :> a2)

\* Conversations are interchangeable, together with their accounts.
Renamings ==
  {f \in {p @@ q : p \in Permutations(Convs), q \in Permutations(Accounts)} :
     \A c \in Convs : AccountOf[f[c]] = f[AccountOf[c]]}

OneUnread == Cardinality(reading) + Len(queue) <= 1
===============================================================================
