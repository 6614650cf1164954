--------------------------- MODULE MCChatWorkspace ---------------------------
(* TLC's instance of ChatWorkspace: two conversations of two turns, and at   *)
(* most two requests of the page in flight at a time.                        *)
EXTENDS ChatWorkspace, FiniteSets, TLC

CONSTANT MaxInFlight  \* requests of the page in flight at a time (a bound)

FewInFlight ==
  LET reads == {t \in Reads : read[t].pc # "idle"}
      others == {x \in {<<"run", run.pc>>, <<"change", change.pc>>, <<"row", row.pc>>} :
                   x[2] # "idle"}
  IN Cardinality(reads) + Cardinality(others) <= MaxInFlight

ChatSymmetry == Permutations(Convs) \cup Permutations(Reads)
===============================================================================
