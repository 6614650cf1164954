---------------------------- MODULE MCModelPolicy ----------------------------
(* TLC's instance of ModelPolicy: a panel that is closed and opened again,   *)
(* two requests, both settings of a workspace, and a member who excludes     *)
(* everything in Notion.                                                     *)
EXTENDS ModelPolicy, TLC

Excluded == {[present |-> TRUE, off |-> Models]}

Symmetry == Permutations(Tasks)
===============================================================================
